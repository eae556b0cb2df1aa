-------------------------- MODULE TxWitnessProofs ---------------------------
(***************************************************************************)
(* Proofs about SignRequest and TxWitness, for any transaction, command    *)
(* line and device.                                                        *)
(*                                                                         *)
(* First what holds of every request: a path in a request is the path of a *)
(* signing file, and where the device rebuilds the very body it was asked  *)
(* to sign, each key handed over by its path is a key of the device's own  *)
(* seed.  Then the run: everything that is written comes from a run whose  *)
(* request the device rebuilt to the transaction of the tx file            *)
(* (Approved).  The two loops, over the signing files and over the out     *)
(* files, each carry an invariant about the part they have done.           *)
(***************************************************************************)
EXTENDS TxWitness, SequenceTheorems, WellFoundedInduction, TLAPS

-----------------------------------------------------------------------------
(* Signing files *)

\* What filterSigningFiles returns is among the files given, and of the type asked for.
LEMMA OfTypeFacts ==
  ASSUME NEW files \in Seq(Keys), NEW types, NEW k \in OfType(files, types)
  PROVE  /\ k \in Elements(files)
         /\ k \in Keys
         /\ k = <<k[1], PathOf(k)>>
         /\ Type[PathOf(k)] \in types
<1>1. k \in Elements(files) /\ Type[PathOf(k)] \in types
  BY DEF OfType, TypeOf, PathOf
<1>2. k \in Keys
  BY <1>1, ElementOfSeq DEF Elements
<1> QED BY <1>1, <1>2 DEF Keys, PathOf

\* find returns the first match, so it is a match.
LEMMA FirstAtFacts ==
  ASSUME NEW files \in Seq(Keys), NEW path, NEW k \in Elements(files), PathOf(k) = path
  PROVE  /\ FirstAt(path, files) \in Elements(files)
         /\ PathOf(FirstAt(path, files)) = path
<1> DEFINE M == {i \in DOMAIN files : PathOf(files[i]) = path}
           P(i) == /\ PathOf(files[i]) = path
                   /\ \A j \in DOMAIN files : PathOf(files[j]) = path => i <= j
<1>1. DOMAIN files \subseteq Nat
  BY LenProperties
<1>2. M \subseteq Nat /\ M # {}
  BY <1>1 DEF Elements
<1>3. PICK i \in M : \A j \in M : <<j, i>> \notin OpToRel(<, Nat)
  BY <1>2, NatLessThanWellFounded, WFMin
<1>4. \A j \in M : i <= j
  <2> TAKE j \in M
  <2>1. i \in Nat /\ j \in Nat /\ ~(j < i)
    BY <1>2, <1>3 DEF OpToRel
  <2> QED BY <2>1
<1>5. \E n \in DOMAIN files : P(n)
  BY <1>4
<1>6. P(CHOOSE n \in DOMAIN files : P(n)) /\ (CHOOSE n \in DOMAIN files : P(n)) \in DOMAIN files
  BY <1>5
<1> QED BY <1>6 DEF FirstAt, Elements

-----------------------------------------------------------------------------
(* Requests *)

\* What a request says about a body, and what the device makes of it if it signs that
\* very body.
Rebuilt(seed, r, device, body, files, mode) ==
  /\ r.additional = AdditionalWitnessRequests(files)
  /\ r.body.certificates =
       [i \in DOMAIN body.certificates |-> Certificate(device, body.certificates[i], files, mode)]
  /\ r.body.withdrawals =
       [i \in DOMAIN body.withdrawals |->
          StakeCredential(body.withdrawals[i], OfType(files, {"Stake"}))]
  /\ r.body.requiredSigners = {RequiredSigner(k, files) : k \in body.requiredSigners}
  /\ body.certificates =
       [i \in DOMAIN r.body.certificates |-> DeriveCertificate(seed, r.body.certificates[i])]
  /\ body.withdrawals =
       [i \in DOMAIN r.body.withdrawals |-> Derive(seed, r.body.withdrawals[i])]
  /\ body.requiredSigners = {Derive(seed, x) : x \in r.body.requiredSigners}

\* If the hash fits, every part of the request is rebuilt to that part of the body.
LEMMA SignedIsRebuilt ==
  ASSUME NEW device, NEW body \in Bodies, NEW files, NEW change, NEW mode, NEW seed,
         BodySigned(seed, Request(device, body, files, change, mode)) = body
  PROVE  Rebuilt(seed, Request(device, body, files, change, mode), device, body, files, mode)
<1> DEFINE r == Request(device, body, files, change, mode)
<1>1. DOMAIN body = {"outputs", "certificates", "withdrawals", "requiredSigners", "mint",
                    "collateralInputs", "networkId", "inputs"}
  BY DEF Bodies
<1>2. DOMAIN r.body = DOMAIN body
  BY DEF Request, Bodies
<1>3. {"certificates", "withdrawals", "requiredSigners", "outputs"} \subseteq DOMAIN r.body
  BY <1>1, <1>2
<1>4. /\ r.additional = AdditionalWitnessRequests(files)
      /\ r.body.certificates = [i \in DOMAIN body.certificates |->
                                  Certificate(device, body.certificates[i], files, mode)]
      /\ r.body.withdrawals = [i \in DOMAIN body.withdrawals |->
                                 StakeCredential(body.withdrawals[i], OfType(files, {"Stake"}))]
      /\ r.body.requiredSigners = {RequiredSigner(k, files) : k \in body.requiredSigners}
  BY DEF Request, Bodies
<1> HIDE DEF r
<1>5. /\ BodySigned(seed, r).certificates =
           [i \in DOMAIN r.body.certificates |-> DeriveCertificate(seed, r.body.certificates[i])]
      /\ BodySigned(seed, r).withdrawals =
           [i \in DOMAIN r.body.withdrawals |-> Derive(seed, r.body.withdrawals[i])]
      /\ BodySigned(seed, r).requiredSigners =
           {Derive(seed, x) : x \in r.body.requiredSigners}
  BY <1>3 DEF BodySigned
<1>6. BodySigned(seed, r) = body
  BY DEF r
<1>7. Rebuilt(seed, r, device, body, files, mode)
  BY <1>4, <1>5, <1>6 DEF Rebuilt
<1> QED BY <1>7 DEF r

-----------------------------------------------------------------------------
(* Keys named by path *)

\* A withdrawal is handed over by path for a stake file only.
LEMMA WithdrawalKeys ==
  ASSUME NEW device, NEW body, NEW files, NEW mode, NEW seed, NEW r,
         Rebuilt(seed, r, device, body, files, mode),
         NEW p \in PathsIn(Elements(r.body.withdrawals))
  PROVE  <<seed, p>> \in OfType(files, {"Stake"})
<1> DEFINE S == OfType(files, {"Stake"})
<1>1. PICK i \in DOMAIN r.body.withdrawals :
        r.body.withdrawals[i].by = "path" /\ p = r.body.withdrawals[i].path
  BY DEF PathsIn, Elements
<1>2. i \in DOMAIN body.withdrawals /\
        r.body.withdrawals[i] = StakeCredential(body.withdrawals[i], S)
  BY <1>1 DEF Rebuilt
<1>3. body.withdrawals[i] = Derive(seed, r.body.withdrawals[i])
  BY <1>1 DEF Rebuilt
<1>4. body.withdrawals[i] \in S
  BY <1>1, <1>2 DEF StakeCredential, PathIf, ByHash
<1>5. Derive(seed, r.body.withdrawals[i]) = <<seed, p>>
  BY <1>1 DEF Derive
<1> QED BY <1>3, <1>4, <1>5

\* A required signer that is given by its path cannot be another wallet's key: no element
\* of the rebuilt set would be that key.
LEMMA RequiredSignerKeys ==
  ASSUME NEW device, NEW body, NEW files, NEW mode, NEW seed, NEW r,
         Rebuilt(seed, r, device, body, files, mode),
         NEW p \in PathsIn(r.body.requiredSigners)
  PROVE  <<seed, p>> \in OfType(files, {"Payment", "Stake", "Mint", "MultiSig"})
<1> DEFINE S == OfType(files, {"Payment", "Stake", "Mint", "MultiSig"})
<1>1. PICK k \in body.requiredSigners :
        RequiredSigner(k, files).by = "path" /\ p = RequiredSigner(k, files).path
  BY DEF PathsIn, Rebuilt
<1>2. k \in S /\ PathOf(k) = p
  BY <1>1 DEF RequiredSigner, PathIf, ByPath, ByHash
<1>3. PICK y \in body.requiredSigners : k = Derive(seed, RequiredSigner(y, files))
  BY DEF Rebuilt
<1>4. CASE y \in S
  <2>1. RequiredSigner(y, files) = ByPath(y)
    BY <1>4 DEF RequiredSigner, PathIf
  <2>2. k = <<seed, PathOf(y)>>
    BY <1>3, <2>1 DEF ByPath, Derive
  <2> QED BY <1>2, <2>2 DEF PathOf
<1>5. CASE y \notin S
  <2>1. RequiredSigner(y, files) = ByHash(y)
    BY <1>5 DEF RequiredSigner, PathIf
  <2>2. k = y
    BY <1>3, <2>1 DEF ByHash, Derive
  <2> QED BY <1>2, <1>5, <2>2
<1> QED BY <1>4, <1>5

\* A certificate names a key by its path only if there is a signing file for it.
LEMMA CertificateKeys ==
  ASSUME NEW device \in Providers, NEW cert \in Certificates, NEW files, NEW mode,
         NEW seed, NEW c,
         CertificateOk(device, cert, files, mode),
         c = Certificate(device, cert, files, mode),
         cert = DeriveCertificate(seed, c),
         NEW p \in PathsIn(KeysHandedOver(c))
  PROVE  <<seed, p>> \in CertificateFiles(device, files)
<1> DEFINE given == CertificateFiles(device, files)
<1>1. CASE cert.type \in StakeCertTypes
  <2>1. cert \in [type: StakeCertTypes, credential: Credentials]
    BY <1>1 DEF Certificates, StakeCertTypes
  <2>2. c = [cert EXCEPT !.credential = StakeCredential(cert.credential, given)]
    BY Zenon, <1>1 DEF Certificate, StakeCertTypes
  <2>3. c.type = cert.type /\ c.credential = StakeCredential(cert.credential, given)
          /\ DOMAIN c = {"type", "credential"}
    BY <2>1, <2>2
  <2>4. DeriveCertificate(seed, c) = [c EXCEPT !.credential = Derive(seed, c.credential)]
    BY Zenon, <1>1, <2>3 DEF DeriveCertificate, StakeCertTypes
  <2>5. cert.credential = Derive(seed, c.credential)
    BY <2>3, <2>4
  <2>6. c.credential.by = "path" /\ p = c.credential.path
    BY <1>1, <2>3 DEF KeysHandedOver, PathsIn, StakeCertTypes
  <2>7. cert.credential \in given
    BY <2>3, <2>6 DEF StakeCredential, PathIf, ByHash
  <2>8. Derive(seed, c.credential) = <<seed, p>>
    BY <2>6 DEF Derive
  <2> QED BY <2>5, <2>7, <2>8
<1>2. CASE cert.type = "POOL_REGISTRATION"
  <2>1. cert \in [type: {"POOL_REGISTRATION"}, operator: Keys, owners: Seq(Keys),
                  rewardAccount: Credentials, relayPorts: SUBSET Nat]
    BY <1>2 DEF Certificates, StakeCertTypes
  <2>2. /\ c.type = cert.type
        /\ c.operator = PoolKey(device, cert.operator, given, mode)
        /\ c.owners = PoolOwners(device, cert.owners, given, mode)
        /\ DOMAIN c = {"type", "operator", "owners", "rewardAccount", "relayPorts"}
    BY Zenon, <1>2, <2>1 DEF Certificate, StakeCertTypes
  <2>3. DeriveCertificate(seed, c) =
          [c EXCEPT !.operator = Derive(seed, c.operator),
                    !.owners = [i \in DOMAIN c.owners |-> Derive(seed, c.owners[i])],
                    !.rewardAccount = Derive(seed, c.rewardAccount)]
    BY Zenon, <1>2, <2>2 DEF DeriveCertificate, StakeCertTypes
  <2>4. /\ cert.operator = Derive(seed, c.operator)
        /\ cert.owners = [i \in DOMAIN c.owners |-> Derive(seed, c.owners[i])]
    BY Zenon, <2>2, <2>3
  <2>5. p \in PathsIn({c.operator}) \/ p \in PathsIn(Elements(c.owners))
    BY <1>2, <2>2 DEF KeysHandedOver, PathsIn, StakeCertTypes
  <2>6. CASE p \in PathsIn({c.operator})
    <3>1. c.operator.by = "path" /\ p = c.operator.path
      BY <2>6 DEF PathsIn
    <3>2. cert.operator \in given
      BY <2>2, <3>1 DEF PoolKey, ByHash, Undefined
    <3>3. Derive(seed, c.operator) = <<seed, p>>
      BY <3>1 DEF Derive
    <3> QED BY <2>4, <3>2, <3>3
  <2>7. CASE p \in PathsIn(Elements(c.owners))
    <3>1. PICK i \in DOMAIN c.owners : c.owners[i].by = "path" /\ p = c.owners[i].path
      BY <2>7 DEF PathsIn, Elements
    <3>2. /\ i \in DOMAIN cert.owners
          /\ c.owners[i] =
               PathIf(i \in OwnersByPath(device, cert.owners, given, mode), cert.owners[i])
      BY <2>2, <3>1 DEF PoolOwners
    <3>3. i \in OwnersByPath(device, cert.owners, given, mode)
      BY <3>1, <3>2 DEF PathIf, ByHash
    <3>4. cert.owners[i] \in given
      BY <3>3 DEF OwnersByPath
    <3>5. cert.owners[i] = Derive(seed, c.owners[i])
      BY <2>4, <3>1
    <3>6. Derive(seed, c.owners[i]) = <<seed, p>>
      BY <3>1 DEF Derive
    <3> QED BY <3>4, <3>5, <3>6
  <2> QED BY <2>5, <2>6, <2>7
<1>3. CASE cert.type = "POOL_RETIREMENT"
  <2>1. cert \in [type: {"POOL_RETIREMENT"}, operator: Keys]
    BY <1>3 DEF Certificates, StakeCertTypes
  <2>2. c = [cert EXCEPT !.operator = ByPath(cert.operator)]
    BY <1>3 DEF Certificate, StakeCertTypes
  <2>3. c.type = cert.type /\ c.operator = ByPath(cert.operator) /\ DOMAIN c = {"type", "operator"}
    BY <2>1, <2>2
  <2>4. DeriveCertificate(seed, c) = [c EXCEPT !.operator = Derive(seed, c.operator)]
    BY <1>3, <2>3 DEF DeriveCertificate, StakeCertTypes
  <2>5. cert.operator = Derive(seed, c.operator)
    BY <2>3, <2>4
  <2>6. c.operator.by = "path" /\ p = c.operator.path
    BY <1>3, <2>3 DEF KeysHandedOver, PathsIn, StakeCertTypes
  <2>7. Derive(seed, c.operator) = <<seed, p>>
    BY <2>6 DEF Derive
  <2>8. cert.operator \in given
    BY <1>3 DEF CertificateOk, StakeCertTypes
  <2> QED BY <2>5, <2>7, <2>8
<1>4. cert.type # "OTHER"
  BY DEF CertificateOk, StakeCertTypes
<1> QED BY <1>1, <1>2, <1>3, <1>4 DEF Certificates

\* Whatever the device signs at is the path of a signing file; unless that is a payment,
\* mint or multisig file, the key the device signs with is itself in a signing file.
LEMMA AskedKeys ==
  ASSUME NEW device \in Providers, NEW body \in Bodies, NEW files \in Seq(Keys),
         NEW change, NEW mode, NEW seed,
         RequestOk(device, body, files, change, mode),
         BodySigned(seed, Request(device, body, files, change, mode)) = body,
         NEW p \in MaySign(Request(device, body, files, change, mode))
  PROVE  \/ \E k \in OfType(files, {"Payment", "Mint", "MultiSig"}) : PathOf(k) = p
         \/ <<seed, p>> \in OfType(files, {"Payment", "Stake", "PoolCold", "Mint", "MultiSig"})
<1> DEFINE r == Request(device, body, files, change, mode)
           All == OfType(files, {"Payment", "Stake", "PoolCold", "Mint", "MultiSig"})
<1>1. Rebuilt(seed, r, device, body, files, mode)
  BY SignedIsRebuilt
<1>2. p \in MaySign(r)
  OBVIOUS
<1>3. \A i \in DOMAIN body.certificates :
        CertificateOk(device, body.certificates[i], files, mode)
  BY DEF RequestOk
<1>4. \A i \in DOMAIN body.certificates : body.certificates[i] \in Certificates
  <2>1. body.certificates \in Seq(Certificates)
    BY DEF Bodies
  <2> QED BY <2>1, ElementOfSeq
<1> HIDE DEF r
<1>5. CASE p \in r.additional
  BY <1>1, <1>5 DEF Rebuilt, AdditionalWitnessRequests
<1>6. CASE p \in PathsIn(Elements(r.body.withdrawals))
  <2>1. <<seed, p>> \in OfType(files, {"Stake"})
    BY <1>1, <1>6, WithdrawalKeys
  <2> QED BY <2>1 DEF OfType
<1>7. CASE p \in PathsIn(r.body.requiredSigners)
  <2>1. <<seed, p>> \in OfType(files, {"Payment", "Stake", "Mint", "MultiSig"})
    BY <1>1, <1>7, RequiredSignerKeys
  <2> QED BY <2>1 DEF OfType
<1>8. ASSUME NEW c \in Elements(r.body.certificates), p \in PathsIn(KeysHandedOver(c))
      PROVE  <<seed, p>> \in All
  <2>1. PICK i \in DOMAIN r.body.certificates : c = r.body.certificates[i]
    BY DEF Elements
  <2>2. /\ i \in DOMAIN body.certificates
        /\ c = Certificate(device, body.certificates[i], files, mode)
        /\ body.certificates[i] = DeriveCertificate(seed, c)
    BY <1>1, <2>1 DEF Rebuilt
  <2>3. body.certificates[i] \in Certificates
    BY <1>4, <2>2
  <2>4. CertificateOk(device, body.certificates[i], files, mode)
    BY <1>3, <2>2
  <2>5. <<seed, p>> \in CertificateFiles(device, files)
    BY <1>8, <2>2, <2>3, <2>4, CertificateKeys
  <2> QED BY <2>5 DEF CertificateFiles, OfType
<1>9. \/ p \in r.additional
      \/ p \in PathsIn(Elements(r.body.withdrawals))
      \/ p \in PathsIn(r.body.requiredSigners)
      \/ \E c \in Elements(r.body.certificates) : p \in PathsIn(KeysHandedOver(c))
  BY <1>2 DEF MaySign, MustSign
<1> QED BY <1>5, <1>6, <1>7, <1>8, <1>9

-----------------------------------------------------------------------------
(* Keys that must be named by path *)

\* A key handed over by path is asked for at its path.
LEMMA PathInIsAsked ==
  ASSUME NEW items, NEW k, ByPath(k) \in items
  PROVE  PathOf(k) \in PathsIn(items)
BY DEF PathsIn, ByPath

\* The key of a withdrawal is asked for, at least outside Plutus transactions or when
\* there is a file for it.
LEMMA WithdrawalsAsked ==
  ASSUME NEW device, NEW body, NEW files, NEW change, NEW mode, NEW seed, NEW r,
         RequestOk(device, body, files, change, mode),
         Rebuilt(seed, r, device, body, files, mode),
         NEW k \in Elements(body.withdrawals), k # Script,
         mode # "PLUTUS" \/ k \in OfType(files, {"Stake"})
  PROVE  PathOf(k) \in MustSign(r)
<1>1. PICK i \in DOMAIN body.withdrawals : k = body.withdrawals[i]
  BY DEF Elements
<1>2. k \in OfType(files, {"Stake"})
  BY <1>1 DEF RequestOk, CredentialOk
<1>3. i \in DOMAIN r.body.withdrawals /\ r.body.withdrawals[i] = ByPath(k)
  BY Zenon, <1>1, <1>2 DEF Rebuilt, StakeCredential, PathIf
<1>4. PathOf(k) \in PathsIn(Elements(r.body.withdrawals))
  BY <1>3, PathInIsAsked DEF Elements
<1> QED BY <1>4 DEF MustSign

\* So is a required signer with a stake file.
LEMMA RequiredSignersAsked ==
  ASSUME NEW device, NEW body, NEW files, NEW mode, NEW seed, NEW r,
         Rebuilt(seed, r, device, body, files, mode),
         NEW k \in body.requiredSigners, k \in OfType(files, {"Stake"})
  PROVE  PathOf(k) \in MustSign(r)
<1>1. k \in OfType(files, {"Payment", "Stake", "Mint", "MultiSig"})
  BY DEF OfType
<1>2. ByPath(k) = RequiredSigner(k, files)
  BY <1>1 DEF RequiredSigner, PathIf
<1>3. ByPath(k) \in r.body.requiredSigners
  BY <1>2 DEF Rebuilt
<1> QED BY <1>3, PathInIsAsked DEF MustSign

\* The keys that a certificate must be signed with, in the given signing mode.
OwedKey(cert, files, mode, k) ==
  \/ cert.type \in {"STAKE_DEREGISTRATION", "STAKE_DELEGATION"}
       /\ k = cert.credential /\ k # Script
       /\ (mode # "PLUTUS" \/ k \in OfType(files, {"Stake"}))
  \/ cert.type = "POOL_RETIREMENT" /\ k = cert.operator
  \/ cert.type = "POOL_REGISTRATION" /\ mode = "OPERATOR" /\ k = cert.operator
  \/ cert.type = "POOL_REGISTRATION" /\ mode = "OWNER"
       /\ k \in Elements(cert.owners) /\ k \in OfType(files, {"Stake"})

\* So are they, in the certificate.
LEMMA CertificateAsked ==
  ASSUME NEW device \in Providers, NEW cert \in Certificates, NEW files, NEW mode, NEW c,
         CertificateOk(device, cert, files, mode),
         c = Certificate(device, cert, files, mode),
         mode = "OPERATOR" => device = "ledger",
         Undefined \notin KeysHandedOver(c),
         NEW k, OwedKey(cert, files, mode, k)
  PROVE  c.type # "STAKE_REGISTRATION" /\ PathOf(k) \in PathsIn(KeysHandedOver(c))
<1> DEFINE given == CertificateFiles(device, files)
<1>1. CASE cert.type \in {"STAKE_DEREGISTRATION", "STAKE_DELEGATION"}
  <2>1. cert \in [type: StakeCertTypes, credential: Credentials]
    BY <1>1 DEF Certificates, StakeCertTypes
  <2>2. c = [cert EXCEPT !.credential = StakeCredential(cert.credential, given)]
    BY <1>1 DEF Certificate, StakeCertTypes
  <2>3. c.type = cert.type /\ c.credential = StakeCredential(cert.credential, given)
    BY <2>1, <2>2
  <2>4. k = cert.credential /\ k # Script
          /\ (mode # "PLUTUS" \/ k \in OfType(files, {"Stake"}))
    BY <1>1 DEF OwedKey
  <2>5. k \in given
    <3>1. CASE mode # "PLUTUS"
      BY <1>1, <2>4, <3>1 DEF CertificateOk, CredentialOk, StakeCertTypes
    <3>2. CASE k \in OfType(files, {"Stake"})
      BY <3>2 DEF CertificateFiles, OfType
    <3> QED BY <2>4, <3>1, <3>2
  <2>6. KeysHandedOver(c) = {ByPath(k)}
    BY <1>1, <2>3, <2>4, <2>5 DEF KeysHandedOver, StakeCredential, PathIf, StakeCertTypes
  <2> QED BY <1>1, <2>3, <2>6, PathInIsAsked
<1>2. CASE cert.type = "POOL_RETIREMENT"
  <2>1. cert \in [type: {"POOL_RETIREMENT"}, operator: Keys]
    BY <1>2 DEF Certificates, StakeCertTypes
  <2>2. c = [cert EXCEPT !.operator = ByPath(cert.operator)]
    BY <1>2 DEF Certificate, StakeCertTypes
  <2>3. c.type = cert.type /\ c.operator = ByPath(cert.operator)
    BY <2>1, <2>2
  <2>4. k = cert.operator
    BY <1>2 DEF OwedKey
  <2>5. KeysHandedOver(c) = {ByPath(k)}
    BY <1>2, <2>3, <2>4 DEF KeysHandedOver, StakeCertTypes
  <2> QED BY <1>2, <2>3, <2>5, PathInIsAsked
<1>3. CASE cert.type = "POOL_REGISTRATION"
  <2>1. cert \in [type: {"POOL_REGISTRATION"}, operator: Keys, owners: Seq(Keys),
                  rewardAccount: Credentials, relayPorts: SUBSET Nat]
    BY <1>3 DEF Certificates, StakeCertTypes
  <2>2. /\ c.type = cert.type /\ c.operator = PoolKey(device, cert.operator, given, mode)
        /\ c.owners = PoolOwners(device, cert.owners, given, mode)
    BY <1>3, <2>1 DEF Certificate, StakeCertTypes
  <2>3. KeysHandedOver(c) = {c.operator} \cup Elements(c.owners)
    BY <1>3, <2>2 DEF KeysHandedOver, StakeCertTypes
  <2>4. CASE mode = "OPERATOR" /\ k = cert.operator
    <3>1. c.operator = ByPath(k)
      BY <2>2, <2>3, <2>4 DEF PoolKey
    <3> QED BY <1>3, <2>2, <2>3, <3>1, PathInIsAsked
  <2>5. CASE mode = "OWNER" /\ k \in Elements(cert.owners) /\ k \in OfType(files, {"Stake"})
    <3>1. PICK j \in DOMAIN cert.owners : k = cert.owners[j]
      BY <2>5 DEF Elements
    <3>2. k \in given
      BY <2>5 DEF CertificateFiles, OfType
    <3>3. j \in OwnersByPath(device, cert.owners, given, mode)
      BY <2>5, <3>1, <3>2 DEF OwnersByPath
    <3>4. j \in DOMAIN c.owners /\ c.owners[j] = ByPath(k)
      BY <2>2, <3>1, <3>3 DEF PoolOwners, PathIf
    <3>5. ByPath(k) \in KeysHandedOver(c)
      BY <2>3, <3>4 DEF Elements
    <3> QED BY <1>3, <2>2, <3>5, PathInIsAsked
  <2> QED BY <1>3, <2>4, <2>5 DEF OwedKey
<1> QED BY <1>1, <1>2, <1>3 DEF OwedKey

\* And therefore in the request.
LEMMA CertificatesAsked ==
  ASSUME NEW device \in Providers, NEW body \in Bodies, NEW files, NEW change, NEW mode,
         NEW seed, NEW r,
         RequestOk(device, body, files, change, mode),
         Rebuilt(seed, r, device, body, files, mode), WellFormed(r),
         NEW cert \in Elements(body.certificates), NEW k, OwedKey(cert, files, mode, k)
  PROVE  PathOf(k) \in MustSign(r)
<1>1. PICK i \in DOMAIN body.certificates : cert = body.certificates[i]
  BY DEF Elements
<1>2. body.certificates \in Seq(Certificates)
  BY DEF Bodies
<1>3. cert \in Certificates
  BY <1>1, <1>2, ElementOfSeq
<1> DEFINE c == Certificate(device, cert, files, mode)
<1>4. i \in DOMAIN r.body.certificates /\ r.body.certificates[i] = c
  BY <1>1 DEF Rebuilt
<1>5. c \in Elements(r.body.certificates)
  BY <1>4 DEF Elements
<1>6. Undefined \notin KeysHandedOver(c)
  BY <1>5 DEF WellFormed
<1>7. CertificateOk(device, cert, files, mode) /\ (mode = "OPERATOR" => device = "ledger")
  BY <1>1 DEF RequestOk, Providers
<1>8. c.type # "STAKE_REGISTRATION" /\ PathOf(k) \in PathsIn(KeysHandedOver(c))
  BY <1>3, <1>6, <1>7, CertificateAsked
<1> HIDE DEF c
<1> QED BY <1>5, <1>8 DEF MustSign

-----------------------------------------------------------------------------
(* The two providers *)

\* What a Trezor may be asked to sign comes without a cold file, for it has no pool
\* retirement and no pool operators; so both look for keys in the same files.
LEMMA SameCertificateFiles ==
  ASSUME NEW network, NEW body, NEW files, NEW change, NEW mode \in Modes,
         ValidateWitnessing(network, body, files, mode),
         RequestOk("trezor", body, files, change, mode)
  PROVE  CertificateFiles("ledger", files) = CertificateFiles("trezor", files)
<1>1. OfType(files, {"PoolCold"}) = {}
  <2>1. CASE mode = "ORDINARY"
    <3>1. ~Retires(body)
      BY DEF RequestOk, CertificateOk, Retires, StakeCertTypes
    <3> QED BY <2>1, <3>1 DEF ValidateWitnessing, OrdinaryWitnesses, Has
  <2>2. CASE mode = "OWNER"
    BY <2>2 DEF ValidateWitnessing, PoolOwnerWitnesses, OfType
  <2>3. CASE mode = "MULTISIG"
    BY <2>3 DEF ValidateWitnessing, MultisigWitnesses, OfType
  <2>4. CASE mode = "PLUTUS"
    BY <2>4 DEF ValidateWitnessing, PlutusWitnesses, Has
  <2>5. mode # "OPERATOR"
    BY DEF RequestOk
  <2> QED BY <2>1, <2>2, <2>3, <2>4, <2>5 DEF Modes
<1> QED BY <1>1 DEF CertificateFiles, OfType

\* Both providers hand over the keys of a certificate in the same way.
LEMMA SameCertificate ==
  ASSUME NEW cert \in Certificates, NEW files, NEW mode,
         CertificateFiles("ledger", files) = CertificateFiles("trezor", files),
         CertificateOk("trezor", cert, files, mode),
         cert.type = "POOL_REGISTRATION" => mode = "OWNER"
  PROVE  LET l == Certificate("ledger", cert, files, mode)
             t == Certificate("trezor", cert, files, mode)
         IN /\ CertificateOk("ledger", cert, files, mode)
            /\ l.type = t.type
            /\ KeysHandedOver(l) = KeysHandedOver(t)
            /\ Undefined \notin KeysHandedOver(l)
<1> DEFINE given == CertificateFiles("trezor", files)
           l == Certificate("ledger", cert, files, mode)
           t == Certificate("trezor", cert, files, mode)
<1>1. \A cond, k : PathIf(cond, k) # Undefined
  BY DEF PathIf, ByPath, ByHash, Undefined
<1>2. CASE cert.type \in StakeCertTypes
  <2>1. CertificateOk("ledger", cert, files, mode)
    BY <1>2 DEF CertificateOk, StakeCertTypes
  <2>2. /\ l = [cert EXCEPT !.credential = StakeCredential(cert.credential, given)]
        /\ t = [cert EXCEPT !.credential = StakeCredential(cert.credential, given)]
    BY <1>2 DEF Certificate, StakeCertTypes
  <2>3. cert \in [type: StakeCertTypes, credential: Credentials]
    BY <1>2 DEF Certificates, StakeCertTypes
  <2>4. l = t /\ l.type = cert.type /\ l.credential = StakeCredential(cert.credential, given)
    BY <2>2, <2>3
  <2>5. KeysHandedOver(l) = {l.credential}
    BY <1>2, <2>4 DEF KeysHandedOver, StakeCertTypes
  <2>6. l.credential # Undefined
    BY <1>1, <2>4 DEF StakeCredential
  <2> QED BY <2>1, <2>4, <2>5, <2>6
<1>3. CASE cert.type = "POOL_REGISTRATION"
  <2>1. mode = "OWNER"
    BY <1>3
  <2>2. OwnersByPath("ledger", cert.owners, given, mode)
          = OwnersByPath("trezor", cert.owners, given, mode)
    BY <2>1 DEF OwnersByPath
  <2>3. CertificateOk("ledger", cert, files, mode)
    BY <1>3, <2>1, <2>2 DEF CertificateOk, PoolOwnersOk, StakeCertTypes
  <2>4. cert \in [type: {"POOL_REGISTRATION"}, operator: Keys, owners: Seq(Keys),
                  rewardAccount: Credentials, relayPorts: SUBSET Nat]
    BY <1>3 DEF Certificates, StakeCertTypes
  <2>5. /\ l.type = cert.type /\ t.type = cert.type
        /\ l.operator = ByHash(cert.operator) /\ t.operator = ByHash(cert.operator)
        /\ l.owners = PoolOwners("ledger", cert.owners, given, mode)
        /\ t.owners = PoolOwners("trezor", cert.owners, given, mode)
    BY <1>3, <2>1, <2>4 DEF Certificate, PoolKey, StakeCertTypes
  <2>6. l.owners = t.owners
    BY <2>2, <2>5 DEF PoolOwners
  <2>7. /\ KeysHandedOver(l) = {l.operator} \cup Elements(l.owners)
        /\ KeysHandedOver(t) = {t.operator} \cup Elements(t.owners)
    BY <1>3, <2>5 DEF KeysHandedOver, StakeCertTypes
  <2>8. l.operator # Undefined
    BY <2>5 DEF ByHash, Undefined
  <2>9. Undefined \notin Elements(l.owners)
    BY <1>1, <2>5 DEF PoolOwners, Elements
  <2> QED BY <2>3, <2>5, <2>6, <2>7, <2>8, <2>9
<1>4. cert.type \notin {"POOL_RETIREMENT", "OTHER"}
  BY DEF CertificateOk, StakeCertTypes
<1> QED BY <1>2, <1>3, <1>4 DEF Certificates

\* Whatever one request hands over, the other does in the same place.
Included(r1, r2) ==
  /\ r1.additional = r2.additional
  /\ r1.body.withdrawals = r2.body.withdrawals
  /\ r1.body.requiredSigners = r2.body.requiredSigners
  /\ \A c \in Elements(r1.body.certificates) : \E d \in Elements(r2.body.certificates) :
       c.type = d.type /\ KeysHandedOver(c) = KeysHandedOver(d)

\* What is handed over in the same way is asked for at the same paths.
LEMMA HandoverIncluded ==
  ASSUME NEW r1, NEW r2, Included(r1, r2)
  PROVE  MustSign(r1) \subseteq MustSign(r2) /\ MaySign(r1) \subseteq MaySign(r2)
<1>1. MustSign(r1) \subseteq MustSign(r2)
  BY DEF Included, MustSign
<1>2. UNION {PathsIn(KeysHandedOver(c)) : c \in Elements(r1.body.certificates)}
        \subseteq UNION {PathsIn(KeysHandedOver(c)) : c \in Elements(r2.body.certificates)}
  BY DEF Included
<1> QED BY <1>1, <1>2 DEF MaySign

\* A request made for a Trezor can be made for a Ledger, and asks for the same paths.
LEMMA SameRequests ==
  ASSUME NEW network, NEW body \in Bodies, NEW files, NEW change, NEW mode \in Modes,
         mode = DetermineSigningMode(body, files),
         ValidateWitnessing(network, body, files, mode),
         RequestOk("trezor", body, files, change, mode)
  PROVE  LET l == Request("ledger", body, files, change, mode)
             t == Request("trezor", body, files, change, mode)
         IN /\ RequestOk("ledger", body, files, change, mode)
            /\ WellFormed(l)
            /\ MustSign(l) = MustSign(t)
            /\ MaySign(l) = MaySign(t)
<1> DEFINE l == Request("ledger", body, files, change, mode)
           t == Request("trezor", body, files, change, mode)
           L(i) == Certificate("ledger", body.certificates[i], files, mode)
           T(i) == Certificate("trezor", body.certificates[i], files, mode)
<1>1. CertificateFiles("ledger", files) = CertificateFiles("trezor", files)
  BY SameCertificateFiles
<1>2. \A i \in DOMAIN body.certificates : body.certificates[i] \in Certificates
  <2>1. body.certificates \in Seq(Certificates)
    BY DEF Bodies
  <2> QED BY <2>1, ElementOfSeq
<1>3. mode # "OPERATOR"
  BY DEF RequestOk
<1>4. \A i \in DOMAIN body.certificates :
        body.certificates[i].type = "POOL_REGISTRATION" => mode = "OWNER"
  BY <1>3 DEF DetermineSigningMode, PoolRegistrations
<1>5. \A i \in DOMAIN body.certificates :
        CertificateOk("trezor", body.certificates[i], files, mode)
  BY DEF RequestOk
<1>6. \A i \in DOMAIN body.certificates :
        /\ CertificateOk("ledger", body.certificates[i], files, mode)
        /\ L(i).type = T(i).type
        /\ KeysHandedOver(L(i)) = KeysHandedOver(T(i))
        /\ Undefined \notin KeysHandedOver(L(i))
  BY <1>1, <1>2, <1>4, <1>5, SameCertificate
<1> HIDE DEF L, T
<1>7. RequestOk("ledger", body, files, change, mode)
  BY <1>6 DEF RequestOk, DestinationOk
<1>8. /\ l.additional = t.additional
      /\ l.body.withdrawals = t.body.withdrawals
      /\ l.body.requiredSigners = t.body.requiredSigners
      /\ l.body.certificates = [i \in DOMAIN body.certificates |-> L(i)]
      /\ t.body.certificates = [i \in DOMAIN body.certificates |-> T(i)]
  BY DEF Request, Bodies, L, T
<1> HIDE DEF l, t
<1>9. WellFormed(l)
  BY <1>6, <1>8 DEF WellFormed, Elements
<1>10. Included(l, t) /\ Included(t, l)
  <2>1. \A c \in Elements(l.body.certificates) : \E d \in Elements(t.body.certificates) :
          c.type = d.type /\ KeysHandedOver(c) = KeysHandedOver(d)
    BY <1>6, <1>8 DEF Elements
  <2>2. \A c \in Elements(t.body.certificates) : \E d \in Elements(l.body.certificates) :
          c.type = d.type /\ KeysHandedOver(c) = KeysHandedOver(d)
    BY <1>6, <1>8 DEF Elements
  <2> QED BY <1>8, <2>1, <2>2 DEF Included
<1>11. MustSign(l) = MustSign(t) /\ MaySign(l) = MaySign(t)
  <2>1. MustSign(l) \subseteq MustSign(t) /\ MaySign(l) \subseteq MaySign(t)
    BY <1>10, HandoverIncluded
  <2>2. MustSign(t) \subseteq MustSign(l) /\ MaySign(t) \subseteq MaySign(l)
    BY <1>10, HandoverIncluded
  <2> QED BY <2>1, <2>2
<1> QED BY <1>7, <1>9, <1>11 DEF l, t

-----------------------------------------------------------------------------
(* Files of the connected wallet *)

OwnKeys(seed, files) == \A k \in Elements(files) : k[1] = seed

\* The device derives its own keys from their paths, and takes the others as they are.
LEMMA HandedOver ==
  ASSUME NEW seed, NEW key, NEW cond \in BOOLEAN, cond => key = <<seed, PathOf(key)>>
  PROVE  Derive(seed, PathIf(cond, key)) = key
<1>1. CASE cond
  <2>1. Derive(seed, ByPath(key)) = <<seed, PathOf(key)>>
    BY DEF Derive, ByPath
  <2> QED BY <1>1, <2>1 DEF PathIf
<1>2. CASE ~cond
  <2>1. Derive(seed, ByHash(key)) = key
    BY DEF Derive, ByHash
  <2> QED BY <1>2, <2>1 DEF PathIf
<1> QED BY <1>1, <1>2

\* A signing file of the connected wallet is the key the device derives at its path.
LEMMA OwnKey ==
  ASSUME NEW seed, NEW files \in Seq(Keys), OwnKeys(seed, files), NEW types,
         NEW k \in OfType(files, types)
  PROVE  k = <<seed, PathOf(k)>>
<1>1. k \in Elements(files) /\ k = <<k[1], PathOf(k)>>
  BY OfTypeFacts
<1> QED BY <1>1 DEF OwnKeys

\* An output to oneself is rebuilt to the address in the body.
LEMMA OwnDestination ==
  ASSUME NEW seed, NEW change \in Seq(Keys), OwnKeys(seed, change), NEW mode,
         NEW a \in Addresses, NEW device, DestinationOk(device, a, change, mode)
  PROVE  DeriveAddress(seed, Destination(a, change, mode)) = a
<1> DEFINE own == IsChange(a, change, mode)
           P == PathIf(own, a.payment)
           S == PathIf(own /\ a.stake # NoKey, a.stake)
<1>1. a = [kind |-> a.kind, payment |-> a.payment, stake |-> a.stake]
  BY DEF Addresses
<1>2. own \in BOOLEAN
  BY DEF IsChange, AreAddressParamsAllowed
<1>3. own => a.payment \in OfType(change, {"Payment"})
               /\ (a.stake # NoKey => a.stake \in OfType(change, {"Stake"}))
  <2> SUFFICES ASSUME own
               PROVE  a.payment \in OfType(change, {"Payment"})
                        /\ (a.stake # NoKey => a.stake \in OfType(change, {"Stake"}))
    OBVIOUS
  <2>1. AddressParameters(change, a) # {} /\ a.payment # NoKey
    BY DEF IsChange, DestinationOk
  <2>2. CASE a.kind = "BASE_KEY_KEY"
    BY <2>1, <2>2 DEF AddressParameters
  <2>3. CASE a.kind \in {"BYRON", "ENTERPRISE_KEY"}
    BY <2>1, <2>3 DEF AddressParameters, Addresses
  <2>4. CASE a.kind = "REWARD_KEY"
    BY <2>1, <2>4 DEF Addresses
  <2>5. CASE a.kind \in {"OTHER", "INVALID"}
    BY <2>1, <2>5 DEF AddressParameters
  <2> QED BY <2>2, <2>3, <2>4, <2>5 DEF Addresses
<1>4. own => a.payment = <<seed, PathOf(a.payment)>>
  BY <1>3, OwnKey
<1>5. own /\ a.stake # NoKey => a.stake = <<seed, PathOf(a.stake)>>
  BY <1>3, OwnKey
<1>6. Derive(seed, P) = a.payment
  BY <1>2, <1>4, HandedOver
<1>7. Derive(seed, S) = a.stake
  <2> DEFINE cond == own /\ a.stake # NoKey
  <2>1. cond \in BOOLEAN
    BY <1>2
  <2>2. cond => a.stake = <<seed, PathOf(a.stake)>>
    BY <1>5
  <2> HIDE DEF cond
  <2>3. Derive(seed, PathIf(cond, a.stake)) = a.stake
    BY <2>1, <2>2, HandedOver
  <2> QED BY <2>3 DEF cond
<1>8. Destination(a, change, mode) = [kind |-> a.kind, payment |-> P, stake |-> S]
  BY DEF Destination
<1> HIDE DEF P, S
<1>9. DeriveAddress(seed, Destination(a, change, mode)) =
        [kind |-> a.kind, payment |-> Derive(seed, P), stake |-> Derive(seed, S)]
  BY <1>8 DEF DeriveAddress
<1> QED BY <1>1, <1>6, <1>7, <1>9

\* So is a withdrawal or the credential of a certificate.
LEMMA OwnCredential ==
  ASSUME NEW seed, NEW files \in Seq(Keys), OwnKeys(seed, files), NEW types, NEW c
  PROVE  Derive(seed, StakeCredential(c, OfType(files, types))) = c
<1> DEFINE cond == c \in OfType(files, types)
<1>1. cond \in BOOLEAN
  OBVIOUS
<1>2. cond => c = <<seed, PathOf(c)>>
  BY OwnKey
<1> HIDE DEF cond
<1>3. Derive(seed, PathIf(cond, c)) = c
  BY <1>1, <1>2, HandedOver
<1> QED BY <1>3 DEF StakeCredential, cond

AllDerived(seed, keys) == \A k \in keys : k = <<seed, PathOf(k)>>

\* So is the cold key of a pool registration, unless its path is undefined.
LEMMA OwnPoolKey ==
  ASSUME NEW seed, NEW given, AllDerived(seed, given), NEW device, NEW mode, NEW operator,
         PoolKey(device, operator, given, mode) # Undefined
  PROVE  Derive(seed, PoolKey(device, operator, given, mode)) = operator
<1>1. CASE device = "trezor" \/ mode = "OWNER"
  BY <1>1 DEF PoolKey, ByHash, Derive
<1>2. CASE ~(device = "trezor" \/ mode = "OWNER")
  <2>1. operator \in given /\ PoolKey(device, operator, given, mode) = ByPath(operator)
    BY <1>2 DEF PoolKey
  <2>2. operator = <<seed, PathOf(operator)>>
    BY <2>1 DEF AllDerived
  <2> QED BY <2>1, <2>2 DEF ByPath, Derive
<1> QED BY <1>1, <1>2

\* So are its owners.
LEMMA OwnOwners ==
  ASSUME NEW seed, NEW given, AllDerived(seed, given), NEW device, NEW mode, NEW owners,
         NEW i \in DOMAIN owners
  PROVE  Derive(seed, PoolOwners(device, owners, given, mode)[i]) = owners[i]
<1> DEFINE cond == i \in OwnersByPath(device, owners, given, mode)
           o == owners[i]
<1>1. cond \in BOOLEAN
  OBVIOUS
<1>2. cond => o \in given
  BY DEF OwnersByPath
<1>3. cond => o = <<seed, PathOf(o)>>
  BY <1>2 DEF AllDerived
<1>4. PoolOwners(device, owners, given, mode)[i] = PathIf(cond, o)
  BY DEF PoolOwners
<1> HIDE DEF cond, o
<1>5. Derive(seed, PathIf(cond, o)) = o
  BY <1>1, <1>3, HandedOver
<1> QED BY <1>4, <1>5 DEF o

\* So is its reward account.
LEMMA OwnRewardAccount ==
  ASSUME NEW seed, NEW stake, AllDerived(seed, stake), NEW device, NEW account
  PROVE  Derive(seed, RewardAccount(device, account, stake)) = account
<1> DEFINE cond == device = "ledger" /\ account \in stake
<1>1. cond \in BOOLEAN
  OBVIOUS
<1>2. cond => account = <<seed, PathOf(account)>>
  BY DEF AllDerived
<1> HIDE DEF cond
<1>3. Derive(seed, PathIf(cond, account)) = account
  BY <1>1, <1>2, HandedOver
<1> QED BY <1>3 DEF RewardAccount, cond

\* So is a whole certificate.
LEMMA OwnCertificate ==
  ASSUME NEW seed, NEW files \in Seq(Keys), OwnKeys(seed, files), NEW device \in Providers,
         NEW mode, NEW cert \in Certificates,
         CertificateOk(device, cert, files, mode),
         cert.type = "POOL_REGISTRATION" => 0 \notin cert.relayPorts,
         Undefined \notin KeysHandedOver(Certificate(device, cert, files, mode))
  PROVE  DeriveCertificate(seed, Certificate(device, cert, files, mode)) = cert
<1> DEFINE given == CertificateFiles(device, files)
           types == IF device = "ledger" THEN {"Stake", "PoolCold"} ELSE {"Stake"}
           c == Certificate(device, cert, files, mode)
<1>0. given = OfType(files, types)
  BY DEF CertificateFiles
<1> HIDE DEF types
<1>1. CASE cert.type \in StakeCertTypes
  <2>1. cert \in [type: StakeCertTypes, credential: Credentials]
    BY <1>1 DEF Certificates, StakeCertTypes
  <2>2. c = [cert EXCEPT !.credential = StakeCredential(cert.credential, given)]
    BY <1>1 DEF Certificate, StakeCertTypes
  <2>3. c.type = cert.type /\ c.credential = StakeCredential(cert.credential, given)
          /\ DOMAIN c = {"type", "credential"}
    BY <2>1, <2>2
  <2>4. DeriveCertificate(seed, c) = [c EXCEPT !.credential = Derive(seed, c.credential)]
    BY <1>1, <2>3 DEF DeriveCertificate, StakeCertTypes
  <2>5. Derive(seed, c.credential) = cert.credential
    BY <1>0, <2>3, OwnCredential
  <2> HIDE DEF c, given
  <2>6. DeriveCertificate(seed, c) = [cert EXCEPT !.credential = cert.credential]
    BY <2>1, <2>2, <2>4, <2>5
  <2>7. DeriveCertificate(seed, c) = cert
    BY <2>1, <2>6
  <2> QED BY <2>7 DEF c
<1>2. CASE cert.type = "POOL_REGISTRATION"
  <2>1. cert \in [type: {"POOL_REGISTRATION"}, operator: Keys, owners: Seq(Keys),
                  rewardAccount: Credentials, relayPorts: SUBSET Nat]
    BY <1>2 DEF Certificates, StakeCertTypes
  <2> DEFINE op == PoolKey(device, cert.operator, given, mode)
             ow == PoolOwners(device, cert.owners, given, mode)
             ra == RewardAccount(device, cert.rewardAccount, OfType(files, {"Stake"}))
  <2>2. c = [cert EXCEPT !.operator = op, !.owners = ow, !.rewardAccount = ra,
                         !.relayPorts = cert.relayPorts]
    <3>1. RelayPorts(cert.relayPorts) = cert.relayPorts
      BY <1>2 DEF RelayPorts
    <3> QED BY <1>2, <3>1 DEF Certificate, StakeCertTypes
  <2>3. /\ c.type = "POOL_REGISTRATION" /\ c.operator = op /\ c.owners = ow
        /\ c.rewardAccount = ra
        /\ DOMAIN c = {"type", "operator", "owners", "rewardAccount", "relayPorts"}
    BY <2>1, <2>2
  <2>4. op # Undefined
    BY <2>3 DEF KeysHandedOver, StakeCertTypes
  <2>5. /\ Derive(seed, op) = cert.operator
        /\ \A i \in DOMAIN cert.owners : Derive(seed, ow[i]) = cert.owners[i]
        /\ Derive(seed, ra) = cert.rewardAccount
    <3>1. AllDerived(seed, given)
      BY <1>0, OwnKey DEF AllDerived
    <3>2. AllDerived(seed, OfType(files, {"Stake"}))
      BY OwnKey DEF AllDerived
    <3> HIDE DEF given
    <3>3. Derive(seed, op) = cert.operator
      BY <2>4, <3>1, OwnPoolKey
    <3>4. \A i \in DOMAIN cert.owners : Derive(seed, ow[i]) = cert.owners[i]
      BY <3>1, OwnOwners
    <3>5. Derive(seed, ra) = cert.rewardAccount
      BY <3>2, OwnRewardAccount
    <3> QED BY <3>3, <3>4, <3>5
  <2>6. DOMAIN ow = DOMAIN cert.owners
    BY DEF PoolOwners
  <2>7. DeriveCertificate(seed, c) =
          [c EXCEPT !.operator = Derive(seed, op),
                    !.owners = [i \in DOMAIN ow |-> Derive(seed, ow[i])],
                    !.rewardAccount = Derive(seed, ra)]
    BY <2>3 DEF DeriveCertificate, StakeCertTypes
  <2> HIDE DEF c, op, ow, ra
  <2>8. [i \in DOMAIN ow |-> Derive(seed, ow[i])] = cert.owners
    <3>1. cert.owners = [i \in DOMAIN cert.owners |-> cert.owners[i]]
      BY <2>1
    <3> QED BY <2>5, <2>6, <3>1
  <2>9. DeriveCertificate(seed, c) =
          [c EXCEPT !.operator = cert.operator, !.owners = cert.owners,
                    !.rewardAccount = cert.rewardAccount]
    BY <2>5, <2>7, <2>8
  <2>10. DeriveCertificate(seed, c) = cert
    BY <2>1, <2>2, <2>9
  <2> QED BY <2>10 DEF c
<1>3. CASE cert.type = "POOL_RETIREMENT"
  <2>1. cert \in [type: {"POOL_RETIREMENT"}, operator: Keys]
    BY <1>3 DEF Certificates, StakeCertTypes
  <2>2. c = [cert EXCEPT !.operator = ByPath(cert.operator)]
    BY <1>3 DEF Certificate, StakeCertTypes
  <2>3. c.type = cert.type /\ c.operator = ByPath(cert.operator) /\ DOMAIN c = {"type", "operator"}
    BY <2>1, <2>2
  <2>4. DeriveCertificate(seed, c) = [c EXCEPT !.operator = Derive(seed, c.operator)]
    BY <1>3, <2>3 DEF DeriveCertificate, StakeCertTypes
  <2>5. cert.operator \in OfType(files, types)
    BY <1>0, <1>3 DEF CertificateOk, StakeCertTypes
  <2>6. cert.operator = <<seed, PathOf(cert.operator)>>
    BY <2>5, OwnKey
  <2>7. Derive(seed, c.operator) = cert.operator
    BY <2>3, <2>6 DEF Derive, ByPath
  <2> HIDE DEF c
  <2>8. DeriveCertificate(seed, c) = cert
    BY <2>1, <2>2, <2>4, <2>7
  <2> QED BY <2>8 DEF c
<1>4. cert.type # "OTHER"
  BY DEF CertificateOk, StakeCertTypes
<1> QED BY <1>1, <1>2, <1>3, <1>4 DEF Certificates

\* With files of the connected wallet, an accepted request is rebuilt to the body.
LEMMA OwnFilesRebuild ==
  ASSUME NEW device \in Providers, NEW body \in Bodies, NEW files \in Seq(Keys),
         NEW change \in Seq(Keys), NEW mode, NEW seed,
         OwnKeys(seed, files), OwnKeys(seed, change),
         RequestOk(device, body, files, change, mode),
         \A i \in PoolRegistrations(body) : 0 \notin body.certificates[i].relayPorts,
         WellFormed(Request(device, body, files, change, mode))
  PROVE  BodySigned(seed, Request(device, body, files, change, mode)) = body
<1> DEFINE r == Request(device, body, files, change, mode)
           Ins == [i \in DOMAIN body.inputs |-> Double(body.inputs[i])]
           Outs == [i \in DOMAIN body.outputs |-> Destination(body.outputs[i], change, mode)]
           Certs == [i \in DOMAIN body.certificates |->
                       Certificate(device, body.certificates[i], files, mode)]
           Wdrls == [i \in DOMAIN body.withdrawals |->
                       StakeCredential(body.withdrawals[i], OfType(files, {"Stake"}))]
           Signers == {RequiredSigner(k, files) : k \in body.requiredSigners}
<1>1. /\ body.inputs \in Seq(Nat) /\ body.outputs \in Seq(Addresses)
      /\ body.certificates \in Seq(Certificates) /\ body.withdrawals \in Seq(Credentials)
      /\ body.requiredSigners \subseteq Keys
      /\ body = [x \in {"outputs", "certificates", "withdrawals", "requiredSigners", "mint",
                    "collateralInputs", "networkId", "inputs"} |-> body[x]]
  BY DEF Bodies
<1>2. r.body = [body EXCEPT !.inputs = Ins, !.outputs = Outs, !.certificates = Certs,
                            !.withdrawals = Wdrls, !.requiredSigners = Signers]
  BY DEF Request
<1>3. /\ r.body.inputs = Ins /\ r.body.outputs = Outs /\ r.body.certificates = Certs
      /\ r.body.withdrawals = Wdrls /\ r.body.requiredSigners = Signers
      /\ DOMAIN r.body = DOMAIN body
  BY <1>1, <1>2
<1>4. Ins = body.inputs
  <2>1. \A i \in DOMAIN body.inputs : body.inputs[i] <= MaxSafe
    BY DEF RequestOk
  <2>2. \A i \in DOMAIN body.inputs : Double(body.inputs[i]) = body.inputs[i]
    BY <2>1 DEF Double
  <2>3. body.inputs = [i \in DOMAIN body.inputs |-> body.inputs[i]]
    BY <1>1
  <2> QED BY <2>2, <2>3
<1>5. [i \in DOMAIN Outs |-> DeriveAddress(seed, Outs[i])] = body.outputs
  <2>1. \A i \in DOMAIN body.outputs :
          body.outputs[i] \in Addresses /\ DestinationOk(device, body.outputs[i], change, mode)
    BY <1>1, ElementOfSeq DEF RequestOk
  <2>2. \A i \in DOMAIN body.outputs :
          DeriveAddress(seed, Destination(body.outputs[i], change, mode)) = body.outputs[i]
    BY <2>1, OwnDestination
  <2>3. body.outputs = [i \in DOMAIN body.outputs |-> body.outputs[i]]
    BY <1>1
  <2> QED BY <2>2, <2>3
<1>6. [i \in DOMAIN Certs |-> DeriveCertificate(seed, Certs[i])] = body.certificates
  <2>1. \A i \in DOMAIN body.certificates :
          /\ body.certificates[i] \in Certificates
          /\ CertificateOk(device, body.certificates[i], files, mode)
          /\ body.certificates[i].type = "POOL_REGISTRATION"
               => 0 \notin body.certificates[i].relayPorts
    BY <1>1, ElementOfSeq DEF RequestOk, PoolRegistrations
  <2>2. \A i \in DOMAIN body.certificates : Undefined \notin KeysHandedOver(Certs[i])
    <3> HIDE DEF r, Certs
    <3>1. DOMAIN Certs = DOMAIN body.certificates
      BY DEF Certs
    <3>2. \A i \in DOMAIN Certs : Certs[i] \in Elements(r.body.certificates)
      BY <1>3 DEF Elements
    <3> QED BY <3>1, <3>2 DEF WellFormed, r
  <2>3. \A i \in DOMAIN body.certificates :
          DeriveCertificate(seed, Certs[i]) = body.certificates[i]
    BY <2>1, <2>2, OwnCertificate
  <2>4. body.certificates = [i \in DOMAIN body.certificates |-> body.certificates[i]]
    BY <1>1
  <2> QED BY <2>3, <2>4
<1>7. [i \in DOMAIN Wdrls |-> Derive(seed, Wdrls[i])] = body.withdrawals
  <2>1. \A i \in DOMAIN body.withdrawals : Derive(seed, Wdrls[i]) = body.withdrawals[i]
    BY OwnCredential
  <2>2. body.withdrawals = [i \in DOMAIN body.withdrawals |-> body.withdrawals[i]]
    BY <1>1
  <2> QED BY <2>1, <2>2
<1>8. {Derive(seed, x) : x \in Signers} = body.requiredSigners
  <2>1. ASSUME NEW k \in body.requiredSigners
        PROVE  Derive(seed, RequiredSigner(k, files)) = k
    <3>1. RequiredSigner(k, files) =
            StakeCredential(k, OfType(files, {"Payment", "Stake", "Mint", "MultiSig"}))
      BY DEF RequiredSigner, StakeCredential
    <3> QED BY <3>1, OwnCredential
  <2> QED BY <2>1
<1> HIDE DEF r, Ins, Outs, Certs, Wdrls, Signers
<1>9. BodySigned(seed, r) =
        [r.body EXCEPT !.outputs = body.outputs, !.certificates = body.certificates,
                       !.withdrawals = body.withdrawals,
                       !.requiredSigners = body.requiredSigners]
  <2> DEFINE DOuts == [i \in DOMAIN r.body.outputs |-> DeriveAddress(seed, r.body.outputs[i])]
             DCerts == [i \in DOMAIN r.body.certificates |->
                          DeriveCertificate(seed, r.body.certificates[i])]
             DWdrls == [i \in DOMAIN r.body.withdrawals |-> Derive(seed, r.body.withdrawals[i])]
             DSigners == {Derive(seed, x) : x \in r.body.requiredSigners}
  <2>1. BodySigned(seed, r) =
          [r.body EXCEPT !.outputs = DOuts, !.certificates = DCerts, !.withdrawals = DWdrls,
                         !.requiredSigners = DSigners]
    BY DEF BodySigned
  <2>2. DOuts = body.outputs
    BY <1>3, <1>5
  <2>3. DCerts = body.certificates
    BY <1>3, <1>6
  <2>4. DWdrls = body.withdrawals
    BY <1>3, <1>7
  <2>5. DSigners = body.requiredSigners
    BY <1>3, <1>8
  <2> HIDE DEF DOuts, DCerts, DWdrls, DSigners
  <2> QED BY <2>1, <2>2, <2>3, <2>4, <2>5
<1>10. BodySigned(seed, r) = body
  <2> DEFINE fields == {"outputs", "certificates", "withdrawals", "requiredSigners", "mint",
                        "collateralInputs", "networkId", "inputs"}
             b == BodySigned(seed, r)
  <2>1. DOMAIN body = fields
    BY <1>1
  <2>2. /\ b = [x \in fields |-> b[x]]
        /\ b.inputs = r.body.inputs /\ b.outputs = body.outputs
        /\ b.certificates = body.certificates /\ b.withdrawals = body.withdrawals
        /\ b.requiredSigners = body.requiredSigners /\ b.mint = r.body.mint
        /\ b.collateralInputs = r.body.collateralInputs /\ b.networkId = r.body.networkId
    BY <1>3, <1>9, <2>1
  <2>3. /\ r.body.mint = body.mint /\ r.body.collateralInputs = body.collateralInputs
        /\ r.body.networkId = body.networkId /\ r.body.inputs = body.inputs
    BY <1>2, <1>3, <1>4, <2>1
  <2> HIDE DEF b
  <2>4. \A x \in fields : b[x] = body[x]
    BY <2>2, <2>3
  <2>5. b = [x \in fields |-> body[x]]
    BY <2>2, <2>4
  <2>6. b = body
    BY <1>1, <2>5
  <2> QED BY <2>6 DEF b
<1> QED BY <1>10 DEF r

-----------------------------------------------------------------------------
(* The run *)

BeforeSigning == {"start", "connect", "check", "prepare", "device"}
AfterSigning == {"collect", "match", "write", "done"}

\* What is known of the command line, the provider and the progress at each point.
Phases ==
  /\ pc # "start" => job \in Jobs
  /\ pc \notin {"start", "connect", "failed", "dead"} => provider \in Providers
  /\ pc \in {"prepare", "device"} => Accepted
  /\ pc = "device" => RequestOk(provider, Body, job.files, job.change, Mode)
  /\ pc \in BeforeSigning \cup {"collect"} => outputs = << >> /\ idx = 1
  /\ pc \in BeforeSigning => witnesses = {}
  /\ pc \in {"match", "write", "done"} => AllFound

\* The device has signed the transaction of the tx file, with mandatory witnesses.
Approved ==
  /\ job \in Jobs
  /\ provider \in Providers
  /\ Accepted
  /\ RequestOk(provider, Body, job.files, job.change, Mode)
  /\ WellFormed(TheRequest)
  /\ BodySigned(DeviceSeed, TheRequest) = Body
  /\ witnesses \subseteq MaySign(TheRequest)
  /\ MustSign(TheRequest) \subseteq witnesses

Signed == pc \in AfterSigning \/ witnesses # {} => Approved

OutputsSigned ==
  \A n \in DOMAIN outputs :
    outputs[n].path \in witnesses /\ outputs[n] = Witness(outputs[n].path)

FilesFromOutputs ==
  \A f \in Files : fs[f] \in {Untouched, Torn} \cup Elements(outputs)

MayHaveWritten == {"write", "writeFailed", "done", "dead"}

Unwritten == pc \notin MayHaveWritten => \A f \in Files : fs[f] = Untouched

IInv ==
  TypeOK /\ Phases /\ Signed /\ OutputsSigned /\ FilesFromOutputs /\ Unwritten

-----------------------------------------------------------------------------
(* The call *)

\* The parts of a command line.
LEMMA JobType ==
  ASSUME NEW j \in Jobs
  PROVE  /\ j \in CommandLines
         /\ j.body \in Bodies
         /\ j.files \in Seq(Keys)
         /\ j.change \in Seq(Keys)
         /\ j.outFiles \in Seq(Files)
         /\ j # NoJob
BY TxWitnessConstants DEF CommandLines, NoJob

\* What a run derives from its command line and its provider stays as they do.
LEMMA SameCall ==
  ASSUME job' = job, provider' = provider
  PROVE  /\ Body' = Body
         /\ Mode' = Mode
         /\ Accepted' = Accepted
         /\ TheRequest' = TheRequest
         /\ \A p : Witness(p)' = Witness(p)
         /\ witnesses' = witnesses => Approved' = Approved /\ AllFound' = AllFound
BY DEF Body, Mode, Accepted, TheRequest, Witness, Approved, AllFound

\* What a witness says.
LEMMA WitnessFields ==
  ASSUME NEW p
  PROVE  /\ Witness(p).path = p
         /\ Witness(p).public = PublicKey(provider, DeviceSeed, p, job.files)
         /\ Witness(p).signer = <<DeviceSeed, p>>
         /\ Witness(p).body = BodySigned(DeviceSeed, TheRequest)
         /\ Witness(p) \notin {Untouched, Torn}
BY DEF Witness, Untouched, Torn

\* A witness with a signing file names that file's key.
LEMMA WitnessType ==
  ASSUME Approved, AllFound, NEW p \in witnesses, witnesses \subseteq Paths
  PROVE  Witness(p) \in Witnesses
<1>1. job.body \in Bodies /\ job.files \in Seq(Keys) /\ provider \in Providers
  BY JobType DEF Approved
<1>2. FileFound(provider, DeviceSeed, p, job.files)
  BY DEF AllFound
<1>3. <<DeviceSeed, p>> \in Keys
  BY TxWitnessConstants DEF Keys
<1>4. PublicKey(provider, DeviceSeed, p, job.files) \in Keys
  <2>1. CASE provider = "ledger"
    <3>1. PICK k \in Elements(job.files) : PathOf(k) = p
      BY <1>2, <2>1 DEF FileFound
    <3>2. FirstAt(p, job.files) \in Elements(job.files)
      BY <1>1, <3>1, FirstAtFacts
    <3>3. FirstAt(p, job.files) \in Keys
      BY <1>1, <3>2, ElementOfSeq DEF Elements
    <3> QED BY <2>1, <3>3 DEF PublicKey
  <2>2. CASE provider # "ledger"
    BY <1>3, <2>2 DEF PublicKey
  <2> QED BY <2>1, <2>2
<1>5. BodySigned(DeviceSeed, TheRequest) \in Bodies
  BY <1>1 DEF Approved, Body
<1> QED BY <1>3, <1>4, <1>5 DEF Witness, Witnesses

-----------------------------------------------------------------------------
(* The inductive invariant *)

\* Nothing is signed or written at first.
LEMMA InitIInv == Init => IInv
<1> SUFFICES ASSUME Init PROVE IInv
  OBVIOUS
<1> USE DEF Init
<1>1. TypeOK
  <2>1. outputs \in Seq(Witnesses)
    BY EmptySeq
  <2>2. fs \in [Files -> Witnesses \cup {Untouched, Torn}]
    OBVIOUS
  <2>3. job \in CommandLines \cup {NoJob} /\ provider \in Providers \cup {NoProvider}
    OBVIOUS
  <2>4. pc = "start" /\ witnesses \subseteq Paths /\ idx \in Nat \ {0} /\ open = FALSE
    OBVIOUS
  <2> HIDE DEF Init
  <2> QED BY <2>1, <2>2, <2>3, <2>4 DEF TypeOK
<1>2. Phases
  BY DEF Phases, BeforeSigning
<1>3. Signed /\ OutputsSigned /\ FilesFromOutputs /\ Unwritten
  BY DEF Signed, AfterSigning, OutputsSigned, FilesFromOutputs, Unwritten, MayHaveWritten
<1> QED BY <1>1, <1>2, <1>3 DEF IInv

\* The steps that only move on, or give up.
LEMMA QuietStep ==
  ASSUME IInv, UNCHANGED <<job, provider, witnesses, outputs, fs>>,
         TypeOK', Phases',
         pc' \in AfterSigning => pc \in AfterSigning,
         pc' \notin MayHaveWritten => pc \notin MayHaveWritten
  PROVE  IInv'
<1>1. Approved' = Approved /\ \A p : Witness(p)' = Witness(p)
  BY SameCall
<1>2. Signed'
  BY <1>1 DEF IInv, Signed
<1>3. OutputsSigned'
  BY <1>1 DEF IInv, OutputsSigned
<1>4. FilesFromOutputs' /\ Unwritten'
  BY DEF IInv, FilesFromOutputs, Unwritten, MayHaveWritten
<1> QED BY <1>2, <1>3, <1>4 DEF IInv

\* Parsing the command line touches no out file.
LEMMA ParseIInv == IInv /\ Parse => IInv'
<1> SUFFICES ASSUME IInv, Parse PROVE IInv'
  OBVIOUS
<1>1. TypeOK'
  BY JobType DEF IInv, Parse, TypeOK
<1>2. Phases'
  BY DEF IInv, Parse, Phases, BeforeSigning
<1>3. witnesses' = {} /\ outputs' = << >> /\ fs' = fs /\ pc' = "connect" /\ pc = "start"
  BY DEF IInv, Parse, Phases, BeforeSigning
<1>4. Signed' /\ OutputsSigned'
  BY <1>3 DEF Signed, OutputsSigned, AfterSigning
<1>5. FilesFromOutputs' /\ Unwritten'
  BY <1>3 DEF IInv, FilesFromOutputs, Unwritten, MayHaveWritten
<1> QED BY <1>1, <1>2, <1>4, <1>5 DEF IInv

\* Nor does finding a device.
LEMMA ConnectIInv == IInv /\ Connect => IInv'
<1> SUFFICES ASSUME IInv, Connect PROVE IInv'
  OBVIOUS
<1>1. TypeOK'
  BY DEF IInv, Connect, TypeOK, Providers, NoProvider
<1>2. Phases'
  BY DEF IInv, Connect, Phases, BeforeSigning
<1>3. witnesses' = {} /\ outputs' = << >> /\ fs' = fs /\ pc' = "check" /\ pc = "connect"
  BY DEF IInv, Connect, Phases, BeforeSigning
<1>4. Signed' /\ OutputsSigned'
  BY <1>3 DEF Signed, OutputsSigned, AfterSigning
<1>5. FilesFromOutputs' /\ Unwritten'
  BY <1>3 DEF IInv, FilesFromOutputs, Unwritten, MayHaveWritten
<1> QED BY <1>1, <1>2, <1>4, <1>5 DEF IInv

\* Checks and failures change neither witnesses nor files.
LEMMA QuietIInv ==
  IInv /\ (\/ NoDevice \/ Check \/ Prepare \/ Refuse \/ HashMismatch \/ CreateWitnesses
           \/ Matched \/ WriteFails \/ Finish \/ Die \/ UNCHANGED vars) => IInv'
<1> SUFFICES ASSUME IInv,
                    \/ NoDevice \/ Check \/ Prepare \/ Refuse \/ HashMismatch
                    \/ CreateWitnesses \/ Matched \/ WriteFails \/ Finish \/ Die
                    \/ UNCHANGED vars
             PROVE  IInv'
  OBVIOUS
<1> USE DEF NoDevice, Check, Prepare, Refuse, HashMismatch, CreateWitnesses, Matched,
            WriteFails, Finish, Die, vars
<1>1. UNCHANGED <<job, provider, witnesses, outputs, fs>>
  OBVIOUS
<1>2. /\ pc' \in AfterSigning => pc \in AfterSigning
      /\ pc' \notin MayHaveWritten => pc \notin MayHaveWritten
  BY DEF AfterSigning, MayHaveWritten
<1>3. TypeOK'
  BY <1>1 DEF IInv, TypeOK
<1>4. /\ Accepted' = Accepted
      /\ AllFound' = AllFound
      /\ RequestOk(provider, Body, job.files, job.change, Mode)'
           = RequestOk(provider, Body, job.files, job.change, Mode)
  BY <1>1, SameCall
<1>5. Phases'
  BY <1>1, <1>4 DEF IInv, Phases, BeforeSigning
<1> QED BY <1>1, <1>2, <1>3, <1>5, QuietStep

\* A path in a well-formed request is a derivation path: some file has it.
LEMMA AskedInFiles ==
  ASSUME NEW j \in Jobs, NEW v \in Providers, NEW mode,
         RequestOk(v, j.body, j.files, j.change, mode),
         BodySigned(DeviceSeed, Request(v, j.body, j.files, j.change, mode)) = j.body,
         NEW p \in MaySign(Request(v, j.body, j.files, j.change, mode))
  PROVE  p \in Paths /\ \E k \in Elements(j.files) : PathOf(k) = p
<1>1. j.body \in Bodies /\ j.files \in Seq(Keys)
  BY JobType
<1>2. \/ \E k \in OfType(j.files, {"Payment", "Mint", "MultiSig"}) : PathOf(k) = p
      \/ <<DeviceSeed, p>> \in OfType(j.files, {"Payment", "Stake", "PoolCold", "Mint", "MultiSig"})
  BY <1>1, AskedKeys
<1>3. PICK k \in Elements(j.files) : PathOf(k) = p
  BY <1>2 DEF PathOf, OfType
<1>4. k \in Keys
  BY <1>1, <1>3, ElementOfSeq DEF Elements
<1>5. p \in Paths
  BY <1>3, <1>4 DEF Keys, PathOf
<1> QED BY <1>3, <1>5

\* The device signs what the comparison of hashes lets through.
LEMMA SignIInv == IInv /\ Sign => IInv'
<1> SUFFICES ASSUME IInv, Sign PROVE IInv'
  OBVIOUS
<1>1. /\ pc = "device" /\ pc' = "collect"
      /\ UNCHANGED <<job, provider, outputs, idx, open, fs>>
      /\ WellFormed(TheRequest) /\ BodySigned(DeviceSeed, TheRequest) = Body
      /\ witnesses' \subseteq MaySign(TheRequest) /\ MustSign(TheRequest) \subseteq witnesses'
  BY DEF Sign
<1>2. /\ job \in Jobs /\ provider \in Providers /\ Accepted
      /\ RequestOk(provider, Body, job.files, job.change, Mode)
      /\ outputs = << >> /\ idx = 1
  BY <1>1 DEF IInv, Phases, BeforeSigning
<1>3. Approved'
  BY <1>1, <1>2, SameCall DEF Approved
<1>4. witnesses' \subseteq Paths
  <2> SUFFICES ASSUME NEW p \in witnesses' PROVE p \in Paths
    OBVIOUS
  <2>1. p \in MaySign(Request(provider, job.body, job.files, job.change, Mode))
    BY <1>1 DEF TheRequest, Body
  <2> QED BY <1>1, <1>2, <2>1, AskedInFiles DEF TheRequest, Body
<1>5. TypeOK'
  BY <1>1, <1>4 DEF IInv, TypeOK
<1>6. Phases'
  BY <1>1, <1>2 DEF Phases, BeforeSigning
<1>7. Signed' /\ OutputsSigned'
  BY <1>1, <1>2, <1>3 DEF Signed, OutputsSigned
<1>8. FilesFromOutputs' /\ Unwritten'
  BY <1>1 DEF IInv, FilesFromOutputs, Unwritten, MayHaveWritten
<1> QED BY <1>5, <1>6, <1>7, <1>8 DEF IInv

\* The loop over the signing files: outputs are witnesses the device made.
LEMMA MatchIInv == IInv /\ Match => IInv'
<1> SUFFICES ASSUME IInv, Match PROVE IInv'
  OBVIOUS
<1> DEFINE path == PathOf(job.files[idx])
<1>1. /\ pc = "match" /\ idx \in DOMAIN job.files /\ idx' = idx + 1
      /\ UNCHANGED <<pc, job, provider, witnesses, open, fs>>
      /\ outputs' = IF path \in witnesses THEN Append(outputs, Witness(path)) ELSE outputs
  BY DEF Match
<1>2. Approved /\ AllFound
  BY <1>1 DEF IInv, Signed, Phases, AfterSigning
<1>3. outputs \in Seq(Witnesses) /\ witnesses \subseteq Paths /\ idx \in Nat \ {0}
  BY DEF IInv, TypeOK
<1>4. path \in witnesses => Witness(path) \in Witnesses
  BY <1>2, <1>3, WitnessType
<1> HIDE DEF path
<1>5. outputs' \in Seq(Witnesses)
  BY <1>1, <1>3, <1>4
<1>6. /\ Elements(outputs) \subseteq Elements(outputs')
      /\ \A n \in DOMAIN outputs' : \/ outputs'[n] = outputs[n] /\ n \in DOMAIN outputs
                                    \/ path \in witnesses /\ outputs'[n] = Witness(path)
  <2>1. CASE path \in witnesses
    <3> DEFINE w == Witness(path)
    <3>1. outputs' = Append(outputs, w) /\ w \in Witnesses
      BY <1>1, <1>4, <2>1
    <3> HIDE DEF w
    <3>2. /\ Len(outputs') = Len(outputs) + 1
          /\ \A n \in 1 .. Len(outputs) : outputs'[n] = outputs[n]
          /\ outputs'[Len(outputs) + 1] = w
      BY <1>3, <3>1, AppendProperties
    <3>3. /\ Len(outputs) \in Nat
          /\ DOMAIN outputs = 1 .. Len(outputs)
          /\ DOMAIN outputs' = 1 .. Len(outputs')
      BY <1>3, <1>5, LenProperties
    <3>4. \A n \in DOMAIN outputs' : (outputs'[n] = outputs[n] /\ n \in DOMAIN outputs)
                                       \/ outputs'[n] = w
      BY <3>2, <3>3
    <3>5. \A n \in DOMAIN outputs : n \in DOMAIN outputs' /\ outputs'[n] = outputs[n]
      BY <3>2, <3>3
    <3> QED BY <2>1, <3>4, <3>5 DEF Elements, w
  <2>2. CASE path \notin witnesses
    <3>1. outputs' = outputs
      BY <1>1, <2>2
    <3> QED BY <3>1
  <2> QED BY <2>1, <2>2
<1>7. TypeOK'
  <2>1. ~open
    BY <1>1 DEF IInv, TypeOK
  <2> QED BY <1>1, <1>3, <1>5, <2>1 DEF IInv, TypeOK
<1>8. Phases'
  BY <1>1, SameCall DEF IInv, Phases, BeforeSigning
<1>9. Signed'
  BY <1>1, <1>2, SameCall DEF Signed
<1>10. OutputsSigned'
  <2>1. \A p : Witness(p)' = Witness(p)
    BY <1>1, SameCall
  <2> SUFFICES ASSUME NEW n \in DOMAIN outputs'
               PROVE  outputs'[n].path \in witnesses /\ outputs'[n] = Witness(outputs'[n].path)
    BY <1>1, <2>1 DEF OutputsSigned
  <2>2. CASE outputs'[n] = outputs[n] /\ n \in DOMAIN outputs
    BY <2>2 DEF IInv, OutputsSigned
  <2>3. CASE path \in witnesses /\ outputs'[n] = Witness(path)
    BY <2>3, WitnessFields
  <2> QED BY <1>6, <2>2, <2>3
<1>11. FilesFromOutputs' /\ Unwritten'
  BY <1>1, <1>6 DEF IInv, FilesFromOutputs, Unwritten, MayHaveWritten
<1> QED BY <1>7, <1>8, <1>9, <1>10, <1>11 DEF IInv

\* Writing changes the out files only, to something torn or to an output.
LEMMA WriteIInv == IInv /\ (Truncate \/ Fill) => IInv'
<1> SUFFICES ASSUME IInv, Truncate \/ Fill PROVE IInv'
  OBVIOUS
<1>1. pc = "write" /\ pc' = "write" /\ UNCHANGED <<job, provider, witnesses, outputs>>
  BY DEF Truncate, Fill
<1>2. outputs \in Seq(Witnesses) /\ idx \in DOMAIN outputs /\ idx \in Nat \ {0}
  BY DEF IInv, TypeOK, Truncate, Fill
<1>3. outputs[idx] \in Witnesses
  BY <1>2, ElementOfSeq, LenProperties
<1>4. PICK c \in {Torn, outputs[idx]} : fs' = [fs EXCEPT ![job.outFiles[idx]] = c]
  BY DEF Truncate, Fill
<1>5. fs \in [Files -> Witnesses \cup {Untouched, Torn}]
  BY DEF IInv, TypeOK
<1>6. fs' \in [Files -> Witnesses \cup {Untouched, Torn}]
  BY <1>3, <1>4, <1>5
<1>7. TypeOK'
  <2>1. /\ open' \in BOOLEAN /\ idx' \in Nat \ {0}
        /\ open' => idx' \in DOMAIN outputs'
    <3>1. CASE Truncate
      BY <1>1, <1>2, <3>1 DEF Truncate
    <3>2. CASE Fill
      <4>1. open' = FALSE /\ idx' = idx + 1
        BY <3>2 DEF Fill
      <4>2. idx + 1 \in Nat \ {0}
        BY <1>2
      <4> QED BY <4>1, <4>2, Zenon
    <3> QED BY <3>1, <3>2
  <2> QED BY <1>1, <1>6, <2>1 DEF IInv, TypeOK
<1>8. Phases'
  BY <1>1, SameCall DEF IInv, Phases, BeforeSigning
<1>9. Signed' /\ OutputsSigned'
  BY <1>1, SameCall DEF IInv, Signed, OutputsSigned
<1>10. FilesFromOutputs' /\ Unwritten'
  BY <1>1, <1>2, <1>4, <1>5 DEF IInv, FilesFromOutputs, Unwritten, MayHaveWritten, Elements
<1> QED BY <1>7, <1>8, <1>9, <1>10 DEF IInv

\* All steps together.
LEMMA NextIInv == IInv /\ [Next]_vars => IInv'
BY ParseIInv, ConnectIInv, QuietIInv, SignIInv, MatchIInv, WriteIInv DEF Next

\* For any command line and device: where the run is, what the device agreed to sign and
\* which files it may have touched fit together at every step.
THEOREM Invariance == Spec => []IInv
BY InitIInv, NextIInv, PTL DEF Spec

\* Every variable of a run is of its type; in particular createTxWitnesses never runs
\* out of out files while it writes.
THEOREM TypeCorrect == Spec => []TypeOK
<1>1. IInv => TypeOK
  BY DEF IInv
<1> QED BY <1>1, Invariance, PTL

-----------------------------------------------------------------------------
(* What is written *)

\* What is in an out file is a witness of an approved transaction.
LEMMA WrittenFacts ==
  ASSUME IInv, NEW w \in Written
  PROVE  /\ Approved
         /\ w.path \in witnesses
         /\ w = Witness(w.path)
         /\ w.signer = <<DeviceSeed, w.path>>
<1>1. PICK n \in DOMAIN outputs : w = outputs[n]
  BY DEF Written, IInv, FilesFromOutputs, Elements
<1>2. w.path \in witnesses /\ w = Witness(w.path)
  BY <1>1 DEF IInv, OutputsSigned
<1>3. Approved
  BY <1>2 DEF IInv, Signed
<1>4. w.signer = <<DeviceSeed, w.path>>
  BY <1>2, WitnessFields
<1> QED BY <1>2, <1>3, <1>4

\* The paths the device signed at, in terms of the signing files.
LEMMA SignedAt ==
  ASSUME Approved, NEW p \in witnesses
  PROVE  \/ \E k \in OfType(job.files, Spending) : PathOf(k) = p
         \/ <<DeviceSeed, p>> \in
              OfType(job.files, {"Payment", "Stake", "PoolCold", "Mint", "MultiSig"})
<1>1. job.body \in Bodies /\ job.files \in Seq(Keys) /\ provider \in Providers
  BY JobType DEF Approved
<1>2. p \in MaySign(Request(provider, job.body, job.files, job.change, Mode))
  BY DEF Approved, TheRequest, Body
<1>3. /\ RequestOk(provider, job.body, job.files, job.change, Mode)
      /\ BodySigned(DeviceSeed, Request(provider, job.body, job.files, job.change, Mode)) = job.body
  BY DEF Approved, TheRequest, Body
<1> QED BY <1>1, <1>2, <1>3, AskedKeys DEF Spending

\* For any transaction, command line and device: what is written signs the transaction of
\* the tx file.
THEOREM SignsTheTransaction == Spec => []SignedBodyIsTxBody
<1>1. IInv => SignedBodyIsTxBody
  <2> SUFFICES ASSUME IInv, NEW w \in Written PROVE w.body = Body
    BY DEF SignedBodyIsTxBody
  <2>1. Approved /\ w = Witness(w.path)
    BY WrittenFacts
  <2>2. w.body = BodySigned(DeviceSeed, TheRequest)
    BY <2>1, WitnessFields
  <2> QED BY <2>1, <2>2 DEF Approved
<1> QED BY <1>1, Invariance, PTL

\* For any signing files: a written witness verifies, but for the cases that
\* WitnessesVerify names.
THEOREM WrittenWitnessesVerify == Spec => []WitnessesVerify
<1>1. IInv => WitnessesVerify
  <2> SUFFICES ASSUME IInv, NEW w \in Written, w.public # w.signer
               PROVE  /\ provider = "ledger"
                      /\ \/ \E k \in OfType(job.files, Spending) : PathOf(k) = w.path
                         \/ \E k1, k2 \in Elements(job.files) :
                              k1 # k2 /\ PathOf(k1) = w.path /\ PathOf(k2) = w.path
    BY DEF WitnessesVerify
  <2> DEFINE p == w.path
  <2>1. Approved /\ p \in witnesses /\ w = Witness(p) /\ w.signer = <<DeviceSeed, p>>
    BY WrittenFacts
  <2>2. w.public = PublicKey(provider, DeviceSeed, p, job.files)
    BY <2>1, WitnessFields
  <2> HIDE DEF p
  <2>3. provider = "ledger" /\ w.public = FirstAt(p, job.files)
    BY <2>1, <2>2 DEF PublicKey, p
  <2>4. CASE <<DeviceSeed, p>> \in
               OfType(job.files, {"Payment", "Stake", "PoolCold", "Mint", "MultiSig"})
    <3>1. <<DeviceSeed, p>> \in Elements(job.files) /\ PathOf(<<DeviceSeed, p>>) = p
      BY <2>4 DEF OfType, PathOf
    <3>2. job.files \in Seq(Keys)
      BY <2>1, JobType DEF Approved
    <3>3. FirstAt(p, job.files) \in Elements(job.files) /\ PathOf(FirstAt(p, job.files)) = p
      BY <3>1, <3>2, FirstAtFacts
    <3> QED BY <2>1, <2>3, <3>1, <3>3 DEF p
  <2> QED BY <2>1, <2>3, <2>4, SignedAt DEF p
<1> QED BY <1>1, Invariance, PTL

\* For any signing files: no signature is thrown away for want of a signing file.
THEOREM NoSignatureLost == Spec => []SignaturesKept
<1>1. IInv => SignaturesKept
  <2> SUFFICES ASSUME IInv, pc = "collect", NEW p \in witnesses,
                      ~FileFound(provider, DeviceSeed, p, job.files)
               PROVE  provider = "trezor" /\ \E k \in Elements(job.files) : k[1] # DeviceSeed
    BY DEF SignaturesKept, AllFound
  <2>1. Approved
    BY DEF IInv, Signed
  <2>2. job.files \in Seq(Keys) /\ provider \in Providers
    BY <2>1, JobType DEF Approved
  <2>3. PICK k \in Elements(job.files) : k \in Keys /\ PathOf(k) = p
    <3>1. CASE \E k \in OfType(job.files, Spending) : PathOf(k) = p
      BY <2>2, <3>1, OfTypeFacts
    <3>2. CASE <<DeviceSeed, p>> \in
                 OfType(job.files, {"Payment", "Stake", "PoolCold", "Mint", "MultiSig"})
      <4>1. <<DeviceSeed, p>> \in Elements(job.files) /\ <<DeviceSeed, p>> \in Keys
        BY <2>2, <3>2, OfTypeFacts
      <4> QED BY <4>1 DEF PathOf
    <3> QED BY <2>1, <3>1, <3>2, SignedAt
  <2>4. provider # "ledger"
    BY <2>3 DEF FileFound
  <2>5. <<DeviceSeed, p>> \notin Elements(job.files)
    BY <2>4 DEF FileFound
  <2>6. k = <<k[1], p>>
    BY <2>3 DEF Keys, PathOf
  <2> QED BY <2>2, <2>3, <2>4, <2>5, <2>6 DEF Providers
<1> QED BY <1>1, Invariance, PTL

\* With one stake file among the arguments, two stake keys in the files are the same.
LEMMA OneFile ==
  ASSUME NEW files, NEW type, One(files, type),
         NEW k1 \in OfType(files, {type}), NEW k2 \in OfType(files, {type})
  PROVE  k1 = k2
<1>1. PICK i \in DOMAIN files, j \in DOMAIN files : k1 = files[i] /\ k2 = files[j]
  BY DEF OfType, Elements
<1>2. TypeOf(files[i]) = type /\ TypeOf(files[j]) = type
  BY <1>1 DEF OfType
<1> QED BY <1>1, <1>2 DEF One, Repeats

\* A registration signed as OWNER comes with the stake file of one of its owners.
LEMMA OwnerInFiles ==
  ASSUME Approved, Mode = "OWNER", NEW i \in PoolRegistrations(Body)
  PROVE  \E j \in DOMAIN Body.certificates[i].owners :
           Body.certificates[i].owners[j] \in OfType(job.files, {"Stake"})
<1> DEFINE cert == Body.certificates[i]
           given == CertificateFiles(provider, job.files)
<1>1. i \in DOMAIN Body.certificates /\ cert.type = "POOL_REGISTRATION"
  BY DEF PoolRegistrations
<1>2. CertificateOk(provider, cert, job.files, Mode)
  BY <1>1 DEF Approved, RequestOk
<1>3. PoolOwnersOk(provider, cert.owners, given, Mode)
  BY <1>1, <1>2 DEF CertificateOk, StakeCertTypes
<1>4. PICK j \in DOMAIN cert.owners : cert.owners[j] \in given
  BY <1>3 DEF PoolOwnersOk, OwnersByPath
<1>5. OfType(job.files, {"Payment", "PoolCold", "Mint", "MultiSig"}) = {}
  BY DEF Approved, Accepted, ValidateWitnessing, PoolOwnerWitnesses
<1>6. cert.owners[j] \in OfType(job.files, {"Stake"})
  BY <1>4, <1>5 DEF CertificateFiles, OfType
<1> QED BY <1>6

\* For any pool, owners and signing files: an owner signs alone.
THEOREM OwnerSignsAlone == Spec => []PoolOwnerSignsAlone
<1>1. IInv => PoolOwnerSignsAlone
  <2> SUFFICES ASSUME IInv, NEW w \in Written,
                      PoolRegistrations(Body) # {}, TypeOf(w.signer) = "Stake"
               PROVE  /\ \A v \in Written : v.path = w.path
                      /\ \A i \in PoolRegistrations(Body) :
                           w.signer \in Elements(Body.certificates[i].owners)
    BY DEF PoolOwnerSignsAlone
  <2> DEFINE All == {"Payment", "Stake", "PoolCold", "Mint", "MultiSig"}
             stake == OfType(job.files, {"Stake"})
  <2>1. Approved /\ w.path \in witnesses /\ w.signer = <<DeviceSeed, w.path>>
    BY WrittenFacts
  <2>2. CASE Mode = "OPERATOR"
    <3>1. OfType(job.files, {"Stake", "Mint", "MultiSig"}) = {}
      BY <2>1, <2>2 DEF Approved, Accepted, ValidateWitnessing, PoolOperatorWitnesses
    <3>2. Type[w.path] = "Stake"
      BY <2>1 DEF TypeOf
    <3>3. \A k \in OfType(job.files, Spending) : PathOf(k) # w.path
      BY <3>2 DEF OfType, Spending, TypeOf, PathOf
    <3>4. w.signer \in Elements(job.files)
      BY <2>1, <3>3, SignedAt DEF OfType
    <3> QED BY <3>1, <3>4 DEF OfType
  <2>3. CASE Mode = "OWNER"
    <3>1. /\ OfType(job.files, {"Payment", "PoolCold", "Mint", "MultiSig"}) = {}
          /\ One(job.files, "Stake")
      BY <2>1, <2>3 DEF Approved, Accepted, ValidateWitnessing, PoolOwnerWitnesses
    <3>2. \A k \in OfType(job.files, All) : k \in stake
      BY <3>1 DEF OfType
    <3>3. \A p \in witnesses : <<DeviceSeed, p>> \in stake
      <4> TAKE p \in witnesses
      <4>1. OfType(job.files, Spending) = {}
        BY <3>1 DEF OfType, Spending
      <4> QED BY <2>1, <3>2, <4>1, SignedAt
    <3>4. w.signer \in stake
      BY <2>1, <3>3
    <3>5. \A v \in Written : v.path = w.path
      <4> TAKE v \in Written
      <4>1. v.path \in witnesses
        BY WrittenFacts
      <4>2. <<DeviceSeed, v.path>> = <<DeviceSeed, w.path>>
        BY <2>1, <3>1, <3>3, <3>4, <4>1, OneFile
      <4> QED BY <4>2
    <3>6. ASSUME NEW i \in PoolRegistrations(Body)
          PROVE  w.signer \in Elements(Body.certificates[i].owners)
      <4>1. PICK j \in DOMAIN Body.certificates[i].owners :
              Body.certificates[i].owners[j] \in stake
        BY <2>1, <2>3, <3>6, OwnerInFiles
      <4>2. Body.certificates[i].owners[j] = w.signer
        BY <3>1, <3>4, <4>1, OneFile
      <4> QED BY <4>2 DEF Elements
    <3> QED BY <3>5, <3>6
  <2>4. Mode \in {"OPERATOR", "OWNER"}
    BY DEF Mode, DetermineSigningMode
  <2> QED BY <2>2, <2>3, <2>4
<1> QED BY <1>1, Invariance, PTL

-----------------------------------------------------------------------------
(* The loops over the signing files and over the outputs *)

HasWitness(i) == PathOf(job.files[i]) \in witnesses

\* The first n signing files have been matched: every one with a witness has an output,
\* and in the place of the file as long as no file before it went without.
MatchedUpTo(n) ==
  /\ \A i \in 1 .. n :
       HasWitness(i) => \E k \in DOMAIN outputs : outputs[k].path = PathOf(job.files[i])
  /\ \A i \in 1 .. n :
       (\A j \in 1 .. i : HasWitness(j)) =>
         i \in DOMAIN outputs /\ outputs[i].path = PathOf(job.files[i])
  /\ (\A j \in 1 .. n : HasWitness(j)) => Len(outputs) = n

WrittenUpTo(n) ==
  DistinctOutFiles => \A i \in 1 .. n : fs[job.outFiles[i]] = outputs[i]

Loops ==
  /\ pc = "match" => idx <= Len(job.files) + 1 /\ MatchedUpTo(idx - 1)
  /\ pc \in {"write", "done"} => MatchedUpTo(Len(job.files))
  /\ pc = "write" => idx <= Len(outputs) + 1 /\ WrittenUpTo(idx - 1)
  /\ pc = "done" => WrittenUpTo(Len(outputs))

\* The outputs are a matter of files and witnesses.
LEMMA SameMatch ==
  ASSUME UNCHANGED <<job, witnesses, outputs>>
  PROVE  \A n : MatchedUpTo(n)' = MatchedUpTo(n)
BY DEF MatchedUpTo, HasWitness

\* The state of the out files is a matter of files and outputs.
LEMMA SameWritten ==
  ASSUME UNCHANGED <<job, outputs, fs>>
  PROVE  \A n : WrittenUpTo(n)' = WrittenUpTo(n)
BY DEF WrittenUpTo, DistinctOutFiles

\* One signing file more.
LEMMA MatchOneMore ==
  ASSUME IInv, Match, MatchedUpTo(idx - 1)
  PROVE  \A m : m = idx => MatchedUpTo(m)'
<1> SUFFICES ASSUME NEW m, m = idx PROVE MatchedUpTo(m)'
  OBVIOUS
<1> DEFINE path == PathOf(job.files[idx])
           n == idx - 1
           w == Witness(path)
<1>1. /\ UNCHANGED <<job, provider, witnesses>> /\ idx' = idx + 1
      /\ outputs' = IF path \in witnesses THEN Append(outputs, w) ELSE outputs
  BY DEF Match
<1>0. \A i : HasWitness(i)' = HasWitness(i)
  BY <1>1 DEF HasWitness
<1>2. idx \in Nat \ {0} /\ n \in Nat /\ idx = n + 1 /\ outputs \in Seq(Witnesses)
  BY DEF IInv, TypeOK
<1>3. Len(outputs) \in Nat /\ DOMAIN outputs = 1 .. Len(outputs)
  BY <1>2, LenProperties
<1>4. \A i \in 1 .. idx : i \in 1 .. n \/ i = idx
  BY <1>2
<1>5. path \in witnesses => w \in Witnesses
  BY WitnessType DEF IInv, TypeOK, Match, Phases, Signed, AfterSigning
<1>6. w.path = path
  BY WitnessFields
<1> HIDE DEF w, path, n
<1>7. CASE path \in witnesses
  <2>1. outputs' = Append(outputs, w)
    BY <1>1, <1>7
  <2>2. /\ outputs' \in Seq(Witnesses)
        /\ Len(outputs') = Len(outputs) + 1
        /\ \A k \in 1 .. Len(outputs) : outputs'[k] = outputs[k]
        /\ outputs'[Len(outputs) + 1] = w
    BY <1>2, <1>5, <1>7, <2>1, AppendProperties
  <2>3. DOMAIN outputs' = 1 .. (Len(outputs) + 1)
    BY <2>2, LenProperties
  <2>4. \A k \in DOMAIN outputs : k \in DOMAIN outputs' /\ outputs'[k] = outputs[k]
    BY <1>3, <2>2, <2>3
  <2>5. Len(outputs) + 1 \in DOMAIN outputs'
    BY <1>3, <2>3
  <2>6. \A i \in 1 .. idx :
          HasWitness(i) => \E k \in DOMAIN outputs' : outputs'[k].path = PathOf(job.files[i])
    <3> SUFFICES ASSUME NEW i \in 1 .. idx, HasWitness(i)
                 PROVE  \E k \in DOMAIN outputs' : outputs'[k].path = PathOf(job.files[i])
      OBVIOUS
    <3>1. CASE i \in 1 .. n
      <4>1. PICK k \in DOMAIN outputs : outputs[k].path = PathOf(job.files[i])
        BY <3>1 DEF MatchedUpTo, n
      <4> QED BY <2>4, <4>1
    <3>2. CASE i = idx
      BY <1>6, <2>2, <2>5, <3>2 DEF path
    <3> QED BY <1>4, <3>1, <3>2
  <2>7. \A i \in 1 .. idx :
          (\A j \in 1 .. i : HasWitness(j)) =>
            i \in DOMAIN outputs' /\ outputs'[i].path = PathOf(job.files[i])
    <3> SUFFICES ASSUME NEW i \in 1 .. idx, \A j \in 1 .. i : HasWitness(j)
                 PROVE  i \in DOMAIN outputs' /\ outputs'[i].path = PathOf(job.files[i])
      OBVIOUS
    <3>1. CASE i \in 1 .. n
      <4>1. i \in DOMAIN outputs /\ outputs[i].path = PathOf(job.files[i])
        BY <3>1 DEF MatchedUpTo, n
      <4> QED BY <2>4, <4>1
    <3>2. CASE i = idx
      <4>1. \A j \in 1 .. n : HasWitness(j)
        BY <1>2, <3>2
      <4>2. Len(outputs) = n
        BY <4>1 DEF MatchedUpTo, n
      <4> QED BY <1>2, <1>6, <2>2, <2>5, <3>2, <4>2 DEF path
    <3> QED BY <1>4, <3>1, <3>2
  <2>8. (\A j \in 1 .. idx : HasWitness(j)) => Len(outputs') = idx
    <3> SUFFICES ASSUME \A j \in 1 .. idx : HasWitness(j) PROVE Len(outputs') = idx
      OBVIOUS
    <3>1. \A j \in 1 .. n : HasWitness(j)
      BY <1>2
    <3>2. Len(outputs) = n
      BY <3>1 DEF MatchedUpTo, n
    <3> QED BY <1>2, <2>2, <3>2
  <2> QED BY <1>0, <1>1, <2>6, <2>7, <2>8 DEF MatchedUpTo
<1>8. CASE path \notin witnesses
  <2>1. outputs' = outputs
    BY <1>1, <1>8
  <2>2. ~HasWitness(idx)
    BY <1>8 DEF HasWitness, path
  <2>3. idx \in 1 .. idx
    BY <1>2
  <2>4. \A i \in 1 .. idx :
          HasWitness(i) => \E k \in DOMAIN outputs : outputs[k].path = PathOf(job.files[i])
    BY <1>4, <2>2 DEF MatchedUpTo, n
  <2>5. \A i \in 1 .. idx :
          (\A j \in 1 .. i : HasWitness(j)) =>
            i \in DOMAIN outputs /\ outputs[i].path = PathOf(job.files[i])
    BY <1>4, <2>2, <2>3 DEF MatchedUpTo, n
  <2> QED BY <1>0, <1>1, <2>1, <2>2, <2>3, <2>4, <2>5 DEF MatchedUpTo
<1> QED BY <1>7, <1>8

\* Another out file is written to: those before it are others, if no file is named twice.
LEMMA EarlierFilesKept ==
  ASSUME IInv, Truncate \/ Fill, WrittenUpTo(idx - 1)
  PROVE  \A m : m = idx - 1 => WrittenUpTo(m)'
<1> SUFFICES ASSUME NEW m, m = idx - 1, DistinctOutFiles', NEW i \in 1 .. m
             PROVE  fs'[job'.outFiles[i]] = outputs'[i]
  BY DEF WrittenUpTo
<1>1. /\ UNCHANGED <<job, outputs>> /\ idx \in DOMAIN outputs /\ idx \in Nat \ {0}
      /\ outputs \in Seq(Witnesses) /\ Len(outputs) <= Len(job.outFiles)
      /\ fs \in [Files -> Witnesses \cup {Untouched, Torn}]
  BY DEF IInv, TypeOK, Truncate, Fill
<1>2. PICK c : fs' = [fs EXCEPT ![job.outFiles[idx]] = c]
  BY DEF Truncate, Fill
<1>3. job \in Jobs
  BY DEF IInv, Phases, Truncate, Fill
<1>4. job.outFiles \in Seq(Files)
  BY <1>3, JobType
<1>5. /\ Len(job.outFiles) \in Nat /\ DOMAIN job.outFiles = 1 .. Len(job.outFiles)
      /\ Len(outputs) \in Nat /\ DOMAIN outputs = 1 .. Len(outputs)
  BY <1>1, <1>4, LenProperties
<1>6. i \in DOMAIN job.outFiles /\ idx \in DOMAIN job.outFiles /\ i # idx
  BY <1>1, <1>5
<1>7. DistinctOutFiles
  BY <1>1 DEF DistinctOutFiles
<1>8. job.outFiles[i] # job.outFiles[idx]
  BY <1>6, <1>7 DEF DistinctOutFiles
<1>9. job.outFiles[i] \in Files
  BY <1>4, <1>5, <1>6, ElementOfSeq
<1>10. fs'[job.outFiles[i]] = fs[job.outFiles[i]]
  BY <1>1, <1>2, <1>8, <1>9
<1>11. fs[job.outFiles[i]] = outputs[i]
  BY <1>7 DEF WrittenUpTo
<1> QED BY <1>1, <1>10, <1>11

\* One out file more.
LEMMA FillOneMore ==
  ASSUME IInv, Fill, WrittenUpTo(idx - 1)
  PROVE  \A m : m = idx => WrittenUpTo(m)'
<1> SUFFICES ASSUME NEW m, m = idx, DistinctOutFiles', NEW i \in 1 .. m
             PROVE  fs'[job'.outFiles[i]] = outputs'[i]
  BY DEF WrittenUpTo
<1>1. /\ UNCHANGED <<job, outputs>> /\ idx \in Nat \ {0} /\ idx \in DOMAIN outputs
      /\ outputs \in Seq(Witnesses) /\ Len(outputs) <= Len(job.outFiles)
      /\ fs' = [fs EXCEPT ![job.outFiles[idx]] = outputs[idx]]
      /\ fs \in [Files -> Witnesses \cup {Untouched, Torn}]
  BY DEF IInv, TypeOK, Fill
<1>2. CASE i \in 1 .. idx - 1
  <2>2. \A k \in 1 .. m - 1 : fs'[job'.outFiles[k]] = outputs'[k]
    <3>1. \A k : k = idx - 1 => WrittenUpTo(k)'
      BY EarlierFilesKept
    <3>2. WrittenUpTo(m - 1)'
      BY <3>1
    <3> QED BY <3>2 DEF WrittenUpTo
  <2> QED BY <1>2, <2>2
<1>3. CASE i = idx
  <2>1. job \in Jobs
    BY DEF IInv, Phases, Fill
  <2>2. job.outFiles \in Seq(Files)
    BY <2>1, JobType
  <2>3. idx \in 1 .. Len(job.outFiles)
    BY <1>1, <2>2, LenProperties
  <2>4. job.outFiles[idx] \in Files
    BY <2>2, <2>3, ElementOfSeq
  <2> QED BY <1>1, <1>3, <2>4
<1> QED BY <1>1, <1>2, <1>3

\* Both loops keep their invariant.
LEMMA NextLoops == IInv /\ Loops /\ [Next]_vars => Loops'
<1> SUFFICES ASSUME IInv, Loops, [Next]_vars PROVE Loops'
  OBVIOUS
<1>1. /\ pc = "match" \/ pc \in {"write", "done"} => job \in Jobs
      /\ job \in Jobs => Len(job.files) \in Nat /\ DOMAIN job.files = 1 .. Len(job.files)
      /\ outputs \in Seq(Witnesses) /\ idx \in Nat \ {0}
      /\ Len(outputs) \in Nat /\ DOMAIN outputs = 1 .. Len(outputs)
  <2>1. outputs \in Seq(Witnesses) /\ idx \in Nat \ {0}
    BY DEF IInv, TypeOK
  <2>2. job \in Jobs => Len(job.files) \in Nat /\ DOMAIN job.files = 1 .. Len(job.files)
    BY JobType, LenProperties
  <2>3. Len(outputs) \in Nat /\ DOMAIN outputs = 1 .. Len(outputs)
    BY <2>1, LenProperties
  <2>4. pc = "match" \/ pc \in {"write", "done"} => job \in Jobs
    BY DEF IInv, Phases
  <2> QED BY <2>1, <2>2, <2>3, <2>4
<1>2. CASE pc' \notin {"match", "write", "done"}
  BY <1>2 DEF Loops
<1>3. CASE CreateWitnesses
  <2>1. /\ outputs = << >> /\ idx = 1 /\ UNCHANGED <<job, witnesses, outputs, idx>>
        /\ pc' \in {"match", "failed"}
    BY <1>3 DEF CreateWitnesses, IInv, Phases
  <2>2. MatchedUpTo(0)
    BY <2>1, EmptySeq DEF MatchedUpTo
  <2>3. MatchedUpTo(0)' /\ idx' - 1 = 0 /\ job \in Jobs
    BY <1>3, <2>1, <2>2, SameMatch DEF CreateWitnesses, IInv, Phases
  <2>4. idx' <= Len(job'.files) + 1
    BY <1>1, <2>1, <2>3
  <2>5. MatchedUpTo(idx - 1)'
    BY <2>3
  <2> QED BY <2>1, <2>4, <2>5 DEF Loops
<1>4. CASE Match
  <2>1. /\ pc = "match" /\ pc' = "match" /\ idx' = idx + 1 /\ idx \in DOMAIN job.files
        /\ job' = job
    BY <1>4 DEF Match
  <2>2. \A m : m = idx => MatchedUpTo(m)'
    BY <1>4, <2>1, MatchOneMore DEF Loops
  <2>3. idx' - 1 = idx /\ idx' <= Len(job'.files) + 1
    BY <1>1, <2>1
  <2>4. MatchedUpTo(idx - 1)'
    BY <2>2, <2>3
  <2> QED BY <2>1, <2>3, <2>4 DEF Loops
<1>5. CASE Matched
  <2>1. /\ pc = "match" /\ idx \notin DOMAIN job.files /\ idx' = 1
        /\ UNCHANGED <<job, witnesses, outputs, fs>> /\ pc' \in {"write", "failed"}
    BY <1>5 DEF Matched
  <2>2. idx - 1 = Len(job.files)
    BY <1>1, <2>1 DEF Loops
  <2>3. MatchedUpTo(Len(job.files))
    BY <2>1, <2>2 DEF Loops
  <2>4. MatchedUpTo(Len(job.files))'
    BY <2>1, <2>3, SameMatch
  <2>5. WrittenUpTo(idx - 1)'
    BY <2>1 DEF WrittenUpTo
  <2>6. idx' <= Len(outputs') + 1
    BY <1>1, <2>1
  <2> QED BY <2>1, <2>4, <2>5, <2>6 DEF Loops
<1>6. CASE Truncate
  <2>1. /\ pc = "write" /\ pc' = "write"
        /\ UNCHANGED <<job, witnesses, outputs, idx>>
    BY <1>6 DEF Truncate
  <2>2. MatchedUpTo(Len(job.files))'
    BY <2>1, SameMatch DEF Loops
  <2>3. \A m : m = idx - 1 => WrittenUpTo(m)'
    BY <1>6, <2>1, EarlierFilesKept DEF Loops
  <2>4. WrittenUpTo(idx - 1)'
    BY <2>1, <2>3
  <2> QED BY <2>1, <2>2, <2>4 DEF Loops
<1>7. CASE Fill
  <2>1. /\ pc = "write" /\ pc' = "write" /\ idx' = idx + 1 /\ idx \in DOMAIN outputs
        /\ UNCHANGED <<job, witnesses, outputs>>
    BY <1>7 DEF Fill, IInv, TypeOK
  <2>2. MatchedUpTo(Len(job.files))'
    BY <2>1, SameMatch DEF Loops
  <2>3. \A m : m = idx => WrittenUpTo(m)'
    BY <1>7, <2>1, FillOneMore DEF Loops
  <2>4. idx' - 1 = idx /\ idx' <= Len(outputs') + 1
    BY <1>1, <2>1
  <2>5. WrittenUpTo(idx - 1)'
    BY <2>3, <2>4
  <2> QED BY <2>1, <2>2, <2>4, <2>5 DEF Loops
<1>8. CASE Finish
  <2>1. /\ pc = "write" /\ pc' = "done" /\ idx \notin DOMAIN outputs
        /\ UNCHANGED <<job, witnesses, outputs, fs>>
    BY <1>8 DEF Finish
  <2>2. MatchedUpTo(Len(job.files))'
    BY <2>1, SameMatch DEF Loops
  <2>3. idx - 1 = Len(outputs)
    BY <1>1, <2>1 DEF Loops
  <2>4. WrittenUpTo(Len(outputs))
    BY <2>1, <2>3 DEF Loops
  <2>5. WrittenUpTo(Len(outputs))'
    BY <2>1, <2>4, SameWritten
  <2> QED BY <2>1, <2>2, <2>5 DEF Loops
<1>9. CASE UNCHANGED vars
  <2>1. /\ \A n : MatchedUpTo(n)' = MatchedUpTo(n)
        /\ \A n : WrittenUpTo(n)' = WrittenUpTo(n)
    BY <1>9, SameMatch, SameWritten DEF vars
  <2> QED BY <1>9, <2>1 DEF Loops, vars
<1> QED
  BY <1>2, <1>3, <1>4, <1>5, <1>6, <1>7, <1>8, <1>9
  DEF Next, Parse, Connect, NoDevice, Check, Prepare, Refuse, Sign, HashMismatch, WriteFails, Die

\* The loop invariants, for any numbers of signing files and out files.
THEOREM LoopInvariance == Spec => []Loops
<1>1. Init => Loops
  BY DEF Init, Loops
<1> QED BY <1>1, Invariance, NextLoops, PTL DEF Spec

\* The only file that may be torn is the one being written.
TornIsOpen == \A f \in Files : fs[f] = Torn => open /\ f = job.outFiles[idx]

\* A file is opened when all others are whole, and filled before the next is opened.
LEMMA NextTorn == IInv /\ TornIsOpen /\ [Next]_vars => TornIsOpen'
<1> SUFFICES ASSUME IInv, TornIsOpen, [Next]_vars, NEW f \in Files, fs'[f] = Torn
             PROVE  open' /\ f = job'.outFiles[idx']
  BY DEF TornIsOpen
<1>1. fs \in [Files -> Witnesses \cup {Untouched, Torn}]
  BY DEF IInv, TypeOK
<1>2. CASE Truncate
  <2>1. ~open /\ open' /\ UNCHANGED <<job, idx>> /\ fs' = [fs EXCEPT ![job.outFiles[idx]] = Torn]
    BY <1>2 DEF Truncate
  <2>2. fs[f] # Torn
    BY <2>1 DEF TornIsOpen
  <2> QED BY <1>1, <2>1, <2>2
<1>3. CASE Fill
  <2>1. idx \in DOMAIN outputs /\ fs' = [fs EXCEPT ![job.outFiles[idx]] = outputs[idx]]
    BY <1>3 DEF Fill, IInv, TypeOK
  <2>2. outputs[idx] # Torn
    BY <2>1, WitnessFields DEF IInv, OutputsSigned
  <2>3. fs[f] = Torn /\ f # job.outFiles[idx]
    BY <1>1, <2>1, <2>2
  <2> QED BY <2>3 DEF TornIsOpen
<1>4. CASE Parse \/ Match \/ Matched
  <2>1. fs' = fs /\ ~open
    BY <1>4 DEF Parse, Match, Matched, IInv, TypeOK
  <2> QED BY <2>1 DEF TornIsOpen
<1>5. CASE UNCHANGED <<job, idx, open, fs>>
  BY <1>5 DEF TornIsOpen
<1> QED
  BY <1>2, <1>3, <1>4, <1>5
  DEF Next, Connect, NoDevice, Check, Prepare, Refuse, Sign, HashMismatch, CreateWitnesses,
      WriteFails, Finish, Die, vars

\* For any command line: an error leaves the out files alone, a success puts each witness
\* into its place, and wherever the run ends at most the file being written is torn.
THEOREM AllOrNothing == Spec => []OutFilesAllOrNothing
<1>1. IInv /\ Loops /\ TornIsOpen => OutFilesAllOrNothing
  <2> SUFFICES ASSUME IInv, Loops, TornIsOpen PROVE OutFilesAllOrNothing
    OBVIOUS
  <2>1. pc = "failed" => \A f \in Files : fs[f] = Untouched
    BY DEF IInv, Unwritten, MayHaveWritten
  <2>2. ASSUME pc = "done", DistinctOutFiles, NEW i \in DOMAIN job.files,
               \A j \in 1 .. i : PathOf(job.files[j]) \in witnesses
        PROVE  /\ fs[job.outFiles[i]] \in Written
               /\ fs[job.outFiles[i]].path = PathOf(job.files[i])
    <3>1. job.files \in Seq(Keys) /\ job.outFiles \in Seq(Files)
      BY <2>2, JobType DEF IInv, Phases
    <3>2. i \in 1 .. Len(job.files)
      BY <3>1, LenProperties
    <3>3. i \in DOMAIN outputs /\ outputs[i].path = PathOf(job.files[i])
      BY <2>2, <3>2 DEF Loops, MatchedUpTo, HasWitness
    <3>4. outputs \in Seq(Witnesses) /\ Len(outputs) <= Len(job.outFiles)
      BY <2>2 DEF IInv, TypeOK
    <3>5. i \in 1 .. Len(outputs) /\ i \in 1 .. Len(job.outFiles)
      BY <3>1, <3>3, <3>4, LenProperties
    <3>6. fs[job.outFiles[i]] = outputs[i]
      BY <2>2, <3>5 DEF Loops, WrittenUpTo
    <3>7. job.outFiles[i] \in Files
      BY <3>1, <3>5, ElementOfSeq
    <3>8. outputs[i] \notin {Untouched, Torn}
      BY <3>3, WitnessFields DEF IInv, OutputsSigned
    <3> QED BY <3>3, <3>6, <3>7, <3>8 DEF Written
  <2> QED BY <2>1, <2>2 DEF OutFilesAllOrNothing, TornIsOpen
<1>2. Init => TornIsOpen
  BY DEF Init, TornIsOpen, Untouched, Torn
<1> QED BY <1>1, <1>2, NextTorn, Invariance, LoopInvariance, PTL DEF Spec

\* The keys there are to witness are among those the device must sign with.
LEMMA KeysAreAsked ==
  ASSUME Approved, NEW k \in KeysToWitness
  PROVE  PathOf(k) \in witnesses
<1> DEFINE r == Request(provider, job.body, job.files, job.change, Mode)
           stake == OfType(job.files, {"Stake"})
<1>1. job.body \in Bodies /\ job.files \in Seq(Keys) /\ provider \in Providers
  BY JobType DEF Approved
<1>2. /\ RequestOk(provider, job.body, job.files, job.change, Mode)
      /\ WellFormed(r) /\ BodySigned(DeviceSeed, r) = job.body
      /\ MustSign(r) \subseteq witnesses
  BY DEF Approved, TheRequest, Body
<1>3. Rebuilt(DeviceSeed, r, provider, job.body, job.files, Mode)
  BY <1>1, <1>2, SignedIsRebuilt
<1> HIDE DEF r
<1>4. ASSUME NEW cert \in Elements(Body.certificates), OwedKey(cert, job.files, Mode, k)
      PROVE  PathOf(k) \in witnesses
  <2>1. cert \in Elements(job.body.certificates)
    BY DEF Body
  <2>2. PathOf(k) \in MustSign(r)
    BY <1>1, <1>2, <1>3, <1>4, <2>1, CertificatesAsked
  <2> QED BY <1>2, <2>2
<1>5. CASE k \in OfType(job.files, Spending)
  <2>1. PathOf(k) \in r.additional
    BY <1>3, <1>5 DEF Rebuilt, AdditionalWitnessRequests, Spending
  <2> QED BY <1>2, <2>1 DEF MustSign
<1>6. CASE k \in StakeKeysUsed /\ (Mode # "PLUTUS" \/ k \in stake)
  <2>1. CASE k \in Elements(Body.withdrawals) /\ k # Script
    BY <1>2, <1>3, <1>6, <2>1, WithdrawalsAsked DEF Body
  <2>2. CASE \E cert \in Elements(Body.certificates) :
               /\ cert.type \in {"STAKE_DEREGISTRATION", "STAKE_DELEGATION"}
               /\ k = cert.credential /\ k # Script
    BY <1>4, <1>6, <2>2 DEF OwedKey
  <2> QED BY <1>6, <2>1, <2>2 DEF StakeKeysUsed
<1>7. CASE k \in RegisteredOwners /\ k \in stake
  <2>1. PICK i \in PoolRegistrations(Body) : k \in Elements(Body.certificates[i].owners)
    BY <1>7 DEF RegisteredOwners
  <2>2. Body.certificates[i] \in Elements(Body.certificates)
          /\ Body.certificates[i].type = "POOL_REGISTRATION"
    BY DEF PoolRegistrations, Elements
  <2>3. Mode \in {"OPERATOR", "OWNER"}
    BY <2>1 DEF Mode, DetermineSigningMode
  <2>4. Mode # "OPERATOR"
    <3> SUFFICES ASSUME Mode = "OPERATOR" PROVE FALSE
      OBVIOUS
    <3>1. OfType(job.files, {"Stake", "Mint", "MultiSig"}) = {}
      BY DEF Approved, Accepted, ValidateWitnessing, PoolOperatorWitnesses
    <3> QED BY <1>7, <3>1 DEF OfType
  <2> QED BY <1>4, <1>7, <2>1, <2>2, <2>3, <2>4 DEF OwedKey
<1>8. CASE k \in Body.requiredSigners /\ k \in stake
  BY <1>2, <1>3, <1>8, RequiredSignersAsked DEF Body
<1>9. CASE k \in PoolKeysUsed
  BY <1>4, <1>9 DEF PoolKeysUsed, OwedKey
<1> QED BY <1>5, <1>6, <1>7, <1>8, <1>9 DEF KeysToWitness

\* At the end of a successful run the out files hold a witness for each of them.
LEMMA KeysAreWritten ==
  ASSUME IInv, Loops, pc = "done", DistinctOutFiles, NEW k \in KeysToWitness
  PROVE  \E w \in Written : w.path = PathOf(k)
<1>1. Approved
  BY DEF IInv, Signed, AfterSigning
<1>2. PathOf(k) \in witnesses
  BY <1>1, KeysAreAsked
<1>3. job \in Jobs /\ job.files \in Seq(Keys) /\ job.outFiles \in Seq(Files)
  BY <1>1, JobType DEF Approved
<1>4. PICK i \in DOMAIN job.files : PathOf(job.files[i]) = PathOf(k)
  <2>1. PathOf(k) \in MaySign(Request(provider, job.body, job.files, job.change, Mode))
    BY <1>1, <1>2 DEF Approved, TheRequest, Body
  <2>2. \E f \in Elements(job.files) : PathOf(f) = PathOf(k)
    BY <1>1, <1>3, <2>1, AskedInFiles DEF Approved, TheRequest, Body
  <2> QED BY <2>2 DEF Elements
<1>5. i \in 1 .. Len(job.files)
  BY <1>3, <1>4, LenProperties
<1>6. PICK m \in DOMAIN outputs : outputs[m].path = PathOf(k)
  BY <1>2, <1>4, <1>5 DEF Loops, MatchedUpTo, HasWitness
<1>7. outputs \in Seq(Witnesses) /\ Len(outputs) <= Len(job.outFiles)
  BY DEF IInv, TypeOK
<1>8. m \in 1 .. Len(outputs) /\ m \in 1 .. Len(job.outFiles)
  BY <1>3, <1>6, <1>7, LenProperties
<1>9. fs[job.outFiles[m]] = outputs[m]
  BY <1>8 DEF Loops, WrittenUpTo
<1>10. job.outFiles[m] \in Files
  BY <1>3, <1>8, ElementOfSeq
<1>11. outputs[m] \notin {Untouched, Torn}
  BY <1>6, WitnessFields DEF IInv, OutputsSigned
<1> QED BY <1>6, <1>9, <1>10, <1>11 DEF Written

\* For any transaction, command line and device: a run that ends with success has written
\* a witness for every spending key given, every pool owner, required signer and used stake
\* key with a stake file, every stake key used outside Plutus transactions and the pool's own
\* key, and a pool registration signed as OWNER is signed by one of its owners.
THEOREM SuccessIsComplete == Spec => []SuccessSignsEverything
<1>1. IInv /\ Loops /\ PoolOwnerSignsAlone => SuccessSignsEverything
  <2> SUFFICES ASSUME IInv, Loops, PoolOwnerSignsAlone, pc = "done", DistinctOutFiles
               PROVE  /\ \A k \in KeysToWitness : \E w \in Written : w.path = PathOf(k)
                      /\ Mode = "OWNER" =>
                           \A i \in PoolRegistrations(Body) :
                             \E w \in Written : w.signer \in Elements(Body.certificates[i].owners)
    BY DEF SuccessSignsEverything
  <2>1. \A k \in KeysToWitness : \E w \in Written : w.path = PathOf(k)
    BY KeysAreWritten
  <2>2. ASSUME Mode = "OWNER", NEW i \in PoolRegistrations(Body)
        PROVE  \E w \in Written : w.signer \in Elements(Body.certificates[i].owners)
    <3>1. Approved
      BY DEF IInv, Signed, AfterSigning
    <3>2. PICK j \in DOMAIN Body.certificates[i].owners :
            Body.certificates[i].owners[j] \in OfType(job.files, {"Stake"})
      BY <2>2, <3>1, OwnerInFiles
    <3> DEFINE k == Body.certificates[i].owners[j]
    <3>3. k \in RegisteredOwners
      BY DEF RegisteredOwners, Elements
    <3>4. k \in KeysToWitness
      BY <3>2, <3>3 DEF KeysToWitness
    <3>5. Type[PathOf(k)] = "Stake"
      BY <3>2 DEF OfType, TypeOf, PathOf
    <3> HIDE DEF k
    <3>6. PICK w \in Written : w.path = PathOf(k)
      BY <2>1, <3>4
    <3>7. w.signer = <<DeviceSeed, w.path>>
      BY WrittenFacts
    <3>8. TypeOf(w.signer) = "Stake"
      BY <3>5, <3>6, <3>7 DEF TypeOf
    <3>9. w.signer \in Elements(Body.certificates[i].owners)
      BY <2>2, <3>8 DEF PoolOwnerSignsAlone
    <3> QED BY <3>9
  <2> QED BY <2>1, <2>2
<1> QED BY <1>1, Invariance, LoopInvariance, OwnerSignsAlone, PTL

\* For any transaction and files: it makes no difference which device answers first.
THEOREM ProvidersAgreeAlways == Spec => []ProvidersAgree
<1>1. IInv => ProvidersAgree
  <2> SUFFICES ASSUME IInv, pc = "prepare",
                      RequestOk("trezor", Body, job.files, job.change, Mode)
               PROVE  LET t == Request("trezor", Body, job.files, job.change, Mode)
                          l == Request("ledger", Body, job.files, job.change, Mode)
                      IN /\ RequestOk("ledger", Body, job.files, job.change, Mode)
                         /\ WellFormed(l)
                         /\ MustSign(l) = MustSign(t)
                         /\ MaySign(l) = MaySign(t)
    BY DEF ProvidersAgree
  <2>1. Body \in Bodies
    BY JobType DEF IInv, Phases, Body
  <2>2. ValidateWitnessing(job.network, Body, job.files, Mode)
    BY DEF IInv, Phases, Accepted
  <2>3. Mode = DetermineSigningMode(Body, job.files) /\ Mode \in Modes
    BY DEF Mode, DetermineSigningMode, Modes
  <2> QED BY <2>1, <2>2, <2>3, SameRequests
<1> QED BY <1>1, Invariance, PTL

-----------------------------------------------------------------------------
(* Files of the connected wallet *)

\* Elements of a concatenation.
LEMMA OwnFilesSplit ==
  ASSUME NEW files \in Seq(Keys), NEW change \in Seq(Keys),
         OwnKeys(DeviceSeed, files \o change)
  PROVE  OwnKeys(DeviceSeed, files) /\ OwnKeys(DeviceSeed, change)
<1>1. ASSUME NEW i \in DOMAIN files PROVE files[i] \in Elements(files \o change)
  BY DEF Elements
<1>2. ASSUME NEW i \in DOMAIN change PROVE change[i] \in Elements(files \o change)
  <2>1. /\ Len(files) + i \in DOMAIN (files \o change)
        /\ (files \o change)[Len(files) + i] = change[i]
    OBVIOUS
  <2> QED BY <2>1 DEF Elements
<1>3. ASSUME NEW k \in Elements(files) PROVE k[1] = DeviceSeed
  <2>1. PICK i \in DOMAIN files : k = files[i]
    BY <1>3 DEF Elements
  <2> QED BY <1>1, <2>1 DEF OwnKeys
<1>4. ASSUME NEW k \in Elements(change) PROVE k[1] = DeviceSeed
  <2>1. PICK i \in DOMAIN change : k = change[i]
    BY <1>4 DEF Elements
  <2> QED BY <1>2, <2>1 DEF OwnKeys
<1> QED BY <1>3, <1>4 DEF OwnKeys

\* For any transaction, command line and device: as long as the signing and change files
\* are the connected wallet's and no relay port is 0, what the user is shown is the
\* transaction of the tx file, and the comparison of hashes after the confirmation cannot fail.
THEOREM OwnFilesSuffice == Spec => []OwnFilesNeverMismatch
<1>1. IInv => OwnFilesNeverMismatch
  <2> SUFFICES ASSUME IInv, pc = "device", OwnFiles, ~NamesPortZero,
                      WellFormed(TheRequest)
               PROVE  BodySigned(DeviceSeed, TheRequest) = Body
    BY DEF OwnFilesNeverMismatch
  <2>1. /\ job \in Jobs /\ provider \in Providers
        /\ RequestOk(provider, Body, job.files, job.change, Mode)
    BY DEF IInv, Phases
  <2>2. Body \in Bodies /\ job.files \in Seq(Keys) /\ job.change \in Seq(Keys)
    BY <2>1, JobType DEF Body
  <2>3. OwnKeys(DeviceSeed, job.files) /\ OwnKeys(DeviceSeed, job.change)
    BY <2>2, OwnFilesSplit DEF OwnFiles, OwnKeys
  <2> QED BY <2>1, <2>2, <2>3, OwnFilesRebuild DEF TheRequest, NamesPortZero
<1> QED BY <1>1, Invariance, PTL

-----------------------------------------------------------------------------
(* The run ends *)

\* The steps that the run has left at most: one for each signing file, two for each output
\* of theirs, made or still possible, and those before, between and after the loops.
StepsLeft ==
  CASE pc = "connect" -> 3 * Len(job.files) + 7
    [] pc = "check" -> 3 * Len(job.files) + 6
    [] pc = "prepare" -> 3 * Len(job.files) + 5
    [] pc = "device" -> 3 * Len(job.files) + 4
    [] pc = "collect" -> 3 * Len(job.files) + 3
    [] pc = "match" -> 3 * (Len(job.files) + 1 - idx) + 2 * Len(outputs) + 2
    [] pc = "write" -> 2 * (Len(outputs) + 1 - idx) + 1 - (IF open THEN 1 ELSE 0)
    [] OTHER -> 0

\* A run that has parsed its command line gets nearer to its end.
Progress ==
  /\ StepsLeft \in Nat
  /\ pc # "start" => StepsLeft' < StepsLeft

\* Whatever transaction, signing files and out files are named, and whatever the device answers,
\* the run takes at most seven steps and three per signing file from its command line to
\* its end (createTxWitnesses): neither loop goes on for ever or skips its end.
THEOREM BoundedCommand == Spec => [][Progress]_vars
<1> DEFINE F == Len(job.files)
           O == Len(outputs)
<1>1. ASSUME IInv, Loops, Next
      PROVE  StepsLeft \in Nat /\ (pc # "start" => StepsLeft' < StepsLeft)
  <2>1. /\ pc # "start" => F \in Nat /\ DOMAIN job.files = 1 .. F
        /\ O \in Nat /\ DOMAIN outputs = 1 .. O
        /\ idx \in Nat \ {0} /\ open \in BOOLEAN
        /\ pc = "match" => idx <= F + 1
        /\ pc = "write" => idx <= O + 1 /\ (open => idx <= O)
    <3>1. pc # "start" => F \in Nat /\ DOMAIN job.files = 1 .. F
      BY <1>1, JobType, LenProperties DEF IInv, Phases
    <3>2. O \in Nat /\ DOMAIN outputs = 1 .. O
      BY <1>1, LenProperties DEF IInv, TypeOK
    <3> QED BY <1>1, <3>1, <3>2 DEF IInv, TypeOK, Loops
  <2>2. CASE pc = "start"
    BY <2>2 DEF StepsLeft
  <2>3. CASE Connect \/ NoDevice \/ Check \/ Prepare \/ Refuse \/ Sign \/ HashMismatch
    <3>1. /\ job' = job /\ outputs' = outputs /\ idx' = idx
          /\ \/ pc = "connect" /\ pc' \in {"check", "failed"}
             \/ pc = "check" /\ pc' \in {"prepare", "failed"}
             \/ pc = "prepare" /\ pc' \in {"device", "failed"}
             \/ pc = "device" /\ pc' \in {"collect", "failed"}
      BY <2>3 DEF Connect, NoDevice, Check, Prepare, Refuse, Sign, HashMismatch
    <3> QED BY <2>1, <3>1 DEF StepsLeft
  <2>4. CASE CreateWitnesses
    <3>1. /\ job' = job /\ outputs' = outputs /\ idx' = idx /\ pc = "collect"
          /\ pc' \in {"match", "failed"} /\ idx = 1 /\ outputs = << >>
      BY <1>1, <2>4 DEF CreateWitnesses, IInv, Phases
    <3>2. O = 0
      BY <3>1
    <3> QED BY <2>1, <3>1, <3>2 DEF StepsLeft
  <2>5. CASE Match
    <3>1. /\ job' = job /\ idx' = idx + 1 /\ pc = "match" /\ pc' = "match"
          /\ idx \in DOMAIN job.files
      BY <2>5 DEF Match
    <3>2. Len(outputs') \in {O, O + 1}
      <4>1. \E w : outputs' \in {outputs, Append(outputs, w)}
        BY <2>5 DEF Match
      <4>2. outputs \in Seq(Witnesses)
        BY <1>1 DEF IInv, TypeOK
      <4>3. outputs' \in Seq(Witnesses \cup {Witness(PathOf(job.files[idx]))})
              /\ Len(outputs') \in {O, O + 1}
        BY <2>5, <4>2 DEF Match
      <4> QED BY <4>3
    <3>3. /\ StepsLeft = 3 * (F + 1 - idx) + 2 * O + 2
          /\ StepsLeft' = 3 * (F + 1 - (idx + 1)) + 2 * Len(outputs') + 2
      BY <3>1 DEF StepsLeft
    <3>4. F \in Nat /\ O \in Nat /\ idx \in Nat /\ idx <= F
      BY <2>1, <3>1
    <3> HIDE DEF F, O
    <3> QED BY <3>2, <3>3, <3>4
  <2>6. CASE Matched
    <3>1. /\ outputs' = outputs /\ idx' = 1 /\ open' = open /\ pc = "match"
          /\ pc' \in {"write", "failed"} /\ idx \notin DOMAIN job.files
      BY <2>6 DEF Matched
    <3>2. F \in Nat /\ O \in Nat /\ idx = F + 1
      BY <2>1, <3>1
    <3>3. StepsLeft = 3 * (F + 1 - idx) + 2 * O + 2
      BY <3>1 DEF StepsLeft
    <3>4. CASE pc' = "failed"
      <4>1. StepsLeft' = 0
        BY <3>4 DEF StepsLeft
      <4> HIDE DEF F, O
      <4> QED BY <3>2, <3>3, <4>1
    <3>5. CASE pc' = "write"
      <4>1. StepsLeft' = 2 * (O + 1 - 1) + 1 - (IF open' THEN 1 ELSE 0)
        BY <3>1, <3>5 DEF StepsLeft
      <4> HIDE DEF F, O
      <4> QED BY <3>2, <3>3, <4>1
    <3> QED BY <3>1, <3>4, <3>5
  <2>7. CASE Truncate
    <3>1. outputs' = outputs /\ idx' = idx /\ open' /\ ~open /\ pc = "write" /\ pc' = "write"
      BY <2>7 DEF Truncate
    <3> QED BY <2>1, <3>1 DEF StepsLeft
  <2>8. CASE Fill
    <3>1. outputs' = outputs /\ idx' = idx + 1 /\ ~open' /\ open /\ pc = "write" /\ pc' = "write"
      BY <2>8 DEF Fill
    <3> QED BY <2>1, <3>1 DEF StepsLeft
  <2>9. CASE WriteFails \/ Finish \/ Die
    <3>1. /\ pc \in {"connect", "check", "prepare", "device", "collect", "match", "write"}
          /\ pc' \in {"writeFailed", "done", "dead"}
      BY <2>9 DEF WriteFails, Finish, Die
    <3>2. StepsLeft' = 0
      BY <3>1 DEF StepsLeft
    <3>3. StepsLeft \in Nat \ {0}
      <4>1. CASE pc = "write"
        <5>1. StepsLeft = 2 * (O + 1 - idx) + 1 - (IF open THEN 1 ELSE 0)
          BY <4>1 DEF StepsLeft
        <5> QED BY <2>1, <4>1, <5>1
      <4>2. CASE pc = "match"
        <5>1. StepsLeft = 3 * (F + 1 - idx) + 2 * O + 2
          BY <4>2 DEF StepsLeft
        <5>2. F \in Nat /\ O \in Nat /\ idx \in Nat /\ idx <= F + 1
          BY <2>1, <4>2
        <5> HIDE DEF F, O
        <5> QED BY <5>1, <5>2
      <4>3. CASE pc \in {"connect", "check", "prepare", "device", "collect"}
        <5>1. F \in Nat /\ StepsLeft \in {3 * F + n : n \in 3 .. 7}
          BY <2>1, <4>3 DEF StepsLeft
        <5> HIDE DEF F
        <5> QED BY <5>1
      <4> QED BY <3>1, <4>1, <4>2, <4>3
    <3> QED BY <3>2, <3>3
  <2> QED
    BY <1>1, <2>2, <2>3, <2>4, <2>5, <2>6, <2>7, <2>8, <2>9 DEF Next, Parse
<1>2. IInv /\ Loops /\ [Next]_vars => [Progress]_vars
  BY <1>1 DEF Progress
<1> QED BY <1>2, Invariance, LoopInvariance, PTL DEF Spec
=============================================================================
