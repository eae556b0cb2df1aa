----------------------------- MODULE KeyGenProofs -----------------------------
(***************************************************************************)
(* Proofs about KeyGen, for any numbers of runs, files, paths and devices. *)
(*                                                                         *)
(* Two facts about HwPaths carry most of it: a path written as text and    *)
(* parsed is the same path, and the label that a class is given when a     *)
(* file is written is the one that is asked for when the file is read.     *)
(* What is left in the files of a bulk export also rests on nobody else    *)
(* writing them: runs that work at the same time write different files     *)
(* (Apart), as all do that share a single device session (OneSession).     *)
(***************************************************************************)
EXTENDS KeyGen, TLAPS

\* The files that a command line makes its run write.
Written(j) == IF j.cmd = "keygen" THEN OutFiles(j) ELSE {j.vkey}

\* Runs that hold devices at the same time write different files.
Apart ==
  \A r, q \in Runs :
    r # q /\ dev[r] # NoDevice /\ dev[q] # NoDevice =>
      Written(job[r]) \cap Written(job[q]) = {}

OneSession == \A d, e \in Devices : d = e

-----------------------------------------------------------------------------
(* Paths, labels and types *)

\* A sequence is a function on its indexes.
LEMMA SeqIsFunction ==
  ASSUME NEW S, NEW s \in Seq(S)
  PROVE  s \in [1..Len(s) -> S] /\ Len(s) \in Nat /\ DOMAIN s = 1..Len(s)
OBVIOUS

\* And the other way round.
LEMMA FunctionIsSeq ==
  ASSUME NEW S, NEW n \in Nat, NEW f \in [1..n -> S]
  PROVE  f \in Seq(S)
OBVIOUS

\* Text parses to a path (parsers.ts, parseBIP32Path).
LEMMA ParsedIsPath ==
  ASSUME NEW text \in PathTexts
  PROVE  ParseBIP32Path(text) \in BIP32Paths
<1>1. /\ text \in [1..Len(text) -> [digits: Int, hardened: BOOLEAN]]
      /\ Len(text) \in Nat /\ DOMAIN text = 1..Len(text)
  BY SeqIsFunction DEF PathTexts
<1>2. \A i \in 1..Len(text) : text[i].digits \in Int /\ H(text[i].digits) \in Int
  BY <1>1, HardenedAbovePurposes DEF H
<1>3. ParseBIP32Path(text) \in [1..Len(text) -> Int]
  BY <1>1, <1>2 DEF ParseBIP32Path
<1> QED
  BY <1>1, <1>3 DEF BIP32Paths

\* A path is written as text (fileWriter.ts, constructBIP32PathOutput).
LEMMA OutputIsText ==
  ASSUME NEW path \in BIP32Paths
  PROVE  ConstructBIP32PathOutput(path) \in PathTexts
<1>1. path \in [1..Len(path) -> Int] /\ Len(path) \in Nat /\ DOMAIN path = 1..Len(path)
  BY DEF BIP32Paths
<1>2. \A i \in 1..Len(path) : path[i] \in Int /\ path[i] - HardenedThreshold \in Int
  BY <1>1, HardenedAbovePurposes
<1>3. ConstructBIP32PathOutput(path) \in [1..Len(path) -> [digits: Int, hardened: BOOLEAN]]
  BY <1>1, <1>2 DEF ConstructBIP32PathOutput
<1> QED
  BY <1>1, <1>3, FunctionIsSeq DEF PathTexts

\* The text written for a path parses to that path: fileWriter.ts and parsers.ts put the
\* threshold of hardened indexes at the same number.
THEOREM PathsReadBack ==
  ASSUME NEW path \in BIP32Paths
  PROVE  ParseBIP32Path(ConstructBIP32PathOutput(path)) = path
<1> DEFINE text == ConstructBIP32PathOutput(path)
<1>1. path = [i \in DOMAIN path |-> path[i]] /\ \A i \in DOMAIN path : path[i] \in Int
  BY DEF BIP32Paths
<1>2. DOMAIN text = DOMAIN path
  BY DEF ConstructBIP32PathOutput
<1>3. \A i \in DOMAIN path :
        (IF text[i].hardened THEN H(text[i].digits) ELSE text[i].digits) = path[i]
  BY <1>1, HardenedAbovePurposes DEF ConstructBIP32PathOutput, H
<1> QED
  BY <1>1, <1>2, <1>3 DEF ParseBIP32Path

\* No two clauses of ClassifyPath fit one path, so that it does not matter in which order
\* the switch of classifyPath (util.ts:86) tries them, and a class says all that its clause does.
THEOREM ClausesApart ==
  ASSUME NEW path \in BIP32Paths
  PROVE  LET Is(class) == ClassifyPath(path) = class
             Long(n, purpose) == Len(path) = n /\ path[1] = H(purpose) /\ path[2] = H(1815)
         IN /\ Is("ACCOUNT") <=> Long(3, 44) \/ Long(3, 1852)
            /\ Is("ACCOUNT_MULTISIG") <=> Long(3, 1854)
            /\ Is("MINTING") <=> Long(3, 1855) /\ IsHardened(path[3])
            /\ Is("CVOTE_ACCOUNT") <=> Long(3, 1694) /\ IsHardened(path[3])
            /\ Is("POOL_COLD") <=> Long(4, 1853) /\ path[3] = H(0) /\ IsHardened(path[4])
            /\ Is("SPENDING_BYRON") <=> Long(5, 44) /\ path[4] \in {0, 1}
            /\ Is("SPENDING_SHELLEY") <=> Long(5, 1852) /\ path[4] \in {0, 1}
            /\ Is("STAKING") <=> Long(5, 1852) /\ path[4] = 2 /\ path[5] = 0
            /\ Is("SPENDING_MULTISIG") <=> Long(5, 1854) /\ path[4] = 0
            /\ Is("STAKING_MULTISIG") <=> Long(5, 1854) /\ path[4] = 2
            /\ Is("CVOTE") <=> Long(5, 1694) /\ IsHardened(path[3]) /\ path[4] = 0
<1> DEFINE c == ClassifyPath(path)
           L(n, purpose) == Len(path) = n /\ path[1] = H(purpose) /\ path[2] = H(1815)
           Account == L(3, 44) \/ L(3, 1852)
           AccountMultisig == L(3, 1854)
           Minting == L(3, 1855) /\ IsHardened(path[3])
           CVoteAccount == L(3, 1694) /\ IsHardened(path[3])
           PoolCold == L(4, 1853) /\ path[3] = H(0) /\ IsHardened(path[4])
           SpendingByron == L(5, 44) /\ path[4] \in {0, 1}
           SpendingShelley == L(5, 1852) /\ path[4] \in {0, 1}
           Staking == L(5, 1852) /\ path[4] = 2 /\ path[5] = 0
           SpendingMultisig == L(5, 1854) /\ path[4] = 0
           StakingMultisig == L(5, 1854) /\ path[4] = 2
           CVote == L(5, 1694) /\ IsHardened(path[3]) /\ path[4] = 0
<1>1. HardenedThreshold \in Nat
  BY HardenedAbovePurposes
<1>2. H(44) # H(1852) /\ H(44) # H(1853) /\ H(44) # H(1854) /\ H(44) # H(1855) /\ H(44) # H(1694)
      /\ H(1852) # H(1853) /\ H(1852) # H(1854) /\ H(1852) # H(1855) /\ H(1852) # H(1694)
      /\ H(1853) # H(1854) /\ H(1853) # H(1855) /\ H(1853) # H(1694)
      /\ H(1854) # H(1855) /\ H(1854) # H(1694) /\ H(1855) # H(1694)
  BY <1>1 DEF H
<1>3. Account => c = "ACCOUNT"
  <2>1. L(3, 44) => c = "ACCOUNT"
    BY <1>2 DEF ClassifyPath
  <2>2. L(3, 1852) => c = "ACCOUNT"
    BY <1>2 DEF ClassifyPath
  <2> QED BY <2>1, <2>2
<1>4. AccountMultisig => c = "ACCOUNT_MULTISIG"
  BY <1>2 DEF ClassifyPath
<1>5. Minting => c = "MINTING"
  BY <1>2 DEF ClassifyPath
<1>6. CVoteAccount => c = "CVOTE_ACCOUNT"
  BY <1>2 DEF ClassifyPath
<1>7. PoolCold => c = "POOL_COLD"
  BY <1>2 DEF ClassifyPath
<1>8. SpendingByron => c = "SPENDING_BYRON"
  BY <1>2 DEF ClassifyPath
<1>9. SpendingShelley => c = "SPENDING_SHELLEY"
  BY <1>2 DEF ClassifyPath
<1>10. Staking => c = "STAKING"
  BY <1>2 DEF ClassifyPath
<1>11. SpendingMultisig => c = "SPENDING_MULTISIG"
  BY <1>2 DEF ClassifyPath
<1>12. StakingMultisig => c = "STAKING_MULTISIG"
  BY <1>2 DEF ClassifyPath
<1>13. CVote => c = "CVOTE"
  BY <1>2 DEF ClassifyPath
<1>14. \/ c = "INVALID" \/ Account \/ AccountMultisig \/ Minting \/ CVoteAccount \/ PoolCold
       \/ SpendingByron \/ SpendingShelley \/ Staking \/ SpendingMultisig
       \/ StakingMultisig \/ CVote
  <2>0. Len(path) \in Nat
    BY DEF BIP32Paths
  <2>1. CASE Len(path) < 3
    <3>1. c = "INVALID"
      BY <2>0, <2>1 DEF ClassifyPath
    <3> QED BY <3>1
  <2>2. CASE Len(path) >= 3 /\ path[2] # H(1815)
    <3>1. c = "INVALID"
      BY <2>0, <2>2 DEF ClassifyPath
    <3> QED BY <3>1
  <2>3. CASE Len(path) >= 3 /\ path[2] = H(1815)
    BY <2>3 DEF ClassifyPath
  <2> QED BY <2>0, <2>1, <2>2, <2>3
<1> HIDE DEF c, Account, AccountMultisig, Minting, CVoteAccount, PoolCold, SpendingByron,
             SpendingShelley, Staking, SpendingMultisig, StakingMultisig, CVote
<1>15. /\ c = "ACCOUNT" <=> Account
       /\ c = "ACCOUNT_MULTISIG" <=> AccountMultisig
       /\ c = "MINTING" <=> Minting
       /\ c = "CVOTE_ACCOUNT" <=> CVoteAccount
       /\ c = "POOL_COLD" <=> PoolCold
       /\ c = "SPENDING_BYRON" <=> SpendingByron
       /\ c = "SPENDING_SHELLEY" <=> SpendingShelley
       /\ c = "STAKING" <=> Staking
       /\ c = "SPENDING_MULTISIG" <=> SpendingMultisig
       /\ c = "STAKING_MULTISIG" <=> StakingMultisig
       /\ c = "CVOTE" <=> CVote
  BY <1>3, <1>4, <1>5, <1>6, <1>7, <1>8, <1>9, <1>10, <1>11, <1>12, <1>13, <1>14
<1> QED
  BY <1>15 DEF c, Account, AccountMultisig, Minting, CVoteAccount, PoolCold, SpendingByron,
               SpendingShelley, Staking, SpendingMultisig, StakingMultisig, CVote

\* The label that a class is given is one that is accepted for it.
LEMMA LabelAccepted ==
  ASSUME NEW class \in Labelled
  PROVE  StartsWith(PathLabel(class), ExpectedLabel(class)) /\ class # "INVALID"
BY DEF Labelled, StartsWith, PathLabel, ExpectedLabel

\* Labels and flavours are those of key files.
LEMMA TypesOfKeyFiles ==
  ASSUME NEW path
  PROVE  HwSigningFileType(path) \in KeyTypes /\ VerificationKeyType(path) \in KeyTypes
BY DEF HwSigningFileType, VerificationKeyType, KeyTypes, PathLabel, Labels, Flavours

\* The signing file of a key with a label is a signing file (fileWriter.ts, parsers.ts).
THEOREM SigningFileReadable ==
  ASSUME NEW key \in Keys, HasLabel(key[2])
  PROVE  /\ SigningFileOf(key) \in SigningFileContent
         /\ IsSigningFile(SigningFileOf(key))
         /\ ParsedKey(SigningFileOf(key)) = key
<1>1. key[2] \in BIP32Paths /\ key = <<key[1], key[2]>>
  BY DEF Keys
<1>2. ParseBIP32Path(ConstructBIP32PathOutput(key[2])) = key[2]
  BY <1>1, PathsReadBack
<1>3. StartsWith(PathLabel(ClassifyPath(key[2])), ExpectedLabel(ClassifyPath(key[2])))
      /\ ClassifyPath(key[2]) # "INVALID"
  BY LabelAccepted DEF HasLabel
<1>4. HwSigningFileType(key[2]).label = PathLabel(ClassifyPath(key[2]))
  BY DEF HwSigningFileType
<1>5. SigningFileOf(key).kind = "hws" /\ SigningFileOf(key).type = HwSigningFileType(key[2])
      /\ SigningFileOf(key).path = ConstructBIP32PathOutput(key[2])
      /\ SigningFileOf(key).key = key
  BY DEF SigningFileOf
<1>6. SigningFileOf(key) \in SigningFileContent
  BY <1>1, OutputIsText, TypesOfKeyFiles DEF SigningFileOf, SigningFileContent
<1>7. IsSigningFile(SigningFileOf(key))
  BY <1>2, <1>3, <1>4, <1>5 DEF IsSigningFile, FileTypeMagicOk
<1>8. ParsedKey(SigningFileOf(key)) = key
  BY <1>1, <1>2, <1>5 DEF ParsedKey
<1> QED
  BY <1>6, <1>7, <1>8

\* A verification key file has the type it should have.
LEMMA VerificationKeyTyped ==
  ASSUME NEW key \in Keys
  PROVE  VerificationKeyOf(key) \in VerificationKeyContent
BY TypesOfKeyFiles DEF VerificationKeyOf, VerificationKeyContent

\* A file that is accepted yields a key.
LEMMA ParsedKeyTyped ==
  ASSUME NEW content \in Content, IsSigningFile(content)
  PROVE  ParsedKey(content) \in Keys
<1>1. content \in SigningFileContent
  BY DEF IsSigningFile, Content, None, Torn, VerificationKeyContent
<1>2. content.path \in PathTexts /\ content.key \in Keys
  BY <1>1 DEF SigningFileContent
<1> QED
  BY <1>2, ParsedIsPath DEF ParsedKey, Keys

\* The fields of command lines.
LEMMA KeyGenJobTyped ==
  ASSUME NEW j \in KeyGenJobs
  PROVE  /\ j.cmd = "keygen" /\ j.paths \in Seq(PathTexts) /\ j.hws \in Seq(Files)
         /\ j.vkeys \in Seq(Files) /\ j.derivation \in Derivations
         /\ j \notin VKeyJobs /\ j # NoJob
<1>1. j \in [cmd: {"keygen"}, paths: Seq(PathTexts), hws: Seq(Files), vkeys: Seq(Files),
             derivation: Derivations]
  BY KeyGenConstants
<1>2. \A k \in VKeyJobs : k.cmd = "vkey"
  BY KeyGenConstants
<1> QED
  BY <1>1, <1>2 DEF NoJob

\* The same for key verification-key.
LEMMA VKeyJobTyped ==
  ASSUME NEW j \in VKeyJobs
  PROVE  j.cmd = "vkey" /\ j.hws \in Files /\ j.vkey \in Files /\ j \notin KeyGenJobs /\ j # NoJob
<1>1. j \in [cmd: {"vkey"}, hws: Files, vkey: Files]
  BY KeyGenConstants
<1>2. \A k \in KeyGenJobs : k.cmd = "keygen"
  BY KeyGenConstants
<1> QED
  BY <1>1, <1>2 DEF NoJob

-----------------------------------------------------------------------------
(* Type correctness *)

\* What TypeOK says of one run.
RunOK(r) ==
  /\ pc[r] = "wait" => job[r] # NoJob
  /\ pc[r] \in KeyGenPoints => job[r] \in KeyGenJobs
  /\ pc[r] \in {"hws", "vkey"} => ValidInputs(job[r])
  /\ pc[r] = "derive" => job[r] \in VKeyJobs
  /\ job[r] \in VKeyJobs /\ pc[r] # "failed" => data[r] \in Keys
  /\ pc[r] \in Holding <=> dev[r] # NoDevice
  /\ open[r] => Writing(r) /\ HasLabel(KeyNow(r)[2])

Functions ==
  /\ fs \in [Files -> Content]
  /\ pc \in [Runs -> Points]
  /\ job \in [Runs -> KeyGenJobs \cup VKeyJobs \cup {NoJob}]
  /\ dev \in [Runs -> Devices \cup {NoDevice}]
  /\ data \in [Runs -> Keys \cup {NoKey}]
  /\ idx \in [Runs -> Nat \ {0}]
  /\ open \in [Runs -> BOOLEAN]

\* TypeOK in two parts.
LEMMA TypeOKParts == TypeOK <=> Functions /\ \A r \in Runs : RunOK(r)
BY DEF TypeOK, Functions, RunOK

\* A step of one run.
RunStep(r) ==
  \/ StartKeyGen(r) \/ StartVerificationKey(r) \/ Connect(r) \/ ConnectTimeout(r)
  \/ Die(r) \/ Export(r) \/ BadInputs(r) \/ NotLabelled(r) \/ Truncate(r)
  \/ FillSigningFile(r) \/ NextPass(r) \/ FillVerificationKey(r) \/ Finish(r)
  \/ FillDerived(r)

Same(q) ==
  /\ pc'[q] = pc[q] /\ job'[q] = job[q] /\ dev'[q] = dev[q] /\ data'[q] = data[q]
  /\ idx'[q] = idx[q] /\ open'[q] = open[q]

\* A step of one run leaves the others alone.
LEMMA OthersSame ==
  ASSUME Functions, NEW r \in Runs, RunStep(r), NEW q \in Runs, q # r
  PROVE  Same(q)
<1> USE DEF Functions, Same
<1>1. CASE StartKeyGen(r)
  BY <1>1 DEF StartKeyGen
<1>2. CASE StartVerificationKey(r)
  BY <1>2 DEF StartVerificationKey
<1>3. CASE Connect(r)
  BY <1>3 DEF Connect
<1>4. CASE ConnectTimeout(r)
  BY <1>4 DEF ConnectTimeout, Exit
<1>5. CASE Die(r)
  BY <1>5 DEF Die, Exit
<1>6. CASE Export(r)
  BY <1>6 DEF Export
<1>7. CASE BadInputs(r)
  BY <1>7 DEF BadInputs, Exit
<1>8. CASE NotLabelled(r)
  BY <1>8 DEF NotLabelled, Exit
<1>9. CASE Truncate(r)
  BY <1>9 DEF Truncate
<1>10. CASE FillSigningFile(r)
  BY <1>10 DEF FillSigningFile
<1>11. CASE NextPass(r)
  BY <1>11 DEF NextPass
<1>12. CASE FillVerificationKey(r)
  BY <1>12 DEF FillVerificationKey
<1>13. CASE Finish(r)
  BY <1>13 DEF Finish, Exit
<1>14. CASE FillDerived(r)
  BY <1>14 DEF FillDerived, Exit
<1> HIDE DEF Functions, Same
<1> QED
  BY <1>1, <1>2, <1>3, <1>4, <1>5, <1>6, <1>7, <1>8, <1>9, <1>10, <1>11, <1>12, <1>13,
     <1>14 DEF RunStep

\* What a run that is left alone has, it keeps.
LEMMA SameRunOK ==
  ASSUME NEW q \in Runs, Same(q), RunOK(q)
  PROVE  RunOK(q)'
BY DEF Same, RunOK, Writing, KeyNow, ExportedKey

\* A path of a job is exported as a key.
LEMMA ExportedKeyTyped ==
  ASSUME Functions, NEW r \in Runs, job[r] \in KeyGenJobs, dev[r] # NoDevice,
         NEW i \in DOMAIN job[r].paths
  PROVE  ExportedKey(r, i) \in Keys
<1>1. dev[r] \in Devices
  BY DEF Functions
<1>2. Seed[dev[r]][job[r].derivation] \in Seeds
  BY <1>1, KeyGenJobTyped, KeyGenConstants
<1>3. job[r].paths[i] \in PathTexts
  BY KeyGenJobTyped
<1> QED
  BY <1>2, <1>3, ParsedIsPath DEF ExportedKey, Keys

\* What a run is about to write is a key.
LEMMA KeyNowTyped ==
  ASSUME Functions, NEW r \in Runs, RunOK(r), Writing(r)
  PROVE  KeyNow(r) \in Keys
<1>1. CASE pc[r] = "derive"
  BY <1>1 DEF RunOK, KeyNow
<1>2. CASE pc[r] \in {"hws", "vkey"} /\ idx[r] \in DOMAIN job[r].paths
  <2>1. job[r] \in KeyGenJobs /\ dev[r] # NoDevice
    BY <1>2 DEF RunOK, KeyGenPoints, Holding
  <2> QED
    BY <1>2, <2>1, ExportedKeyTyped DEF KeyNow
<1> QED
  BY <1>1, <1>2 DEF Writing

\* The variables keep their types.
LEMMA FunctionsStep ==
  ASSUME Functions, NEW r \in Runs, RunOK(r), RunStep(r)
  PROVE  Functions'
<1> USE DEF Functions
<1>0. /\ "wait" \in Points /\ "failed" \in Points /\ "done" \in Points
      /\ "export" \in Points /\ "hws" \in Points /\ "vkey" \in Points
      /\ "derive" \in Points /\ Torn \in Content
  BY DEF Points, Holding, KeyGenPoints, Content
<1>1. CASE StartKeyGen(r)
  BY <1>0, <1>1 DEF StartKeyGen
<1>2. CASE StartVerificationKey(r)
  <2>1. PICK j \in VKeyJobs :
          /\ job' = [job EXCEPT ![r] = j]
          /\ IF IsSigningFile(fs[j.hws])
               THEN /\ data' = [data EXCEPT ![r] = ParsedKey(fs[j.hws])]
                    /\ pc' = [pc EXCEPT ![r] = "wait"]
               ELSE /\ pc' = [pc EXCEPT ![r] = "failed"]
                    /\ UNCHANGED data
    BY <1>2 DEF StartVerificationKey
  <2>2. IsSigningFile(fs[j.hws]) => ParsedKey(fs[j.hws]) \in Keys
    BY VKeyJobTyped, ParsedKeyTyped
  <2> QED
    BY <1>0, <1>2, <2>1, <2>2 DEF StartVerificationKey
<1>3. CASE Connect(r)
  BY <1>0, <1>3 DEF Connect
<1>4. CASE ConnectTimeout(r)
  BY <1>0, <1>4 DEF ConnectTimeout, Exit
<1>5. CASE Die(r)
  BY <1>0, <1>5 DEF Die, Exit
<1>6. CASE Export(r)
  BY <1>0, <1>6 DEF Export
<1>7. CASE BadInputs(r)
  BY <1>0, <1>7 DEF BadInputs, Exit
<1>8. CASE NotLabelled(r)
  BY <1>0, <1>8 DEF NotLabelled, Exit
<1>9. CASE Truncate(r)
  BY <1>0, <1>9 DEF Truncate
<1>10. CASE FillSigningFile(r)
  <2>1. Writing(r) /\ HasLabel(KeyNow(r)[2])
    BY <1>10 DEF RunOK, FillSigningFile
  <2>2. SigningFileOf(KeyNow(r)) \in Content
    BY <2>1, KeyNowTyped, SigningFileReadable DEF Content
  <2>3. idx[r] + 1 \in Nat \ {0}
    OBVIOUS
  <2>4. fs' \in [Files -> Content]
    BY <1>10, <2>2 DEF FillSigningFile
  <2> QED
    BY <1>10, <2>3, <2>4 DEF FillSigningFile
<1>11. CASE NextPass(r)
  BY <1>0, <1>11 DEF NextPass
<1>12. CASE FillVerificationKey(r)
  <2>1. Writing(r)
    BY <1>12 DEF RunOK, FillVerificationKey
  <2>2. VerificationKeyOf(KeyNow(r)) \in Content
    BY <2>1, KeyNowTyped, VerificationKeyTyped DEF Content
  <2>3. idx[r] + 1 \in Nat \ {0}
    OBVIOUS
  <2>4. fs' \in [Files -> Content]
    BY <1>12, <2>2 DEF FillVerificationKey
  <2> QED
    BY <1>12, <2>3, <2>4 DEF FillVerificationKey
<1>13. CASE Finish(r)
  BY <1>0, <1>13 DEF Finish, Exit
<1>14. CASE FillDerived(r)
  <2>1. Writing(r)
    BY <1>14 DEF RunOK, FillDerived
  <2>2. VerificationKeyOf(KeyNow(r)) \in Content
    BY <2>1, KeyNowTyped, VerificationKeyTyped DEF Content
  <2> QED
    BY <1>0, <1>14, <2>2 DEF FillDerived, Exit
<1> HIDE DEF Functions
<1> QED
  BY <1>1, <1>2, <1>3, <1>4, <1>5, <1>6, <1>7, <1>8, <1>9, <1>10, <1>11, <1>12, <1>13,
     <1>14 DEF RunStep

\* A run that exits has nothing left to keep.
LEMMA ExitRunOK ==
  ASSUME Functions, NEW r \in Runs, RunOK(r), NEW code \in {"done", "failed"},
         Exit(r, code), job' = job, data' = data,
         code = "failed" \/ pc[r] # "failed"
  PROVE  RunOK(r)'
<1>1. pc'[r] = code /\ dev'[r] = NoDevice /\ open'[r] = FALSE
  BY DEF Exit, Functions
<1> QED
  BY <1>1 DEF RunOK, KeyGenPoints, Holding

\* The run that takes the step keeps its part of TypeOK.
LEMMA OwnRunOK ==
  ASSUME Functions, NEW r \in Runs, RunOK(r), RunStep(r)
  PROVE  RunOK(r)'
<1> USE DEF Functions, KeyGenPoints, Holding
<1>1. CASE StartKeyGen(r)
  <2>1. pc'[r] = "wait" /\ job'[r] \in KeyGenJobs /\ dev'[r] = dev[r] /\ open'[r] = open[r]
    BY <1>1 DEF StartKeyGen
  <2>2. pc[r] = "idle" /\ ~open[r] /\ dev[r] = NoDevice
    BY <1>1 DEF StartKeyGen, RunOK, Writing
  <2>3. job'[r] # NoJob /\ job'[r] \notin VKeyJobs
    BY <2>1, KeyGenJobTyped
  <2> QED
    BY <2>1, <2>2, <2>3 DEF RunOK
<1>2. CASE StartVerificationKey(r)
  <2>1. PICK j \in VKeyJobs :
          /\ job' = [job EXCEPT ![r] = j]
          /\ IF IsSigningFile(fs[j.hws])
               THEN /\ data' = [data EXCEPT ![r] = ParsedKey(fs[j.hws])]
                    /\ pc' = [pc EXCEPT ![r] = "wait"]
               ELSE /\ pc' = [pc EXCEPT ![r] = "failed"]
                    /\ UNCHANGED data
    BY <1>2 DEF StartVerificationKey
  <2>2. IsSigningFile(fs[j.hws]) => ParsedKey(fs[j.hws]) \in Keys
    BY VKeyJobTyped, ParsedKeyTyped
  <2>3. job'[r] = j /\ j # NoJob /\ dev'[r] = dev[r] /\ open'[r] = open[r]
    BY <1>2, <2>1, VKeyJobTyped DEF StartVerificationKey
  <2>4. pc[r] = "idle" /\ ~open[r] /\ dev[r] = NoDevice
    BY <1>2 DEF StartVerificationKey, RunOK, Writing
  <2>5. (pc'[r] = "wait" /\ data'[r] \in Keys) \/ pc'[r] = "failed"
    BY <2>1, <2>2
  <2> QED
    BY <2>3, <2>4, <2>5 DEF RunOK
<1>3. CASE Connect(r)
  <2>1. pc[r] = "wait" /\ ~open[r] /\ job[r] # NoJob
    BY <1>3 DEF Connect, RunOK, Writing
  <2>2. dev'[r] \in Devices /\ dev'[r] # NoDevice
    BY <1>3, KeyGenConstants DEF Connect
  <2>3. pc'[r] = IF job[r].cmd = "keygen" THEN "export" ELSE "derive"
    BY <1>3 DEF Connect
  <2>4. (job[r] \in KeyGenJobs /\ job[r].cmd = "keygen")
          \/ (job[r] \in VKeyJobs /\ job[r].cmd = "vkey")
    BY <2>1, KeyGenJobTyped, VKeyJobTyped
  <2>5. job'[r] = job[r] /\ data'[r] = data[r] /\ open'[r] = open[r]
    BY <1>3 DEF Connect
  <2> QED
    BY <2>1, <2>2, <2>3, <2>4, <2>5 DEF RunOK
<1>4. CASE ConnectTimeout(r)
  BY <1>4, ExitRunOK DEF ConnectTimeout
<1>5. CASE Die(r)
  BY <1>5, ExitRunOK DEF Die
<1>6. CASE Export(r)
  <2>1. pc[r] = "export" /\ ~open[r] /\ ValidInputs(job[r])
    BY <1>6 DEF Export, RunOK, Writing
  <2>2. pc'[r] = "hws" /\ job' = job /\ dev' = dev /\ data' = data /\ open' = open
    BY <1>6 DEF Export
  <2> QED
    BY <2>1, <2>2 DEF RunOK
<1>7. CASE BadInputs(r)
  BY <1>7, ExitRunOK DEF BadInputs
<1>8. CASE NotLabelled(r)
  BY <1>8, ExitRunOK DEF NotLabelled
<1>9. CASE Truncate(r)
  <2>1. Writing(r) /\ HasLabel(KeyNow(r)[2])
    BY <1>9 DEF Truncate
  <2>2. pc' = pc /\ job' = job /\ dev' = dev /\ data' = data /\ idx' = idx
    BY <1>9 DEF Truncate
  <2> QED
    BY <2>1, <2>2 DEF RunOK, Writing, KeyNow, ExportedKey
<1>10. CASE FillSigningFile(r)
  <2>1. open'[r] = FALSE /\ pc' = pc /\ job' = job /\ dev' = dev /\ data' = data
    BY <1>10 DEF FillSigningFile
  <2> QED
    BY <2>1 DEF RunOK
<1>11. CASE NextPass(r)
  <2>1. pc[r] = "hws" /\ ~open[r]
    BY <1>11 DEF NextPass
  <2>2. pc'[r] = "vkey" /\ job' = job /\ dev' = dev /\ data' = data /\ open' = open
    BY <1>11 DEF NextPass
  <2> QED
    BY <2>1, <2>2 DEF RunOK
<1>12. CASE FillVerificationKey(r)
  <2>1. open'[r] = FALSE /\ pc' = pc /\ job' = job /\ dev' = dev /\ data' = data
    BY <1>12 DEF FillVerificationKey
  <2> QED
    BY <2>1 DEF RunOK
<1>13. CASE Finish(r)
  BY <1>13, ExitRunOK DEF Finish
<1>14. CASE FillDerived(r)
  BY <1>14, ExitRunOK DEF FillDerived
<1> HIDE DEF Functions, KeyGenPoints, Holding
<1> QED
  BY <1>1, <1>2, <1>3, <1>4, <1>5, <1>6, <1>7, <1>8, <1>9, <1>10, <1>11, <1>12, <1>13,
     <1>14 DEF RunStep

\* At the start no run has anything.
LEMMA TypeInit == Init => TypeOK
<1> SUFFICES ASSUME Init PROVE TypeOK
  OBVIOUS
<1>1. Functions
  BY KeyGenConstants DEF Init, Functions, Points, Content
<1>2. ASSUME NEW r \in Runs PROVE RunOK(r)
  <2>1. NoJob \notin VKeyJobs
    BY VKeyJobTyped
  <2> QED
    BY <2>1 DEF Init, RunOK, KeyGenPoints, Holding
<1> QED
  BY <1>1, <1>2, TypeOKParts

\* Every step keeps TypeOK.
LEMMA TypeStep == TypeOK /\ [Next]_vars => TypeOK'
<1> SUFFICES ASSUME TypeOK, [Next]_vars PROVE TypeOK'
  OBVIOUS
<1>1. Functions /\ \A r \in Runs : RunOK(r)
  BY TypeOKParts
<1>2. ASSUME NEW r \in Runs, RunStep(r) PROVE TypeOK'
  <2>1. Functions'
    BY <1>1, <1>2, FunctionsStep
  <2>2. ASSUME NEW q \in Runs PROVE RunOK(q)'
    BY <1>1, <1>2, OwnRunOK, OthersSame, SameRunOK
  <2> QED
    BY <2>1, <2>2 DEF TypeOK, Functions, RunOK
<1>3. CASE UNCHANGED vars
  BY <1>3 DEF vars, TypeOK, Writing, KeyNow, ExportedKey
<1> QED
  BY <1>2, <1>3 DEF Next, RunStep

\* Types are kept: in particular a run writes only keys that have a label, from a command
\* line whose files were counted, while it holds a device.
THEOREM TypeCorrect == Spec => []TypeOK
<1> QED
  BY TypeInit, TypeStep, PTL DEF Spec

-----------------------------------------------------------------------------
(* What the files hold *)

\* Writing a file changes that file alone.
Puts(r, content) == fs' = [fs EXCEPT ![Target(r)] = content]

\* A step leaves the files alone or writes one, of a labelled key.
LEMMA FileSteps ==
  ASSUME Functions, NEW r \in Runs, RunOK(r), RunStep(r)
  PROVE  \/ fs' = fs
         \/ Puts(r, Torn) /\ Truncate(r)
         \/ Writing(r) /\ HasLabel(KeyNow(r)[2]) /\
              (\/ Puts(r, SigningFileOf(KeyNow(r))) /\ FillSigningFile(r)
               \/ Puts(r, VerificationKeyOf(KeyNow(r))) /\ FillVerificationKey(r)
               \/ Puts(r, VerificationKeyOf(KeyNow(r))) /\ FillDerived(r))
<1>1. ASSUME open[r] PROVE Writing(r) /\ HasLabel(KeyNow(r)[2])
  BY <1>1 DEF RunOK
<1>2. CASE Truncate(r)
  BY <1>2 DEF Truncate, Puts
<1>3. CASE FillSigningFile(r)
  <2>1. open[r] /\ Puts(r, SigningFileOf(KeyNow(r)))
    BY <1>3 DEF FillSigningFile, Puts
  <2> QED
    BY <1>1, <1>3, <2>1
<1>4. CASE FillVerificationKey(r)
  <2>1. open[r] /\ Puts(r, VerificationKeyOf(KeyNow(r)))
    BY <1>4 DEF FillVerificationKey, Puts
  <2> QED
    BY <1>1, <1>4, <2>1
<1>5. CASE FillDerived(r)
  <2>1. open[r] /\ Puts(r, VerificationKeyOf(KeyNow(r)))
    BY <1>5 DEF FillDerived, Puts
  <2> QED
    BY <1>1, <1>5, <2>1
<1>6. CASE ~(Truncate(r) \/ FillSigningFile(r) \/ FillVerificationKey(r) \/ FillDerived(r))
  BY <1>6 DEF RunStep, StartKeyGen, StartVerificationKey, Connect, ConnectTimeout, Die,
     Export, BadInputs, NotLabelled, NextPass, Finish
<1> QED
  BY <1>2, <1>3, <1>4, <1>5, <1>6

\* What can be said of each single file: a signing file holds the key of its path and is
\* readable unless it was there at first; a verification key file is the one of its key.
FileOK(f) ==
  /\ fs[f].kind = "hws" => ParsedKey(fs[f]) = fs[f].key
  /\ fs[f].kind = "hws" /\ fs[f] # InitialFiles[f] => IsSigningFile(fs[f])
  /\ fs[f].kind = "vkey" => fs[f] = VerificationKeyOf(fs[f].key)

FilesOK == \A f \in Files : FileOK(f)

\* Files that were there before are fine.
LEMMA FilesInit == Init => FilesOK
<1> SUFFICES ASSUME Init, NEW f \in Files PROVE FileOK(f)
  BY DEF FilesOK
<1>1. fs[f] = InitialFiles[f] /\ InitialFiles[f] \in {None} \cup SigningFileContent
  BY KeyGenConstants DEF Init
<1>2. CASE fs[f] = None
  BY <1>2 DEF FileOK, None
<1>3. CASE fs[f] # None
  <2>1. fs[f] \in SigningFileContent /\ fs[f].key[2] = ParseBIP32Path(fs[f].path)
    BY <1>1, <1>3, KeyGenConstants
  <2>2. fs[f].kind = "hws" /\ fs[f].key \in Keys
    BY <2>1 DEF SigningFileContent
  <2>3. ParsedKey(fs[f]) = fs[f].key
    BY <2>1, <2>2 DEF ParsedKey, Keys
  <2> QED
    BY <1>1, <2>2, <2>3 DEF FileOK
<1> QED
  BY <1>2, <1>3

\* Every step leaves fine files.
LEMMA FilesStep == TypeOK /\ FilesOK /\ [Next]_vars => FilesOK'
<1> SUFFICES ASSUME TypeOK, FilesOK, [Next]_vars, NEW f \in Files PROVE FileOK(f)'
  BY DEF FilesOK
<1>1. Functions /\ (\A r \in Runs : RunOK(r)) /\ fs \in [Files -> Content]
  BY TypeOKParts DEF Functions
<1>2. ASSUME fs'[f] = fs[f] PROVE FileOK(f)'
  BY <1>2 DEF FilesOK, FileOK
<1>3. ASSUME NEW r \in Runs, RunStep(r) PROVE FileOK(f)'
  <2>1. ASSUME NEW content, Puts(r, content) PROVE fs'[f] \in {fs[f], content}
    BY <1>1, <2>1 DEF Puts
  <2>2. CASE fs' = fs
    BY <1>2, <2>2
  <2>3. CASE Puts(r, Torn)
    <3>1. CASE fs'[f] = Torn
      BY <3>1 DEF FileOK, Torn
    <3> QED
      BY <1>2, <2>1, <2>3, <3>1
  <2>4. CASE /\ Writing(r) /\ HasLabel(KeyNow(r)[2])
             /\ Puts(r, SigningFileOf(KeyNow(r)))
    <3>1. KeyNow(r) \in Keys
      BY <1>1, <2>4, KeyNowTyped
    <3> DEFINE content == SigningFileOf(KeyNow(r))
    <3>2. content.kind = "hws" /\ content.key = KeyNow(r)
      BY DEF SigningFileOf
    <3>3. IsSigningFile(content) /\ ParsedKey(content) = KeyNow(r)
      BY <2>4, <3>1, SigningFileReadable
    <3>4. fs'[f] \in {fs[f], content}
      BY <2>1, <2>4
    <3> HIDE DEF content
    <3>5. CASE fs'[f] = content
      <4>1. (fs'[f]).kind = "hws" /\ IsSigningFile(fs'[f]) /\ ParsedKey(fs'[f]) = (fs'[f]).key
        BY <3>2, <3>3, <3>5
      <4> QED
        BY <4>1 DEF FileOK, IsSigningFile, ParsedKey
    <3> QED
      BY <1>2, <3>4, <3>5
  <2>5. CASE Puts(r, VerificationKeyOf(KeyNow(r)))
    <3>1. CASE fs'[f] = VerificationKeyOf(KeyNow(r))
      <4>1. (fs'[f]).kind = "vkey" /\ (fs'[f]).key = KeyNow(r)
        BY <3>1 DEF VerificationKeyOf
      <4>2. fs'[f] = VerificationKeyOf((fs'[f]).key)
        BY <3>1, <4>1
      <4> QED
        BY <4>1, <4>2 DEF FileOK, VerificationKeyOf
    <3> QED
      BY <1>2, <2>1, <2>5, <3>1
  <2> QED
    BY <1>1, <1>3, <2>2, <2>3, <2>4, <2>5, FileSteps
<1>4. CASE UNCHANGED vars
  BY <1>2, <1>4 DEF vars
<1> QED
  BY <1>3, <1>4 DEF Next, RunStep

\* Fine files have the two properties.
LEMMA FilesOKGives == FilesOK => SigningFilesReadBack /\ OneVerificationKeyPerKey
<1> SUFFICES ASSUME FilesOK PROVE SigningFilesReadBack /\ OneVerificationKeyPerKey
  OBVIOUS
<1>1. SigningFilesReadBack
  BY DEF FilesOK, FileOK, SigningFilesReadBack
<1>2. ASSUME NEW f \in Files, NEW g \in Files, fs[f].kind = "vkey", fs[g].kind = "vkey",
             fs[f].key = fs[g].key
      PROVE  fs[f] = fs[g]
  <2>1. fs[f] = VerificationKeyOf(fs[f].key) /\ fs[g] = VerificationKeyOf(fs[g].key)
    BY <1>2 DEF FilesOK, FileOK
  <2> QED
    BY <1>2, <2>1
<1> QED
  BY <1>1, <1>2 DEF OneVerificationKeyPerKey

\* All signing files that the tool writes can be read back, with the path of their key,
\* whatever the paths are.
THEOREM SigningFilesAreReadBack == Spec => []SigningFilesReadBack
<1> QED
  BY TypeInit, TypeStep, FilesInit, FilesStep, FilesOKGives, PTL DEF Spec

\* However a verification key file came about, there is one content for a key.
THEOREM VerificationKeysAreUnique == Spec => []OneVerificationKeyPerKey
<1> QED
  BY TypeInit, TypeStep, FilesInit, FilesStep, FilesOKGives, PTL DEF Spec

-----------------------------------------------------------------------------
(* The files of a bulk export *)

HwsWritten(r, i) ==
  /\ HasLabel(ExportedKey(r, i)[2])
  /\ fs[job[r].hws[i]] = SigningFileOf(ExportedKey(r, i))

VKeyWritten(r, i) == fs[job[r].vkeys[i]] = VerificationKeyOf(ExportedKey(r, i))

\* The loop invariants of the two passes.
HwsPass(r) == \A i \in DOMAIN job[r].paths : i < idx[r] => HwsWritten(r, i)

VKeyPass(r) ==
  /\ \A i \in DOMAIN job[r].paths : HwsWritten(r, i)
  /\ \A i \in DOMAIN job[r].paths : i < idx[r] => VKeyWritten(r, i)

PassOK(r) ==
  /\ pc[r] = "export" => idx[r] = 1
  /\ pc[r] \in {"idle", "wait"} => idx[r] = 1
  /\ pc[r] = "hws" /\ DistinctOutFiles(job[r]) => HwsPass(r)
  /\ pc[r] = "vkey" /\ DistinctOutFiles(job[r]) => VKeyPass(r)

PassesOK == \A r \in Runs : PassOK(r)

\* The indexes of the three lists of a job that was checked are the same.
LEMMA ListsAligned ==
  ASSUME NEW j \in KeyGenJobs, ValidInputs(j)
  PROVE  /\ DOMAIN j.paths = 1..Len(j.paths) /\ Len(j.paths) \in Nat
         /\ DOMAIN j.hws = DOMAIN j.paths /\ DOMAIN j.vkeys = DOMAIN j.paths
         /\ \A i \in DOMAIN j.paths : j.hws[i] \in Files /\ j.vkeys[i] \in Files
<1>1. /\ DOMAIN j.paths = 1..Len(j.paths) /\ Len(j.paths) \in Nat
      /\ DOMAIN j.hws = 1..Len(j.hws) /\ DOMAIN j.vkeys = 1..Len(j.vkeys)
      /\ j.hws \in [1..Len(j.hws) -> Files] /\ j.vkeys \in [1..Len(j.vkeys) -> Files]
  BY KeyGenJobTyped, SeqIsFunction
<1> QED
  BY <1>1 DEF ValidInputs

\* With different files, no index shares a file with another.
LEMMA FilesApart ==
  ASSUME NEW j \in KeyGenJobs, ValidInputs(j), DistinctOutFiles(j),
         NEW i \in DOMAIN j.paths, NEW k \in DOMAIN j.paths
  PROVE  /\ i # k => j.hws[i] # j.hws[k] /\ j.vkeys[i] # j.vkeys[k]
         /\ j.hws[i] # j.vkeys[k]
BY ListsAligned DEF DistinctOutFiles, Distinct, Elements

\* A run writes the files of its command line.
LEMMA TargetWritten ==
  ASSUME TypeOK, NEW r \in Runs, Writing(r)
  PROVE  Target(r) \in Written(job[r]) /\ dev[r] # NoDevice
<1>1. Functions /\ RunOK(r)
  BY TypeOKParts
<1>2. dev[r] # NoDevice
  BY <1>1 DEF RunOK, Writing, Holding, KeyGenPoints
<1>3. CASE pc[r] = "derive"
  <2>1. job[r].cmd = "vkey"
    BY <1>1, <1>3, VKeyJobTyped DEF RunOK
  <2> QED BY <1>2, <1>3, <2>1 DEF Target, Written
<1>4. CASE pc[r] \in {"hws", "vkey"}
  <2>1. job[r] \in KeyGenJobs /\ ValidInputs(job[r]) /\ idx[r] \in DOMAIN job[r].paths
    BY <1>1, <1>4 DEF RunOK, KeyGenPoints, Writing
  <2>2. /\ job[r].hws[idx[r]] \in Written(job[r])
        /\ job[r].vkeys[idx[r]] \in Written(job[r])
    BY <2>1, KeyGenJobTyped, ListsAligned DEF Written, OutFiles, Elements
  <2> QED BY <1>2, <1>4, <2>2 DEF Target
<1> QED BY <1>3, <1>4 DEF Writing

\* Other runs' loops stay as they are: nobody else writes their files.
LEMMA OthersPassOK ==
  ASSUME TypeOK, Apart, NEW r \in Runs, RunStep(r), NEW q \in Runs, q # r, PassOK(q)
  PROVE  PassOK(q)'
<1>1. Functions /\ RunOK(r) /\ RunOK(q)
  BY TypeOKParts
<1>2. Same(q)
  BY <1>1, OthersSame
<1>3. CASE fs' = fs \/ pc[q] \notin {"hws", "vkey"}
  BY <1>2, <1>3 DEF Same, PassOK, HwsPass, VKeyPass, HwsWritten, VKeyWritten, ExportedKey
<1>4. CASE fs' # fs /\ pc[q] \in {"hws", "vkey"}
  <2>1. PICK content : Puts(r, content) /\ Writing(r)
    BY <1>1, <1>4, FileSteps DEF Truncate
  <2>2. Target(r) \notin Written(job[q])
    <3>1. dev[q] # NoDevice
      BY <1>1, <1>4 DEF RunOK, Holding, KeyGenPoints
    <3> QED BY <2>1, <3>1, TargetWritten DEF Apart
  <2>3. job[q] \in KeyGenJobs /\ ValidInputs(job[q])
    BY <1>1, <1>4 DEF RunOK, KeyGenPoints
  <2>4. \A i \in DOMAIN job[q].paths :
          /\ job[q].hws[i] \in Files \cap Written(job[q])
          /\ job[q].vkeys[i] \in Files \cap Written(job[q])
    BY <2>3, KeyGenJobTyped, ListsAligned DEF Written, OutFiles, Elements
  <2>5. \A i \in DOMAIN job[q].paths :
          /\ fs'[job[q].hws[i]] = fs[job[q].hws[i]]
          /\ fs'[job[q].vkeys[i]] = fs[job[q].vkeys[i]]
    BY <1>1, <2>1, <2>2, <2>4 DEF Puts, Functions
  <2>6. \A i : ExportedKey(q, i)' = ExportedKey(q, i)
    BY <1>2 DEF Same, ExportedKey
  <2>7. \A i \in DOMAIN job[q].paths :
          /\ HwsWritten(q, i) => HwsWritten(q, i)'
          /\ VKeyWritten(q, i) => VKeyWritten(q, i)'
    BY <1>2, <2>5, <2>6 DEF Same, HwsWritten, VKeyWritten
  <2> QED
    BY <1>2, <1>4, <2>7 DEF Same, PassOK, HwsPass, VKeyPass
<1> QED
  BY <1>3, <1>4

\* The loop of the run that takes the step.
LEMMA OwnPassOK ==
  ASSUME TypeOK, NEW r \in Runs, RunStep(r), PassOK(r)
  PROVE  PassOK(r)'
<1>1. Functions /\ RunOK(r)
  BY TypeOKParts
<1>2. CASE pc'[r] \in {"idle", "wait"} /\ idx' = idx /\ pc[r] \in {"idle", "wait"}
  BY <1>2 DEF PassOK
<1>3. CASE pc'[r] \in {"failed", "done", "derive"}
  BY <1>3 DEF PassOK
<1>4. CASE Connect(r) /\ pc'[r] = "export"
  BY <1>4 DEF Connect, PassOK
<1>5. CASE Export(r)
  <2>1. pc[r] = "export" /\ idx' = idx /\ pc'[r] = "hws" /\ job' = job
    BY <1>1, <1>5 DEF Export, Functions
  <2>2. job[r] \in KeyGenJobs /\ ValidInputs(job[r]) /\ idx[r] = 1
    BY <1>1, <1>5, <2>1 DEF RunOK, KeyGenPoints, Export, PassOK
  <2>3. \A i \in DOMAIN job[r].paths : ~(i < 1)
    BY <2>2, ListsAligned
  <2> QED
    BY <2>1, <2>2, <2>3 DEF PassOK, HwsPass
<1>6. ASSUME pc[r] \in {"hws", "vkey"}
      PROVE  /\ job[r] \in KeyGenJobs /\ ValidInputs(job[r])
             /\ Writing(r) => idx[r] \in DOMAIN job[r].paths
                              /\ KeyNow(r) = ExportedKey(r, idx[r])
             /\ idx[r] \in Nat \ {0}
  BY <1>1, <1>6 DEF RunOK, KeyGenPoints, Writing, KeyNow, Functions
<1>7. CASE Truncate(r) /\ pc[r] # "derive"
  <2>1. /\ pc[r] \in {"hws", "vkey"} /\ Writing(r) /\ Puts(r, Torn)
        /\ pc' = pc /\ job' = job /\ dev' = dev /\ idx' = idx
    BY <1>7 DEF Truncate, Writing, Puts
  <2>2. \A i : ExportedKey(r, i)' = ExportedKey(r, i)
    BY <2>1 DEF ExportedKey
  <2>3. SUFFICES ASSUME DistinctOutFiles(job[r])
                 PROVE  IF pc[r] = "hws" THEN HwsPass(r)' ELSE VKeyPass(r)'
    BY <2>1 DEF PassOK
  <2>4. CASE pc[r] = "hws"
    <3>1. Target(r) = job[r].hws[idx[r]]
      BY <2>4 DEF Target
    <3>2. ASSUME NEW i \in DOMAIN job[r].paths, i < idx[r] PROVE HwsWritten(r, i)'
      <4>1. HwsWritten(r, i)
        BY <2>3, <2>4, <3>2 DEF PassOK, HwsPass
      <4>2. job[r].hws[i] # Target(r)
        BY <1>6, <2>1, <2>3, <3>1, <3>2, FilesApart
      <4>3. fs'[job[r].hws[i]] = fs[job[r].hws[i]]
        BY <1>1, <4>2, <2>1, <1>6, ListsAligned DEF Puts, Functions
      <4> QED
        BY <2>1, <2>2, <4>1, <4>3 DEF HwsWritten
    <3> QED
      BY <2>1, <2>4, <3>2 DEF HwsPass
  <2>5. CASE pc[r] = "vkey"
    <3>1. Target(r) = job[r].vkeys[idx[r]]
      BY <2>5 DEF Target
    <3>2. ASSUME NEW i \in DOMAIN job[r].paths PROVE HwsWritten(r, i)'
      <4>1. HwsWritten(r, i)
        BY <2>3, <2>5, <3>2 DEF PassOK, VKeyPass
      <4>2. job[r].hws[i] # Target(r)
        BY <1>6, <2>1, <2>3, <3>1, <3>2, FilesApart
      <4>3. fs'[job[r].hws[i]] = fs[job[r].hws[i]]
        BY <1>1, <4>2, <2>1, <1>6, ListsAligned DEF Puts, Functions
      <4> QED
        BY <2>1, <2>2, <4>1, <4>3 DEF HwsWritten
    <3>3. ASSUME NEW i \in DOMAIN job[r].paths, i < idx[r] PROVE VKeyWritten(r, i)'
      <4>1. VKeyWritten(r, i)
        BY <2>3, <2>5, <3>3 DEF PassOK, VKeyPass
      <4>2. job[r].vkeys[i] # Target(r)
        BY <1>6, <2>1, <2>3, <3>1, <3>3, FilesApart
      <4>3. fs'[job[r].vkeys[i]] = fs[job[r].vkeys[i]]
        BY <1>1, <4>2, <2>1, <1>6, ListsAligned DEF Puts, Functions
      <4> QED
        BY <2>1, <2>2, <4>1, <4>3 DEF VKeyWritten
    <3> QED
      BY <2>1, <2>5, <3>2, <3>3 DEF VKeyPass
  <2> QED
    BY <2>1, <2>4, <2>5
<1>8. CASE FillSigningFile(r)
  <2>1. /\ pc[r] = "hws" /\ Writing(r) /\ HasLabel(KeyNow(r)[2])
        /\ Puts(r, SigningFileOf(KeyNow(r)))
        /\ pc' = pc /\ job' = job /\ dev' = dev
    BY <1>1, <1>8 DEF FillSigningFile, Puts, RunOK
  <2>2. idx'[r] = idx[r] + 1
    BY <1>1, <1>8 DEF FillSigningFile, Functions
  <2>3. \A i : ExportedKey(r, i)' = ExportedKey(r, i)
    BY <2>1 DEF ExportedKey
  <2>4. SUFFICES ASSUME DistinctOutFiles(job[r]),
                        NEW i \in DOMAIN job[r].paths, i < idx[r] + 1
                 PROVE  HwsWritten(r, i)'
    BY <2>1, <2>2 DEF PassOK, HwsPass
  <2>5. Target(r) = job[r].hws[idx[r]] /\ job[r].hws[i] \in Files
    BY <1>6, <2>1, ListsAligned DEF Target
  <2>6. CASE i = idx[r]
    <3>1. fs'[job[r].hws[i]] = SigningFileOf(ExportedKey(r, i))
      BY <1>1, <1>6, <2>1, <2>5, <2>6 DEF Puts, Functions
    <3>2. HasLabel(ExportedKey(r, i)[2])
      BY <1>6, <2>1, <2>6
    <3> QED
      BY <2>1, <2>3, <3>1, <3>2 DEF HwsWritten
  <2>7. CASE i # idx[r]
    <3>0. i < idx[r]
      BY <1>6, <2>1, <2>4, <2>7, ListsAligned
    <3>1. HwsWritten(r, i)
      BY <2>1, <2>4, <3>0 DEF PassOK, HwsPass
    <3>2. job[r].hws[i] # Target(r)
      BY <1>6, <2>1, <2>4, <2>5, <2>7, FilesApart
    <3>3. fs'[job[r].hws[i]] = fs[job[r].hws[i]]
      BY <1>1, <2>1, <2>5, <3>2 DEF Puts, Functions
    <3> QED
      BY <2>1, <2>3, <3>1, <3>3 DEF HwsWritten
  <2> QED
    BY <2>6, <2>7
<1>9. CASE NextPass(r)
  <2>1. /\ pc[r] = "hws" /\ fs' = fs /\ job' = job /\ dev' = dev
        /\ idx[r] \notin DOMAIN job[r].paths
        /\ pc'[r] = "vkey" /\ idx'[r] = 1
    BY <1>1, <1>9 DEF NextPass, Functions
  <2>2. \A i : ExportedKey(r, i)' = ExportedKey(r, i)
    BY <2>1 DEF ExportedKey
  <2>3. \A i \in DOMAIN job[r].paths : i < idx[r] /\ ~(i < 1)
    BY <1>6, <2>1, ListsAligned
  <2>4. DistinctOutFiles(job[r]) => \A i \in DOMAIN job[r].paths : HwsWritten(r, i)'
    BY <2>1, <2>2, <2>3 DEF PassOK, HwsPass, HwsWritten
  <2> QED
    BY <2>1, <2>3, <2>4 DEF PassOK, VKeyPass
<1>10. CASE FillVerificationKey(r)
  <2>1. /\ pc[r] = "vkey" /\ Writing(r) /\ Puts(r, VerificationKeyOf(KeyNow(r)))
        /\ pc' = pc /\ job' = job /\ dev' = dev
    BY <1>1, <1>10 DEF FillVerificationKey, Puts, RunOK
  <2>2. idx'[r] = idx[r] + 1
    BY <1>1, <1>10 DEF FillVerificationKey, Functions
  <2>3. \A i : ExportedKey(r, i)' = ExportedKey(r, i)
    BY <2>1 DEF ExportedKey
  <2>4. SUFFICES ASSUME DistinctOutFiles(job[r]) PROVE VKeyPass(r)'
    BY <2>1 DEF PassOK
  <2>5. VKeyPass(r)
    BY <2>1, <2>4 DEF PassOK
  <2>6. Target(r) = job[r].vkeys[idx[r]]
    BY <2>1 DEF Target
  <2>7. ASSUME NEW i \in DOMAIN job[r].paths PROVE HwsWritten(r, i)'
    <3>1. HwsWritten(r, i)
      BY <2>5, <2>7 DEF VKeyPass
    <3>2. job[r].hws[i] # Target(r) /\ job[r].hws[i] \in Files
      BY <1>6, <2>1, <2>4, <2>6, <2>7, FilesApart, ListsAligned
    <3>3. fs'[job[r].hws[i]] = fs[job[r].hws[i]]
      BY <1>1, <2>1, <3>2 DEF Puts, Functions
    <3> QED
      BY <2>1, <2>3, <3>1, <3>3 DEF HwsWritten
  <2>8. ASSUME NEW i \in DOMAIN job[r].paths, i < idx[r] + 1 PROVE VKeyWritten(r, i)'
    <3>0. job[r].vkeys[i] \in Files
      BY <1>6, <2>1, <2>8, ListsAligned
    <3>1. CASE i = idx[r]
      <4>1. fs'[job[r].vkeys[i]] = VerificationKeyOf(ExportedKey(r, i))
        BY <1>1, <1>6, <2>1, <2>6, <3>0, <3>1 DEF Puts, Functions
      <4> QED
        BY <2>1, <2>3, <4>1 DEF VKeyWritten
    <3>2. CASE i # idx[r]
      <4>0. i < idx[r]
        BY <1>6, <2>1, <2>8, <3>2, ListsAligned
      <4>1. VKeyWritten(r, i)
        BY <2>5, <4>0, <2>8 DEF VKeyPass
      <4>2. job[r].vkeys[i] # Target(r)
        BY <1>6, <2>1, <2>4, <2>6, <3>2, <2>8, FilesApart
      <4>3. fs'[job[r].vkeys[i]] = fs[job[r].vkeys[i]]
        BY <1>1, <2>1, <3>0, <4>2 DEF Puts, Functions
      <4> QED
        BY <2>1, <2>3, <4>1, <4>3 DEF VKeyWritten
    <3> QED
      BY <3>1, <3>2
  <2> QED
    BY <2>1, <2>2, <2>7, <2>8 DEF VKeyPass
<1>11. CASE StartKeyGen(r) \/ StartVerificationKey(r) \/ Connect(r)
  <2>1. CASE Connect(r)
    <3>1. pc'[r] \in {"export", "derive"}
      BY <1>1, <2>1 DEF Connect, Functions
    <3> QED
      BY <1>3, <1>4, <2>1, <3>1
  <2>2. CASE StartKeyGen(r)
    <3>1. pc'[r] = "wait" /\ idx' = idx /\ pc[r] = "idle"
      BY <1>1, <2>2 DEF StartKeyGen, Functions
    <3> QED
      BY <1>2, <3>1
  <2>3. CASE StartVerificationKey(r)
    <3>1. pc'[r] \in {"wait", "failed"} /\ idx' = idx /\ pc[r] = "idle"
      BY <1>1, <2>3 DEF StartVerificationKey, Functions
    <3> QED
      BY <1>2, <1>3, <3>1
  <2> QED
    BY <1>11, <2>1, <2>2, <2>3
<1>12. CASE \/ ConnectTimeout(r) \/ Die(r) \/ BadInputs(r) \/ NotLabelled(r) \/ Finish(r)
            \/ FillDerived(r)
  <2>1. pc'[r] \in {"failed", "done"}
    BY <1>1, <1>12 DEF ConnectTimeout, Die, BadInputs, NotLabelled, Finish, FillDerived,
       Exit, Functions
  <2> QED
    BY <1>3, <2>1
<1>13. CASE Truncate(r) /\ pc[r] = "derive"
  <2>1. pc'[r] = "derive"
    BY <1>13 DEF Truncate
  <2> QED
    BY <1>3, <2>1
<1> QED
  BY <1>5, <1>7, <1>8, <1>9, <1>10, <1>11, <1>12, <1>13 DEF RunStep

\* No loop has begun at the start.
LEMMA PassInit == Init => PassesOK
BY DEF Init, PassesOK, PassOK

\* Every step keeps the loop invariants.
LEMMA PassStep == TypeOK /\ Apart /\ PassesOK /\ [Next]_vars => PassesOK'
<1> SUFFICES ASSUME TypeOK, Apart, PassesOK, [Next]_vars PROVE PassesOK'
  OBVIOUS
<1>1. ASSUME NEW r \in Runs, RunStep(r), NEW q \in Runs PROVE PassOK(q)'
  BY <1>1, OwnPassOK, OthersPassOK DEF PassesOK
<1>2. CASE UNCHANGED vars
  BY <1>2 DEF vars, PassesOK, PassOK, HwsPass, VKeyPass, HwsWritten, VKeyWritten,
     ExportedKey
<1> QED
  BY <1>1, <1>2 DEF PassesOK, Next, RunStep

\* The loop invariant of the second pass gives the property.
LEMMA PassesGiveSigningFilesFirst == PassesOK => SigningFilesFirst
<1> SUFFICES ASSUME PassesOK, NEW r \in Runs, pc[r] = "vkey", DistinctOutFiles(job[r]),
                    NEW i \in DOMAIN job[r].paths
             PROVE  fs[job[r].hws[i]] = SigningFileOf(ExportedKey(r, i))
  BY DEF SigningFilesFirst
<1>1. VKeyPass(r)
  BY DEF PassesOK, PassOK
<1> QED
  BY <1>1 DEF VKeyPass, HwsWritten

\* When the second pass ends, all pairs are in place.
LEMMA FinishLeavesPairs ==
  ASSUME TypeOK, PassesOK, [Next]_vars, NEW r \in Runs, pc[r] = "vkey", pc'[r] = "done",
         DistinctOutFiles(job[r]), NEW i \in DOMAIN job[r].paths
  PROVE  /\ IsSigningFile(fs'[job[r].hws[i]])
         /\ fs'[job[r].vkeys[i]] = VerificationKeyOf(ParsedKey(fs'[job[r].hws[i]]))
<1>1. Functions /\ RunOK(r)
  BY TypeOKParts
<1>2. PICK q \in Runs : RunStep(q)
  BY DEF Next, RunStep, vars
<1>3. q = r
  BY <1>1, <1>2, OthersSame DEF Same
<1>4. Finish(r)
  <2>1. CASE Exit(r, "failed") 
    BY <1>1, <2>1 DEF Exit, Functions
  <2>2. CASE Truncate(r) \/ FillVerificationKey(r)
    BY <2>2 DEF Truncate, FillVerificationKey
  <2> QED
    BY <1>2, <1>3, <2>1, <2>2 DEF RunStep, StartKeyGen, StartVerificationKey, Connect,
       ConnectTimeout, Die, Export, BadInputs, NotLabelled, FillSigningFile, NextPass,
       FillDerived
<1>5. fs' = fs /\ idx[r] \notin DOMAIN job[r].paths /\ dev[r] # NoDevice
  BY <1>1, <1>4 DEF Finish, RunOK, Holding, KeyGenPoints
<1>6. job[r] \in KeyGenJobs /\ ValidInputs(job[r]) /\ idx[r] \in Nat \ {0}
  BY <1>1 DEF RunOK, KeyGenPoints, Functions
<1>7. i < idx[r]
  BY <1>5, <1>6, ListsAligned
<1>8. HwsWritten(r, i) /\ VKeyWritten(r, i)
  BY <1>7 DEF PassesOK, PassOK, VKeyPass
<1>9. ExportedKey(r, i) \in Keys
  BY <1>1, <1>5, <1>6, ExportedKeyTyped
<1> QED
  BY <1>5, <1>8, <1>9, SigningFileReadable DEF HwsWritten, VKeyWritten

\* While runs keep apart, all signing files of a bulk export are in place before the first
\* verification key is.
THEOREM SigningFilesComeFirst == Spec /\ []Apart => []SigningFilesFirst
BY TypeInit, TypeStep, PassInit, PassStep, PassesGiveSigningFilesFirst, PTL DEF Spec

\* While runs keep apart, a bulk export that succeeds leaves a readable signing file and
\* the verification key that belongs to it, for every path.
THEOREM BulkExportLeavesPairs == Spec /\ []Apart => SuccessLeavesPairs
<1>1. TypeOK /\ PassesOK /\ [Next]_vars =>
        [\A r \in Runs :
           pc[r] = "vkey" /\ pc'[r] = "done" /\ DistinctOutFiles(job[r]) =>
             \A i \in DOMAIN job[r].paths :
               /\ IsSigningFile(fs'[job[r].hws[i]])
               /\ fs'[job[r].vkeys[i]] =
                    VerificationKeyOf(ParsedKey(fs'[job[r].hws[i]]))]_vars
  BY FinishLeavesPairs
<1> QED
  BY <1>1, TypeInit, TypeStep, PassInit, PassStep, PTL DEF Spec, SuccessLeavesPairs

-----------------------------------------------------------------------------
(* One device session *)

\* One run at most holds a device.
OneHolder == \A r, q \in Runs : dev[r] # NoDevice /\ dev[q] # NoDevice => r = q

\* No run holds anything at the start.
LEMMA HolderInit == Init => OneHolder
BY DEF Init, OneHolder

\* A run gets the device only when nobody holds it.
LEMMA HolderStep ==
  ASSUME OneSession
  PROVE  TypeOK /\ OneHolder /\ [Next]_vars => OneHolder'
<1> SUFFICES ASSUME TypeOK, OneHolder, [Next]_vars PROVE OneHolder'
  OBVIOUS
<1>1. Functions
  BY TypeOKParts
<1>2. ASSUME NEW r \in Runs, Connect(r) PROVE OneHolder'
  <2>1. PICK d \in Devices : /\ \A q \in Runs : dev[q] # d
                             /\ dev' = [dev EXCEPT ![r] = d]
    BY <1>2 DEF Connect
  <2>2. \A q \in Runs : dev[q] = NoDevice
    BY <1>1, <2>1 DEF Functions, OneSession
  <2> QED
    BY <1>1, <2>1, <2>2 DEF OneHolder, Functions
<1>3. ASSUME NEW r \in Runs, RunStep(r), ~Connect(r) PROVE OneHolder'
  <2>1. dev' = dev \/ dev' = [dev EXCEPT ![r] = NoDevice]
    BY <1>3 DEF RunStep, StartKeyGen, StartVerificationKey, ConnectTimeout, Die, Export,
       BadInputs, NotLabelled, Truncate, FillSigningFile, NextPass, FillVerificationKey,
       Finish, FillDerived, Exit
  <2> QED
    BY <1>1, <2>1 DEF OneHolder, Functions
<1>4. CASE UNCHANGED vars
  BY <1>4 DEF vars, OneHolder
<1> QED
  BY <1>2, <1>3, <1>4 DEF Next, RunStep

\* With a single device session nobody else writes while a run does, and both properties
\* hold whatever files are named.
THEOREM OneDeviceSuffices ==
  ASSUME OneSession
  PROVE  Spec => []SigningFilesFirst /\ SuccessLeavesPairs
<1>1. TypeOK /\ OneHolder /\ [Next]_vars => OneHolder'
  BY HolderStep
<1>2. OneHolder => Apart
  BY DEF OneHolder, Apart
<1>3. Spec => []Apart
  BY <1>1, <1>2, TypeInit, TypeStep, HolderInit, PTL DEF Spec
<1> QED BY <1>3, SigningFilesComeFirst, BulkExportLeavesPairs, PTL

-----------------------------------------------------------------------------
(* The commands end *)

StepsFor(j) == IF j.cmd = "keygen" THEN 4 * Len(j.paths) + 4 ELSE 3

\* The steps a run has left at most: two for each file still to be written, and those before,
\* between and after the passes.
StepsLeft(r) ==
  LET paths == Len(job[r].paths)
      opened == IF open[r] THEN 1 ELSE 0
  IN CASE pc[r] = "wait" -> StepsFor(job[r])
       [] pc[r] = "export" -> 4 * paths + 3
       [] pc[r] = "hws" -> 2 * (paths + 1 - idx[r]) + 2 * paths + 2 - opened
       [] pc[r] = "vkey" -> 2 * (paths + 1 - idx[r]) + 1 - opened
       [] pc[r] = "derive" -> 2 - opened
       [] OTHER -> 0

\* Each pass starts at the first path and ends after the last.
PassBounds(r) ==
  /\ pc[r] \in {"idle", "wait", "export"} => idx[r] = 1
  /\ pc[r] \in {"hws", "vkey"} => idx[r] <= Len(job[r].paths) + 1

\* A step of a run that has been started lowers the number of steps it has left; other runs'
\* steps leave it alone.
Progress(r) ==
  /\ StepsLeft(r) \in Nat
  /\ pc[r] # "idle" => Same(r) \/ StepsLeft(r)' < StepsLeft(r)

\* The paths of a command line are counted.
LEMMA PathsCounted ==
  ASSUME TypeOK, NEW r \in Runs
  PROVE  /\ pc[r] \in {"export", "hws", "vkey"} =>
              /\ Len(job[r].paths) \in Nat
              /\ DOMAIN job[r].paths = 1 .. Len(job[r].paths)
         /\ pc[r] = "wait" /\ job[r].cmd = "keygen" => Len(job[r].paths) \in Nat
         /\ idx[r] \in Nat \ {0} /\ open[r] \in BOOLEAN /\ pc[r] \in Points
         /\ open[r] => pc[r] \in {"hws", "vkey", "derive"}
         /\ open[r] /\ pc[r] \in {"hws", "vkey"} => idx[r] \in DOMAIN job[r].paths
<1>1. Functions /\ RunOK(r)
  BY TypeOKParts
<1>2. \A j \in KeyGenJobs : Len(j.paths) \in Nat /\ DOMAIN j.paths = 1 .. Len(j.paths)
  BY KeyGenJobTyped, SeqIsFunction
<1>3. \A j \in VKeyJobs : j.cmd # "keygen"
  BY VKeyJobTyped
<1>4. job[r] \in KeyGenJobs \cup VKeyJobs \cup {NoJob} /\ (pc[r] = "wait" => job[r] # NoJob)
  BY <1>1 DEF Functions, RunOK
<1> QED
  BY <1>1, <1>2, <1>3, <1>4 DEF Functions, RunOK, KeyGenPoints, Writing

\* The steps left are a number, zero only at the end or before the start.
LEMMA StepsCounted ==
  ASSUME TypeOK, NEW r \in Runs, PassBounds(r)
  PROVE  StepsLeft(r) \in Nat /\ (pc[r] \in Holding \cup {"wait"} => StepsLeft(r) > 0)
<1> DEFINE P == Len(job[r].paths)
<1>1. CASE pc[r] = "wait"
  <2>1. CASE job[r].cmd = "keygen"
    <3>1. P \in Nat /\ StepsLeft(r) = 4 * P + 4
      BY <1>1, <2>1, PathsCounted DEF StepsLeft, StepsFor
    <3> HIDE DEF P
    <3> QED BY <3>1
  <2>2. CASE job[r].cmd # "keygen"
    BY <1>1, <2>2 DEF StepsLeft, StepsFor
  <2> QED BY <2>1, <2>2
<1>2. CASE pc[r] = "export"
  <2>1. P \in Nat /\ StepsLeft(r) = 4 * P + 3
    BY <1>2, PathsCounted DEF StepsLeft
  <2> HIDE DEF P
  <2> QED BY <2>1
<1>3. CASE pc[r] \in {"hws", "vkey"}
  <2>1. P \in Nat /\ idx[r] \in Nat /\ idx[r] <= P + 1 /\ (open[r] => idx[r] <= P)
    BY <1>3, PathsCounted DEF PassBounds
  <2>2. \/ StepsLeft(r) = 2 * (P + 1 - idx[r]) + 2 * P + 2 - (IF open[r] THEN 1 ELSE 0)
        \/ StepsLeft(r) = 2 * (P + 1 - idx[r]) + 1 - (IF open[r] THEN 1 ELSE 0)
    BY <1>3 DEF StepsLeft
  <2> HIDE DEF P
  <2> QED BY <2>1, <2>2
<1>4. CASE pc[r] \notin {"wait", "export", "hws", "vkey"}
  BY <1>4 DEF StepsLeft, Holding, KeyGenPoints
<1> QED BY <1>1, <1>2, <1>3, <1>4

\* The step of a run that writes a file, or goes to the next pass.
LEMMA PassProgress ==
  ASSUME TypeOK, NEW r \in Runs, PassBounds(r), pc[r] \in {"hws", "vkey"},
         Truncate(r) \/ FillSigningFile(r) \/ NextPass(r) \/ FillVerificationKey(r)
  PROVE  StepsLeft(r)' < StepsLeft(r) /\ PassBounds(r)'
<1> DEFINE P == Len(job[r].paths)
           i == idx[r]
<1>0. Functions
  BY TypeOKParts
<1>1. /\ P \in Nat /\ DOMAIN job[r].paths = 1 .. P
      /\ idx[r] \in Nat \ {0} /\ idx[r] <= P + 1
      /\ open[r] => idx[r] \in DOMAIN job[r].paths
  BY PathsCounted DEF PassBounds
<1>2. CASE Truncate(r)
  <2>1. /\ job' = job /\ pc' = pc /\ idx' = idx /\ ~open[r] /\ open'[r]
    BY <1>0, <1>2 DEF Truncate, Functions
  <2>2. \E n \in Int : StepsLeft(r) = n /\ StepsLeft(r)' = n - 1
    <3>1. CASE pc[r] = "hws"
      <4>1. /\ StepsLeft(r) = 2 * (P + 1 - idx[r]) + 2 * P + 2
            /\ StepsLeft(r)' = 2 * (P + 1 - idx[r]) + 2 * P + 2 - 1
        BY <1>1, <2>1, <3>1 DEF StepsLeft
      <4> HIDE DEF P
      <4> QED BY <1>1, <4>1
    <3>2. CASE pc[r] = "vkey"
      <4>1. /\ StepsLeft(r) = 2 * (P + 1 - idx[r]) + 1
            /\ StepsLeft(r)' = 2 * (P + 1 - idx[r]) + 1 - 1
        BY <1>1, <2>1, <3>2 DEF StepsLeft
      <4> HIDE DEF P
      <4> QED BY <1>1, <4>1
    <3> QED BY <3>1, <3>2
  <2>3. PassBounds(r)'
    BY <2>1 DEF PassBounds
  <2> QED BY <2>2, <2>3
<1>3. CASE FillSigningFile(r)
  <2>1. /\ job' = job /\ pc' = pc /\ pc[r] = "hws" /\ idx'[r] = idx[r] + 1
        /\ open[r] /\ ~open'[r]
    BY <1>0, <1>3 DEF FillSigningFile, Functions
  <2>2. /\ StepsLeft(r) = 2 * (P + 1 - i) + 2 * P + 2 - 1
        /\ StepsLeft(r)' = 2 * (P + 1 - (i + 1)) + 2 * P + 2
    BY <1>1, <2>1 DEF StepsLeft
  <2>3. P \in Nat /\ i \in Nat /\ i <= P
    BY <1>1, <2>1
  <2>4. PassBounds(r)'
    BY <1>1, <2>1, <2>3 DEF PassBounds
  <2>5. StepsLeft(r)' < StepsLeft(r)
    <3> HIDE DEF P, i
    <3> QED BY <2>2, <2>3
  <2> QED BY <2>4, <2>5
<1>4. CASE FillVerificationKey(r)
  <2>1. /\ job' = job /\ pc' = pc /\ pc[r] = "vkey" /\ idx'[r] = idx[r] + 1
        /\ open[r] /\ ~open'[r]
    BY <1>0, <1>4 DEF FillVerificationKey, Functions
  <2>2. /\ StepsLeft(r) = 2 * (P + 1 - i) + 1 - 1
        /\ StepsLeft(r)' = 2 * (P + 1 - (i + 1)) + 1
    BY <1>1, <2>1 DEF StepsLeft
  <2>3. P \in Nat /\ i \in Nat /\ i <= P
    BY <1>1, <2>1
  <2>4. PassBounds(r)'
    BY <1>1, <2>1, <2>3 DEF PassBounds
  <2>5. StepsLeft(r)' < StepsLeft(r)
    <3> HIDE DEF P, i
    <3> QED BY <2>2, <2>3
  <2> QED BY <2>4, <2>5
<1>5. CASE NextPass(r)
  <2>1. /\ job' = job /\ pc[r] = "hws" /\ pc'[r] = "vkey" /\ idx'[r] = 1
        /\ ~open[r] /\ ~open'[r] /\ idx[r] \notin DOMAIN job[r].paths
    BY <1>0, <1>5 DEF NextPass, Functions
  <2>2. /\ StepsLeft(r) = 2 * (P + 1 - i) + 2 * P + 2
        /\ StepsLeft(r)' = 2 * (P + 1 - 1) + 1
    BY <1>1, <2>1 DEF StepsLeft
  <2>3. i = P + 1 /\ P \in Nat
    BY <1>1, <2>1
  <2>4. PassBounds(r)'
    BY <1>1, <2>1 DEF PassBounds
  <2>5. StepsLeft(r)' < StepsLeft(r)
    <3> HIDE DEF P, i
    <3> QED BY <2>2, <2>3
  <2> QED BY <2>4, <2>5
<1> QED BY <1>2, <1>3, <1>4, <1>5

\* The other steps of a run.
LEMMA OwnProgress ==
  ASSUME TypeOK, NEW r \in Runs, PassBounds(r), RunStep(r)
  PROVE  /\ pc[r] # "idle" => StepsLeft(r)' < StepsLeft(r)
         /\ PassBounds(r)'
<1> DEFINE P == Len(job[r].paths)
<1>0. Functions /\ RunOK(r)
  BY TypeOKParts
<1>1. StepsLeft(r) \in Nat /\ (pc[r] \in Holding \cup {"wait"} => StepsLeft(r) > 0)
  BY StepsCounted
<1>2. CASE pc'[r] \in {"failed", "done"} /\ pc[r] \in Holding \cup {"wait"}
  <2>1. StepsLeft(r)' = 0 /\ PassBounds(r)'
    BY <1>2 DEF StepsLeft, PassBounds
  <2> QED BY <1>1, <1>2, <2>1
<1>3. CASE StartKeyGen(r) \/ StartVerificationKey(r)
  <2>1. pc[r] = "idle" /\ idx' = idx /\ pc'[r] \in {"wait", "failed"}
    BY <1>0, <1>3 DEF StartKeyGen, StartVerificationKey, Functions
  <2> QED BY <2>1 DEF PassBounds
<1>4. CASE Connect(r)
  <2>1. /\ job' = job /\ idx' = idx /\ open' = open /\ pc[r] = "wait" /\ ~open[r]
        /\ pc'[r] = IF job[r].cmd = "keygen" THEN "export" ELSE "derive"
    BY <1>0, <1>4, PathsCounted DEF Connect, Functions
  <2>2. CASE job[r].cmd = "keygen"
    <3>1. StepsLeft(r) = 4 * P + 4 /\ StepsLeft(r)' = 4 * P + 3 /\ P \in Nat
      BY <2>1, <2>2, PathsCounted DEF StepsLeft, StepsFor
    <3>2. PassBounds(r)'
      BY <2>1, <2>2 DEF PassBounds
    <3> HIDE DEF P
    <3> QED BY <3>1, <3>2
  <2>3. CASE job[r].cmd # "keygen"
    BY <2>1, <2>3 DEF StepsLeft, StepsFor, PassBounds
  <2> QED BY <2>2, <2>3
<1>5. CASE Export(r)
  <2>1. /\ job' = job /\ idx' = idx /\ open' = open /\ pc[r] = "export" /\ pc'[r] = "hws"
        /\ ~open[r] /\ idx[r] = 1 /\ P \in Nat
    BY <1>0, <1>5, PathsCounted DEF Export, Functions, PassBounds
  <2>2. StepsLeft(r) = 4 * P + 3 /\ StepsLeft(r)' = 2 * (P + 1 - 1) + 2 * P + 2
    BY <2>1 DEF StepsLeft
  <2>3. PassBounds(r)'
    BY <2>1 DEF PassBounds
  <2> HIDE DEF P
  <2> QED BY <2>1, <2>2, <2>3
<1>6. CASE Truncate(r) /\ pc[r] = "derive"
  <2>1. pc' = pc /\ ~open[r] /\ open'[r]
    BY <1>0, <1>6 DEF Truncate, Functions
  <2> QED BY <1>6, <2>1 DEF StepsLeft, PassBounds
<1>7. CASE \/ ConnectTimeout(r) \/ Die(r) \/ BadInputs(r) \/ NotLabelled(r) \/ Finish(r)
           \/ FillDerived(r)
  <2>1. pc'[r] \in {"failed", "done"} /\ pc[r] \in Holding \cup {"wait"}
    BY <1>0, <1>7 DEF ConnectTimeout, Die, BadInputs, NotLabelled, Finish, FillDerived, Exit,
       Functions, Writing, Holding, KeyGenPoints
  <2> QED BY <1>2, <2>1
<1>8. CASE FillSigningFile(r) \/ NextPass(r) \/ FillVerificationKey(r)
  BY <1>8, PassProgress DEF FillSigningFile, NextPass, FillVerificationKey
<1>9. CASE Truncate(r) /\ pc[r] # "derive"
  BY <1>9, PassProgress DEF Truncate, Writing
<1> QED
  BY <1>3, <1>4, <1>5, <1>6, <1>7, <1>8, <1>9 DEF RunStep

\* A bulk export takes at most four steps and four per path, a derivation three, whatever paths
\* and files are named and whatever other runs do to the files: no pass goes on for ever.
THEOREM BoundedCommands == Spec => [][\A r \in Runs : Progress(r)]_vars
<1> DEFINE Bounds == \A r \in Runs : PassBounds(r)
<1>1. Init => Bounds
  BY DEF Init, PassBounds
<1>2. ASSUME TypeOK, Bounds, [Next]_vars
      PROVE  Bounds' /\ [\A r \in Runs : Progress(r)]_vars
  <2>1. CASE UNCHANGED vars
    BY <1>2, <2>1 DEF vars, PassBounds
  <2>2. ASSUME NEW r \in Runs, RunStep(r), NEW q \in Runs PROVE PassBounds(q)' /\ Progress(q)
    <3>1. StepsLeft(q) \in Nat
      BY <1>2, StepsCounted
    <3>2. CASE q = r
      BY <1>2, <2>2, <3>1, <3>2, OwnProgress DEF Progress
    <3>3. CASE q # r
      <4>1. Same(q)
        BY <1>2, <2>2, <3>3, OthersSame, TypeOKParts
      <4> QED BY <1>2, <3>1, <4>1 DEF Same, Progress, PassBounds
    <3> QED BY <3>2, <3>3
  <2> QED BY <1>2, <2>1, <2>2 DEF Next, RunStep
<1> HIDE DEF Bounds
<1> QED BY <1>1, <1>2, TypeInit, TypeStep, PTL DEF Spec
=============================================================================
