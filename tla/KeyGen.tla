-------------------------------- MODULE KeyGen --------------------------------
(***************************************************************************)
(* The commands that write key files, and the files they share:            *)
(*   address key-gen       lets the device export the keys at all paths    *)
(*                         given, writes all signing files, then all       *)
(*                         verification key files;                         *)
(*   key verification-key  writes the verification key file that belongs   *)
(*                         to a signing file, which it reads at startup.   *)
(* Both hold a device until they exit, the second without using it.        *)
(*                                                                         *)
(* A public key is the pair <<wallet seed, derivation path>>; which seed   *)
(* depends on the device and on the derivation type asked for.  Writing a  *)
(* file is two steps, truncate and fill; processes may die in between.     *)
(***************************************************************************)
EXTENDS HwPaths

CONSTANTS
  Runs,         \* invocations of the CLI
  Files,        \* file names
  Devices,      \* device sessions that can be open at the same time
  NoDevice,     \* the mark of a run that holds none
  Derivations,  \* derivation types
  Seeds,        \* wallet seeds
  Seed,         \* the seed of a device under a derivation type
  KeyGenJobs,   \* command lines of address key-gen
  VKeyJobs,     \* command lines of key verification-key
  InitialFiles  \* files that are there at first, of other origin

Keys == Seeds \X BIP32Paths

KeyTypes == [label: Labels, flavour: Flavours]

None == [kind |-> "none"]      \* no such file
Torn == [kind |-> "torn"]      \* truncated or partly written: not JSON
SigningFileContent == [kind: {"hws"}, type: KeyTypes, path: PathTexts, key: Keys]
VerificationKeyContent == [kind: {"vkey"}, type: KeyTypes, key: Keys]
Content == {None, Torn} \cup SigningFileContent \cup VerificationKeyContent

\* constructHwSigningKeyOutput, constructVerificationKeyOutput
SigningFileOf(key) ==
  [kind |-> "hws", type |-> HwSigningFileType(key[2]),
   path |-> ConstructBIP32PathOutput(key[2]), key |-> key]

VerificationKeyOf(key) ==
  [kind |-> "vkey", type |-> VerificationKeyType(key[2]), key |-> key]

\* parseHwSigningFile: a file it accepts, and the key and path it takes from it.
IsSigningFile(content) ==
  /\ content.kind = "hws"
  /\ FileTypeMagicOk(content.type, ClassifyPath(ParseBIP32Path(content.path)))

ParsedKey(content) == <<content.key[1], ParseBIP32Path(content.path)>>

ASSUME KeyGenConstants ==
  /\ NoDevice \notin Devices
  /\ Seed \in [Devices -> [Derivations -> Seeds]]
  /\ KeyGenJobs \subseteq
       [cmd: {"keygen"}, paths: Seq(PathTexts), hws: Seq(Files), vkeys: Seq(Files),
        derivation: Derivations]
  /\ VKeyJobs \subseteq [cmd: {"vkey"}, hws: Files, vkey: Files]
  /\ InitialFiles \in [Files -> {None} \cup SigningFileContent]
  /\ \A f \in Files : InitialFiles[f] # None =>
       InitialFiles[f].key[2] = ParseBIP32Path(InitialFiles[f].path)

VARIABLES
  fs,    \* content of each file
  pc,    \* where each run is
  job,   \* its parsed command line
  dev,   \* the device session it holds
  data,  \* key verification-key: the key of the signing file, parsed at startup
  idx,   \* address key-gen: the index of the path it is at
  open   \* whether it has truncated the file it is writing

vars == <<fs, pc, job, dev, data, idx, open>>

NoJob == [cmd |-> "none"]
NoKey == << >>

KeyGenPoints == {"export", "hws", "vkey"}
Holding == KeyGenPoints \cup {"derive"}
Points == {"idle", "wait", "done", "failed"} \cup Holding

Init ==
  /\ fs = InitialFiles
  /\ pc = [r \in Runs |-> "idle"]
  /\ job = [r \in Runs |-> NoJob]
  /\ dev = [r \in Runs |-> NoDevice]
  /\ data = [r \in Runs |-> NoKey]
  /\ idx = [r \in Runs |-> 1]
  /\ open = [r \in Runs |-> FALSE]

(***************************************************************************)
(* Process start and end.                                                  *)
(***************************************************************************)

StartKeyGen(r) ==
  /\ pc[r] = "idle"
  /\ \E j \in KeyGenJobs : job' = [job EXCEPT ![r] = j]
  /\ pc' = [pc EXCEPT ![r] = "wait"]
  /\ UNCHANGED <<fs, dev, data, idx, open>>

StartVerificationKey(r) ==
  /\ pc[r] = "idle"
  /\ \E j \in VKeyJobs :
       /\ job' = [job EXCEPT ![r] = j]
       /\ IF IsSigningFile(fs[j.hws])
            THEN /\ data' = [data EXCEPT ![r] = ParsedKey(fs[j.hws])]
                 /\ pc' = [pc EXCEPT ![r] = "wait"]
            ELSE /\ pc' = [pc EXCEPT ![r] = "failed"]
                 /\ UNCHANGED data
  /\ UNCHANGED <<fs, dev, idx, open>>

\* Mutant: a session that another run holds is taken as well.
ConnectShared(r) ==
  /\ pc[r] = "wait"
  /\ \E d \in Devices : dev' = [dev EXCEPT ![r] = d]
  /\ pc' = [pc EXCEPT ![r] = IF job[r].cmd = "keygen" THEN "export" ELSE "derive"]
  /\ UNCHANGED <<fs, job, data, idx, open>>

Connect(r) ==
  /\ pc[r] = "wait"
  /\ \E d \in Devices :
       /\ \A q \in Runs : dev[q] # d
       /\ dev' = [dev EXCEPT ![r] = d]
  /\ pc' = [pc EXCEPT ![r] = IF job[r].cmd = "keygen" THEN "export" ELSE "derive"]
  /\ UNCHANGED <<fs, job, data, idx, open>>

Exit(r, code) ==
  /\ pc' = [pc EXCEPT ![r] = code]
  /\ dev' = [dev EXCEPT ![r] = NoDevice]
  /\ open' = [open EXCEPT ![r] = FALSE]

ConnectTimeout(r) ==
  /\ pc[r] = "wait"
  /\ Exit(r, "failed")
  /\ UNCHANGED <<fs, job, data, idx>>

\* A kill, a write that fails, a user who rejects, a path the device refuses.
Die(r) ==
  /\ pc[r] \in Holding
  /\ Exit(r, "failed")
  /\ UNCHANGED <<fs, job, data, idx>>

(***************************************************************************)
(* address key-gen                                                         *)
(***************************************************************************)

\* validateKeyGenInputs
ValidInputs(j) ==
  /\ j.paths # << >>
  /\ Len(j.paths) = Len(j.hws)
  /\ Len(j.paths) = Len(j.vkeys)

\* Mutant: nobody counts the files.
ExportUncounted(r) ==
  /\ pc[r] = "export"
  /\ pc' = [pc EXCEPT ![r] = "hws"]
  /\ UNCHANGED <<fs, job, dev, data, idx, open>>

\* One call of the device exports all keys, labelled or not.
Export(r) ==
  /\ pc[r] = "export"
  /\ ValidInputs(job[r])
  /\ pc' = [pc EXCEPT ![r] = "hws"]
  /\ UNCHANGED <<fs, job, dev, data, idx, open>>

BadInputs(r) ==
  /\ pc[r] = "export"
  /\ ~ValidInputs(job[r])
  /\ Exit(r, "failed")
  /\ UNCHANGED <<fs, job, data, idx>>

ExportedKey(r, i) ==
  <<Seed[dev[r]][job[r].derivation], ParseBIP32Path(job[r].paths[i])>>

\* The key whose file is to be written now.
KeyNow(r) == IF pc[r] = "derive" THEN data[r] ELSE ExportedKey(r, idx[r])

Writing(r) ==
  pc[r] = "derive" \/ (pc[r] \in {"hws", "vkey"} /\ idx[r] \in DOMAIN job[r].paths)

\* The content is made before the file is opened, and the label of the path throws.
NotLabelled(r) ==
  /\ Writing(r)
  /\ ~open[r]
  /\ ~HasLabel(KeyNow(r)[2])
  /\ Exit(r, "failed")
  /\ UNCHANGED <<fs, job, data, idx>>

Target(r) ==
  CASE pc[r] = "hws" -> job[r].hws[idx[r]]
    [] pc[r] = "vkey" -> job[r].vkeys[idx[r]]
    [] pc[r] = "derive" -> job[r].vkey

Truncate(r) ==
  /\ Writing(r)
  /\ ~open[r]
  /\ HasLabel(KeyNow(r)[2])
  /\ fs' = [fs EXCEPT ![Target(r)] = Torn]
  /\ open' = [open EXCEPT ![r] = TRUE]
  /\ UNCHANGED <<pc, job, dev, data, idx>>

FillSigningFile(r) ==
  /\ pc[r] = "hws"
  /\ open[r]
  /\ fs' = [fs EXCEPT ![Target(r)] = SigningFileOf(KeyNow(r))]
  /\ open' = [open EXCEPT ![r] = FALSE]
  /\ idx' = [idx EXCEPT ![r] = @ + 1]
  /\ UNCHANGED <<pc, job, dev, data>>

\* Mutant: the verification key follows its signing file at once.
NextPassEarly(r) ==
  /\ pc[r] = "hws"
  /\ ~open[r]
  /\ idx[r] > 1
  /\ pc' = [pc EXCEPT ![r] = "vkey"]
  /\ idx' = [idx EXCEPT ![r] = 1]
  /\ UNCHANGED <<fs, job, dev, data, open>>

\* The second forEach starts when the first has ended.
NextPass(r) ==
  /\ pc[r] = "hws"
  /\ ~open[r]
  /\ idx[r] \notin DOMAIN job[r].paths
  /\ pc' = [pc EXCEPT ![r] = "vkey"]
  /\ idx' = [idx EXCEPT ![r] = 1]
  /\ UNCHANGED <<fs, job, dev, data, open>>

FillVerificationKey(r) ==
  /\ pc[r] = "vkey"
  /\ open[r]
  /\ fs' = [fs EXCEPT ![Target(r)] = VerificationKeyOf(KeyNow(r))]
  /\ open' = [open EXCEPT ![r] = FALSE]
  /\ idx' = [idx EXCEPT ![r] = @ + 1]
  /\ UNCHANGED <<pc, job, dev, data>>

Finish(r) ==
  /\ pc[r] = "vkey"
  /\ ~open[r]
  /\ idx[r] \notin DOMAIN job[r].paths
  /\ Exit(r, "done")
  /\ UNCHANGED <<fs, job, data, idx>>

(***************************************************************************)
(* key verification-key                                                    *)
(***************************************************************************)

\* Mutant: the type is the one of the signing file.
DeriveByFileType(r) ==
  /\ pc[r] = "derive"
  /\ open[r]
  /\ fs' = [fs EXCEPT ![Target(r)] =
              [VerificationKeyOf(KeyNow(r)) EXCEPT !.type = HwSigningFileType(KeyNow(r)[2])]]
  /\ Exit(r, "done")
  /\ UNCHANGED <<job, data, idx>>

FillDerived(r) ==
  /\ pc[r] = "derive"
  /\ open[r]
  /\ fs' = [fs EXCEPT ![Target(r)] = VerificationKeyOf(KeyNow(r))]
  /\ Exit(r, "done")
  /\ UNCHANGED <<job, data, idx>>

-----------------------------------------------------------------------------

Next ==
  \E r \in Runs :
    \/ StartKeyGen(r) \/ StartVerificationKey(r) \/ Connect(r) \/ ConnectTimeout(r)
    \/ Die(r) \/ Export(r) \/ BadInputs(r) \/ NotLabelled(r) \/ Truncate(r)
    \/ FillSigningFile(r) \/ NextPass(r) \/ FillVerificationKey(r) \/ Finish(r)
    \/ FillDerived(r)

Spec == Init /\ [][Next]_vars

-----------------------------------------------------------------------------

TypeOK ==
  /\ fs \in [Files -> Content]
  /\ pc \in [Runs -> Points]
  /\ job \in [Runs -> KeyGenJobs \cup VKeyJobs \cup {NoJob}]
  /\ dev \in [Runs -> Devices \cup {NoDevice}]
  /\ data \in [Runs -> Keys \cup {NoKey}]
  /\ idx \in [Runs -> Nat \ {0}]
  /\ open \in [Runs -> BOOLEAN]
  /\ \A r \in Runs :
       /\ pc[r] = "wait" => job[r] # NoJob
       /\ pc[r] \in KeyGenPoints => job[r] \in KeyGenJobs
       /\ pc[r] \in {"hws", "vkey"} => ValidInputs(job[r])
       /\ pc[r] = "derive" => job[r] \in VKeyJobs
       /\ job[r] \in VKeyJobs /\ pc[r] # "failed" => data[r] \in Keys
       /\ pc[r] \in Holding <=> dev[r] # NoDevice
       /\ open[r] => Writing(r) /\ HasLabel(KeyNow(r)[2])

\* Every signing file in place is one that the tool can read, except where an account key
\* or the like was put there by others, and is read back with the very path that its key
\* was exported for: the types, labels and paths that fileWriter.ts writes are the ones
\* parsers.ts expects, for all classes of paths.
SigningFilesReadBack ==
  \A f \in Files :
    fs[f].kind = "hws" /\ fs[f] # InitialFiles[f] =>
      /\ IsSigningFile(fs[f])
      /\ ParsedKey(fs[f]) = fs[f].key

\* There is one verification key file per key: exporting the key again, or deriving the
\* file from a signing file, of whatever origin, reproduces it.
OneVerificationKeyPerKey ==
  \A f, g \in Files :
    fs[f].kind = "vkey" /\ fs[g].kind = "vkey" /\ fs[f].key = fs[g].key => fs[f] = fs[g]

\* The files of an address key-gen are different files.
OutFiles(j) == Elements(j.hws) \cup Elements(j.vkeys)
Distinct(s) == \A i, k \in DOMAIN s : s[i] = s[k] => i = k
DistinctOutFiles(j) ==
  /\ Distinct(j.hws)
  /\ Distinct(j.vkeys)
  /\ Elements(j.hws) \cap Elements(j.vkeys) = {}

\* Nobody can make an address of a key that address key-gen has let out before all of its
\* signing files are in place: whenever it fails or is killed, a verification key it wrote
\* comes with the signing file to spend with.
SigningFilesFirst ==
  \A r \in Runs :
    pc[r] = "vkey" /\ DistinctOutFiles(job[r]) =>
      \A i \in DOMAIN job[r].paths :
        fs[job[r].hws[i]] = SigningFileOf(ExportedKey(r, i))

\* A successful bulk export leaves two files for each path, and the verification key is
\* the one that its signing file yields (docs/public-keys-bulk-export-example.md).
SuccessLeavesPairs ==
  [][\A r \in Runs :
       pc[r] = "vkey" /\ pc'[r] = "done" /\ DistinctOutFiles(job[r]) =>
         \A i \in DOMAIN job[r].paths :
           /\ IsSigningFile(fs'[job[r].hws[i]])
           /\ fs'[job[r].vkeys[i]] = VerificationKeyOf(ParsedKey(fs'[job[r].hws[i]]))]_vars
=============================================================================
