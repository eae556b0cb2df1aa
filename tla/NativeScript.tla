---------------------------- MODULE NativeScript ----------------------------
(***************************************************************************)
(* One run of "transaction policyid" (CommandExecutor.createTxPolicyId):   *)
(* a native script is parsed, turned into the provider's form, and hashed  *)
(* by the device; the hash is printed.  Nothing in the tool knows what the *)
(* hash should be.                                                         *)
(*                                                                         *)
(* A script is a function from positions to nodes: the root is at << >>,   *)
(* and a node with n scripts has them at its own position with 1..n        *)
(* appended.  The code recurses with .map, which keeps the number of the   *)
(* scripts and their order, so that each node stays where it is and is     *)
(* converted by itself.  The hash of a script is its contents, numbered as *)
(* in the ledger's format.                                                 *)
(***************************************************************************)
EXTENDS SignRequest, Integers

CONSTANTS
  ScriptFiles,   \* contents of script files
  FileLists      \* the --hw-signing-file arguments

\* A number of a script file: an integer, or something between it and the next (a fraction
\* that a double of its size cannot hold is none).
Numbers == [floor: Int, fraction: BOOLEAN]

\* A node of a script file.  A field that is missing stands for one of the wrong type as
\* well, type "unknown" for whatever is no node (a property that all objects have, such as
\* "toString", gets past "in nativeScriptTypeMap", and the switch throws the same error for
\* it); other fields are not looked at.  After the bytes of a key hash there may be junk.
Nodes ==
  [type: {"sig"}, keyHash: [key: Keys, junk: BOOLEAN]]
    \cup [type: {"all", "any"}, scripts: Nat]
    \cup [type: {"atLeast"}, required: Numbers, scripts: Nat]
    \cup [type: {"after", "before"}, slot: Numbers]
    \cup [type: {"sig", "all", "any", "atLeast", "after", "before", "unknown"}]
    \cup [type: {"atLeast"}, required: Numbers] \cup [type: {"atLeast"}, scripts: Nat]

\* Every position but the root is that of a script in a list.
IsScript(data) ==
  LET Lists == {p \in DOMAIN data : "scripts" \in DOMAIN data[p]}
  IN /\ DOMAIN data =
          {<< >>} \cup UNION {{Append(p, i) : i \in 1..data[p].scripts} : p \in Lists}
     /\ \A p \in DOMAIN data : data[p] \in Nodes

\* MAX_SAFE_INTEGER is 2^53 - 1: above it Double never returns to what is safe.
ASSUME NativeScriptConstants ==
  /\ FileLists \subseteq Seq(Keys)
  /\ \A data \in ScriptFiles : IsScript(data)
  /\ MaxSafe % 4 = 3

VARIABLES
  provider,  \* the device that answered
  seed,      \* its seed, under the derivation type of the call
  file,      \* the script file
  files,     \* the signing files
  pc,        \* where the run is
  request,   \* the script in the provider's form
  printed    \* the policy id

vars == <<provider, seed, file, files, pc, request, printed>>

\* No script at all.
Nothing == [p \in {} |-> p]

Init ==
  /\ provider \in Providers
  /\ seed \in Seeds
  /\ file \in ScriptFiles
  /\ files \in FileLists
  /\ pc = "parse"
  /\ request = Nothing
  /\ printed = Nothing

Goto(point) == pc' = point /\ UNCHANGED <<provider, seed, file, files>>

-----------------------------------------------------------------------------
(* Parsing *)

\* nativeScriptTypeMap
ScriptType ==
  [all |-> "ALL", any |-> "ANY", atLeast |-> "N_OF_K", after |-> "INVALID_BEFORE",
   before |-> "INVALID_HEREAFTER", sig |-> "PUBKEY"]

\* Mutant: any number will do.
IsAnyNumber(n) == n.floor >= 0

\* JSON.parse has made a double of it already.
Stored(n) == [n EXCEPT !.floor = Double(@)]
IsCorrectNumber(n) == Stored(n).floor >= 0 /\ Stored(n).floor <= MaxSafe

\* A slot becomes a BigInt, which throws for a fraction; a count stays the number it is.
NodeOk(node) ==
  /\ node.type \in DOMAIN ScriptType
  /\ node.type = "sig" => "keyHash" \in DOMAIN node
  /\ node.type \in {"after", "before"} =>
       "slot" \in DOMAIN node /\ IsCorrectNumber(node.slot) /\ ~node.slot.fraction
  /\ node.type = "atLeast" => "required" \in DOMAIN node /\ IsCorrectNumber(node.required)
  /\ node.type \in {"all", "any", "atLeast"} => "scripts" \in DOMAIN node

\* parseNativeScriptData throws at the first node that is not as it should be.
ScriptOk(data) == \A p \in DOMAIN data : NodeOk(data[p])

ParsedNode(node) ==
  LET type == ScriptType[node.type]
  IN CASE type = "PUBKEY" -> [type |-> type, keyHash |-> node.keyHash]
       [] type \in {"ALL", "ANY"} -> [type |-> type, scripts |-> node.scripts]
       [] type = "N_OF_K" ->
            [type |-> type, required |-> Stored(node.required), scripts |-> node.scripts]
       [] OTHER -> [type |-> type, slot |-> Stored(node.slot)]

\* parseNativeScriptData of a script that is ScriptOk.
ParsedScript(data) == [p \in DOMAIN data |-> ParsedNode(data[p])]

\* The whole script, before any device is sought.
Parse ==
  /\ pc = "parse"
  /\ Goto(IF ScriptOk(file) THEN "prepare" ELSE "unparsed")
  /\ UNCHANGED <<request, printed>>

-----------------------------------------------------------------------------
(* The script in the form of the provider *)

\* findSigningPathForKeyHash.  A key hash is text: decoding stops at the first character
\* that is not hexadecimal, so a signing file is found for a hash with junk behind it.
HasFile(keyHash) == keyHash.key \in Elements(files)

LedgerNode(node) ==
  CASE node.type = "PUBKEY" ->
         IF HasFile(node.keyHash)
           THEN [type |-> "PUBKEY_DEVICE_OWNED", path |-> PathOf(node.keyHash.key)]
           ELSE [type |-> "PUBKEY_THIRD_PARTY", keyHashHex |-> node.keyHash]
    [] node.type = "N_OF_K" ->
         [type |-> "N_OF_K", requiredCount |-> node.required, scripts |-> node.scripts]
    [] OTHER -> node

LedgerScript(script) == [p \in DOMAIN script |-> LedgerNode(script[p])]

TrezorNode(node) ==
  CASE node.type = "PUBKEY" ->
         IF HasFile(node.keyHash)
           THEN [type |-> "PUB_KEY", keyPath |-> PathOf(node.keyHash.key)]
           ELSE [type |-> "PUB_KEY", keyHash |-> node.keyHash]
    [] node.type = "N_OF_K" ->
         [type |-> "N_OF_K", requiredSignaturesCount |-> node.required,
          scripts |-> node.scripts]
    [] node.type = "INVALID_BEFORE" -> [type |-> node.type, invalidBefore |-> node.slot]
    [] node.type = "INVALID_HEREAFTER" ->
         [type |-> node.type, invalidHereafter |-> node.slot]
    [] OTHER -> node

TrezorScript(script) == [p \in DOMAIN script |-> TrezorNode(script[p])]

Prepare ==
  /\ pc = "prepare"
  /\ request' = IF provider = "ledger" THEN LedgerScript(ParsedScript(file))
                ELSE TrezorScript(ParsedScript(file))
  /\ Goto("ask")
  /\ UNCHANGED printed

-----------------------------------------------------------------------------
(* The device (external) *)

\* The tags of the ledger's format.
PubKey(key) == [tag |-> 0, key |-> key]
AllOf(scripts) == [tag |-> 1, scripts |-> scripts]
AnyOf(scripts) == [tag |-> 2, scripts |-> scripts]
NofK(n, scripts) == [tag |-> 3, n |-> n, scripts |-> scripts]
InvalidBefore(slot) == [tag |-> 4, slot |-> slot]
InvalidHereafter(slot) == [tag |-> 5, slot |-> slot]

\* Key hashes that are not hexadecimal and counts with a fraction are refused, wherever they
\* are.
NodeWellFormed(node) ==
  /\ "keyHashHex" \in DOMAIN node => ~node.keyHashHex.junk
  /\ "keyHash" \in DOMAIN node => ~node.keyHash.junk
  /\ "requiredCount" \in DOMAIN node => ~node.requiredCount.fraction
  /\ "requiredSignaturesCount" \in DOMAIN node => ~node.requiredSignaturesCount.fraction

WellFormedRequest(script) == \A p \in DOMAIN script : NodeWellFormed(script[p])

LedgerNodeHash(node) ==
  CASE node.type = "PUBKEY_DEVICE_OWNED" -> PubKey(<<seed, node.path>>)
    [] node.type = "PUBKEY_THIRD_PARTY" -> PubKey(node.keyHashHex.key)
    [] node.type = "ALL" -> AllOf(node.scripts)
    [] node.type = "ANY" -> AnyOf(node.scripts)
    [] node.type = "N_OF_K" -> NofK(node.requiredCount, node.scripts)
    [] node.type = "INVALID_BEFORE" -> InvalidBefore(node.slot)
    [] node.type = "INVALID_HEREAFTER" -> InvalidHereafter(node.slot)

LedgerHash(script) == [p \in DOMAIN script |-> LedgerNodeHash(script[p])]

TrezorNodeHash(node) ==
  CASE node.type = "PUB_KEY" ->
         PubKey(IF "keyPath" \in DOMAIN node THEN <<seed, node.keyPath>>
                ELSE node.keyHash.key)
    [] node.type = "ALL" -> AllOf(node.scripts)
    [] node.type = "ANY" -> AnyOf(node.scripts)
    [] node.type = "N_OF_K" -> NofK(node.requiredSignaturesCount, node.scripts)
    [] node.type = "INVALID_BEFORE" -> InvalidBefore(node.invalidBefore)
    [] node.type = "INVALID_HEREAFTER" -> InvalidHereafter(node.invalidHereafter)

TrezorHash(script) == [p \in DOMAIN script |-> TrezorNodeHash(script[p])]

PrintPolicyId ==
  /\ pc = "ask"
  /\ WellFormedRequest(request)
  /\ printed' = IF provider = "ledger" THEN LedgerHash(request) ELSE TrezorHash(request)
  /\ Goto("done")
  /\ UNCHANGED request

\* Mutant: an answer without success is taken for one.
RefuseUnseen ==
  /\ pc = "ask"
  /\ Goto("done")
  /\ UNCHANGED <<request, printed>>

\* The user rejects the script, or the device or its library refuses it.
Refuse ==
  /\ pc = "ask"
  /\ Goto("failed")
  /\ UNCHANGED <<request, printed>>

Next == Parse \/ Prepare \/ PrintPolicyId \/ Refuse

Spec == Init /\ [][Next]_vars

-----------------------------------------------------------------------------

\* Only a script that is well formed to its leaves is turned into a request, and a run
\* that succeeds has printed something.
TypeOK ==
  /\ provider \in Providers
  /\ seed \in Seeds
  /\ files \in FileLists
  /\ pc \in {"parse", "unparsed", "prepare", "ask", "done", "failed"}
  /\ pc \notin {"parse", "unparsed"} => ScriptOk(file)
  /\ request # Nothing <=> pc \in {"ask", "done", "failed"}
  /\ printed # Nothing <=> pc = "done"

\* The policy id cardano-cli computes from the file: "after" a slot is valid from it,
\* "before" a slot is invalid from it, and numbers are exact.  It has none for a file with
\* fractions.
NodeId(node) ==
  CASE node.type = "sig" -> PubKey(node.keyHash.key)
    [] node.type = "all" -> AllOf(node.scripts)
    [] node.type = "any" -> AnyOf(node.scripts)
    [] node.type = "atLeast" -> NofK(node.required, node.scripts)
    [] node.type = "after" -> InvalidBefore(node.slot)
    [] node.type = "before" -> InvalidHereafter(node.slot)

PolicyId(data) == [p \in DOMAIN data |-> NodeId(data[p])]

NoFractions(data) ==
  \A p \in DOMAIN data :
    /\ "required" \in DOMAIN data[p] => ~data[p].required.fraction
    /\ "slot" \in DOMAIN data[p] => ~data[p].slot.fraction

KeysOfScript(data) == {data[p].keyHash.key : p \in {q \in DOMAIN data : data[q].type = "sig"}}

\* What is printed is the policy id of the script file, the same from both devices, as
\* long as the signing files that the script names are of the connected wallet.  With one of
\* another wallet the device puts a key of its own in its place, and the policy id
\* printed is that of another script.  For a file that has no policy id none is printed.
PolicyIdIsScripts ==
  pc = "done" =>
    /\ NoFractions(file)
    /\ printed = PolicyId(file)
         <=> \A k \in KeysOfScript(file) \cap Elements(files) : k[1] = seed
=============================================================================
