------------------------- MODULE NativeScriptProofs -------------------------
(***************************************************************************)
(* Proofs about NativeScript, for any script, signing files and device.    *)
(*                                                                         *)
(* Both conversions, followed by what the devices make of them, come down  *)
(* to one script (Answered): the one in the file, with the keys that have  *)
(* signing files replaced by those of the connected wallet.  When that is  *)
(* the script itself is then a question of these keys alone.               *)
(***************************************************************************)
EXTENDS NativeScript, TLAPS

-----------------------------------------------------------------------------
(* Nodes *)

\* A number that was safe after JSON.parse made a double of it is the number in the file.
LEMMA SafeIsExact ==
  ASSUME NEW n \in Numbers, IsCorrectNumber(n)
  PROVE  Stored(n) = n
<1> DEFINE k == n.floor
<1>1. MaxSafe \in Nat /\ MaxSafe % 4 = 3
  BY SigningFilesConstants, NativeScriptConstants
<1>2. n = [floor |-> k, fraction |-> n.fraction] /\ k \in Int
  BY DEF Numbers
<1>3. Stored(n) = [floor |-> Double(k), fraction |-> n.fraction]
  BY <1>2 DEF Stored
<1>4. Double(k) = k
  <2>1. CASE k <= MaxSafe \/ k % 2 = 0
    BY <2>1 DEF Double
  <2>2. CASE ~(k <= MaxSafe \/ k % 2 = 0)
    <3>1. Double(k) = 4 * ((k + 1) \div 4) /\ k > MaxSafe
      BY <1>1, <1>2, <2>2 DEF Double
    <3>2. Double(k) <= MaxSafe
      BY <1>3 DEF IsCorrectNumber
    <3> QED BY <1>1, <1>2, <3>1, <3>2
  <2> QED BY <2>1, <2>2
<1> QED BY <1>2, <1>3, <1>4

\* A node that parses is one of six kinds, with all its fields.
LEMMA NodeKinds ==
  ASSUME NEW node \in Nodes, NodeOk(node)
  PROVE  \/ /\ node = [type |-> "sig", keyHash |-> node.keyHash]
            /\ node.keyHash \in [key: Keys, junk: BOOLEAN]
         \/ \E type \in {"all", "any"} : node = [type |-> type, scripts |-> node.scripts]
         \/ /\ node = [type |-> "atLeast", required |-> node.required, scripts |-> node.scripts]
            /\ node.required \in Numbers /\ IsCorrectNumber(node.required)
         \/ /\ \E type \in {"after", "before"} : node = [type |-> type, slot |-> node.slot]
            /\ node.slot \in Numbers /\ IsCorrectNumber(node.slot) /\ ~node.slot.fraction
<1>1. CASE node \in [type: {"sig"}, keyHash: [key: Keys, junk: BOOLEAN]]
  BY <1>1
<1>2. CASE node \in [type: {"all", "any"}, scripts: Nat]
  BY <1>2
<1>3. CASE node \in [type: {"atLeast"}, required: Numbers, scripts: Nat]
  BY <1>3 DEF NodeOk
<1>4. CASE node \in [type: {"after", "before"}, slot: Numbers]
  BY <1>4 DEF NodeOk
<1>5. CASE node \in [type: {"sig", "all", "any", "atLeast", "after", "before", "unknown"}]
  BY <1>5 DEF NodeOk, ScriptType
<1>6. CASE node \in [type: {"atLeast"}, required: Numbers] \cup [type: {"atLeast"}, scripts: Nat]
  BY <1>6 DEF NodeOk
<1> QED BY <1>1, <1>2, <1>3, <1>4, <1>5, <1>6 DEF Nodes

\* What a device is asked to hash in the end: a key with a signing file is the device's own.
AnsweredNode(node) ==
  IF node.type = "sig" /\ HasFile(node.keyHash)
    THEN PubKey(<<seed, PathOf(node.keyHash.key)>>)
    ELSE NodeId(node)

Answered(data) == [p \in DOMAIN data |-> AnsweredNode(data[p])]

\* What parsing makes of each kind of node.
LEMMA ParsedKinds ==
  /\ \A keyHash : ParsedNode([type |-> "sig", keyHash |-> keyHash])
                    = [type |-> "PUBKEY", keyHash |-> keyHash]
  /\ \A n : ParsedNode([type |-> "all", scripts |-> n]) = [type |-> "ALL", scripts |-> n]
  /\ \A n : ParsedNode([type |-> "any", scripts |-> n]) = [type |-> "ANY", scripts |-> n]
  /\ \A n, m : ParsedNode([type |-> "atLeast", required |-> m, scripts |-> n])
                = [type |-> "N_OF_K", required |-> Stored(m), scripts |-> n]
  /\ \A n : ParsedNode([type |-> "after", slot |-> n])
              = [type |-> "INVALID_BEFORE", slot |-> Stored(n)]
  /\ \A n : ParsedNode([type |-> "before", slot |-> n])
              = [type |-> "INVALID_HEREAFTER", slot |-> Stored(n)]
BY DEF ParsedNode, ScriptType

\* What a Ledger hashes for each kind of parsed node.
LEMMA LedgerKinds ==
  /\ \A keyHash :
       LedgerNodeHash(LedgerNode([type |-> "PUBKEY", keyHash |-> keyHash]))
         = PubKey(IF HasFile(keyHash) THEN <<seed, PathOf(keyHash.key)>> ELSE keyHash.key)
  /\ \A n : LedgerNodeHash(LedgerNode([type |-> "ALL", scripts |-> n])) = AllOf(n)
  /\ \A n : LedgerNodeHash(LedgerNode([type |-> "ANY", scripts |-> n])) = AnyOf(n)
  /\ \A n, m :
       LedgerNodeHash(LedgerNode([type |-> "N_OF_K", required |-> m, scripts |-> n]))
         = NofK(m, n)
  /\ \A n : LedgerNodeHash(LedgerNode([type |-> "INVALID_BEFORE", slot |-> n]))
              = InvalidBefore(n)
  /\ \A n : LedgerNodeHash(LedgerNode([type |-> "INVALID_HEREAFTER", slot |-> n]))
              = InvalidHereafter(n)
<1> USE DEF LedgerNode, LedgerNodeHash
<1>1. ASSUME NEW keyHash
      PROVE  LedgerNodeHash(LedgerNode([type |-> "PUBKEY", keyHash |-> keyHash]))
               = PubKey(IF HasFile(keyHash) THEN <<seed, PathOf(keyHash.key)>> ELSE keyHash.key)
  OBVIOUS
<1>2. ASSUME NEW n
      PROVE  /\ LedgerNodeHash(LedgerNode([type |-> "ALL", scripts |-> n])) = AllOf(n)
             /\ LedgerNodeHash(LedgerNode([type |-> "ANY", scripts |-> n])) = AnyOf(n)
  OBVIOUS
<1>3. ASSUME NEW n, NEW m
      PROVE  LedgerNodeHash(LedgerNode([type |-> "N_OF_K", required |-> m, scripts |-> n]))
               = NofK(m, n)
  OBVIOUS
<1>4. ASSUME NEW n
      PROVE  /\ LedgerNodeHash(LedgerNode([type |-> "INVALID_BEFORE", slot |-> n]))
                   = InvalidBefore(n)
             /\ LedgerNodeHash(LedgerNode([type |-> "INVALID_HEREAFTER", slot |-> n]))
                   = InvalidHereafter(n)
  OBVIOUS
<1> HIDE DEF LedgerNode, LedgerNodeHash
<1> QED BY <1>1, <1>2, <1>3, <1>4

\* What a Trezor hashes for each.
LEMMA TrezorKinds ==
  /\ \A keyHash :
       TrezorNodeHash(TrezorNode([type |-> "PUBKEY", keyHash |-> keyHash]))
         = PubKey(IF HasFile(keyHash) THEN <<seed, PathOf(keyHash.key)>> ELSE keyHash.key)
  /\ \A n : TrezorNodeHash(TrezorNode([type |-> "ALL", scripts |-> n])) = AllOf(n)
  /\ \A n : TrezorNodeHash(TrezorNode([type |-> "ANY", scripts |-> n])) = AnyOf(n)
  /\ \A n, m :
       TrezorNodeHash(TrezorNode([type |-> "N_OF_K", required |-> m, scripts |-> n]))
         = NofK(m, n)
  /\ \A n : TrezorNodeHash(TrezorNode([type |-> "INVALID_BEFORE", slot |-> n]))
              = InvalidBefore(n)
  /\ \A n : TrezorNodeHash(TrezorNode([type |-> "INVALID_HEREAFTER", slot |-> n]))
              = InvalidHereafter(n)
<1> USE DEF TrezorNode, TrezorNodeHash
<1>1. ASSUME NEW keyHash
      PROVE  TrezorNodeHash(TrezorNode([type |-> "PUBKEY", keyHash |-> keyHash]))
               = PubKey(IF HasFile(keyHash) THEN <<seed, PathOf(keyHash.key)>> ELSE keyHash.key)
  OBVIOUS
<1>2. ASSUME NEW n
      PROVE  /\ TrezorNodeHash(TrezorNode([type |-> "ALL", scripts |-> n])) = AllOf(n)
             /\ TrezorNodeHash(TrezorNode([type |-> "ANY", scripts |-> n])) = AnyOf(n)
  OBVIOUS
<1>3. ASSUME NEW n, NEW m
      PROVE  TrezorNodeHash(TrezorNode([type |-> "N_OF_K", required |-> m, scripts |-> n]))
               = NofK(m, n)
  OBVIOUS
<1>4. ASSUME NEW n
      PROVE  /\ TrezorNodeHash(TrezorNode([type |-> "INVALID_BEFORE", slot |-> n]))
                   = InvalidBefore(n)
             /\ TrezorNodeHash(TrezorNode([type |-> "INVALID_HEREAFTER", slot |-> n]))
                   = InvalidHereafter(n)
  OBVIOUS
<1> HIDE DEF TrezorNode, TrezorNodeHash
<1> QED BY <1>1, <1>2, <1>3, <1>4

\* Through the Ledger's form, node by node.
LEMMA LedgerNodeAnswered ==
  ASSUME NEW node \in Nodes, NodeOk(node)
  PROVE  LedgerNodeHash(LedgerNode(ParsedNode(node))) = AnsweredNode(node)
<1>1. ASSUME NEW keyHash, node = [type |-> "sig", keyHash |-> keyHash]
      PROVE  LedgerNodeHash(LedgerNode(ParsedNode(node))) = AnsweredNode(node)
  <2>1. AnsweredNode(node)
          = PubKey(IF HasFile(keyHash) THEN <<seed, PathOf(keyHash.key)>> ELSE keyHash.key)
    BY <1>1 DEF AnsweredNode, NodeId
  <2> QED BY <1>1, <2>1, ParsedKinds, LedgerKinds
<1>2. ASSUME NEW n, NEW type \in {"all", "any"}, node = [type |-> type, scripts |-> n]
      PROVE  LedgerNodeHash(LedgerNode(ParsedNode(node))) = AnsweredNode(node)
  <2>1. AnsweredNode(node) = IF type = "all" THEN AllOf(n) ELSE AnyOf(n)
    BY <1>2 DEF AnsweredNode, NodeId
  <2> QED BY <1>2, <2>1, ParsedKinds, LedgerKinds
<1>3. ASSUME NEW n, NEW m \in Numbers, IsCorrectNumber(m),
             node = [type |-> "atLeast", required |-> m, scripts |-> n]
      PROVE  LedgerNodeHash(LedgerNode(ParsedNode(node))) = AnsweredNode(node)
  <2>1. AnsweredNode(node) = NofK(m, n)
    BY <1>3 DEF AnsweredNode, NodeId
  <2>2. Stored(m) = m
    BY <1>3, SafeIsExact
  <2>3. ParsedNode(node) = [type |-> "N_OF_K", required |-> m, scripts |-> n]
    BY <1>3, <2>2, ParsedKinds
  <2> QED BY <2>1, <2>3, LedgerKinds
<1>4. ASSUME NEW n \in Numbers, IsCorrectNumber(n), NEW type \in {"after", "before"},
             node = [type |-> type, slot |-> n]
      PROVE  LedgerNodeHash(LedgerNode(ParsedNode(node))) = AnsweredNode(node)
  <2>1. AnsweredNode(node)
          = IF type = "after" THEN InvalidBefore(n) ELSE InvalidHereafter(n)
    BY <1>4 DEF AnsweredNode, NodeId
  <2>2. Stored(n) = n
    BY <1>4, SafeIsExact
  <2>3. ParsedNode(node)
          = [type |-> IF type = "after" THEN "INVALID_BEFORE" ELSE "INVALID_HEREAFTER",
             slot |-> n]
    <3>1. CASE type = "after"
      BY <1>4, <2>2, <3>1, ParsedKinds
    <3>2. CASE type = "before"
      BY <1>4, <2>2, <3>2, ParsedKinds
    <3> QED BY <3>1, <3>2
  <2> QED BY <2>1, <2>3, LedgerKinds
<1> QED BY <1>1, <1>2, <1>3, <1>4, NodeKinds

\* Through the Trezor's.
LEMMA TrezorNodeAnswered ==
  ASSUME NEW node \in Nodes, NodeOk(node)
  PROVE  TrezorNodeHash(TrezorNode(ParsedNode(node))) = AnsweredNode(node)
<1>1. ASSUME NEW keyHash, node = [type |-> "sig", keyHash |-> keyHash]
      PROVE  TrezorNodeHash(TrezorNode(ParsedNode(node))) = AnsweredNode(node)
  <2>1. AnsweredNode(node)
          = PubKey(IF HasFile(keyHash) THEN <<seed, PathOf(keyHash.key)>> ELSE keyHash.key)
    BY <1>1 DEF AnsweredNode, NodeId
  <2> QED BY <1>1, <2>1, ParsedKinds, TrezorKinds
<1>2. ASSUME NEW n, NEW type \in {"all", "any"}, node = [type |-> type, scripts |-> n]
      PROVE  TrezorNodeHash(TrezorNode(ParsedNode(node))) = AnsweredNode(node)
  <2>1. AnsweredNode(node) = IF type = "all" THEN AllOf(n) ELSE AnyOf(n)
    BY <1>2 DEF AnsweredNode, NodeId
  <2> QED BY <1>2, <2>1, ParsedKinds, TrezorKinds
<1>3. ASSUME NEW n, NEW m \in Numbers, IsCorrectNumber(m),
             node = [type |-> "atLeast", required |-> m, scripts |-> n]
      PROVE  TrezorNodeHash(TrezorNode(ParsedNode(node))) = AnsweredNode(node)
  <2>1. AnsweredNode(node) = NofK(m, n)
    BY <1>3 DEF AnsweredNode, NodeId
  <2>2. Stored(m) = m
    BY <1>3, SafeIsExact
  <2>3. ParsedNode(node) = [type |-> "N_OF_K", required |-> m, scripts |-> n]
    BY <1>3, <2>2, ParsedKinds
  <2> QED BY <2>1, <2>3, TrezorKinds
<1>4. ASSUME NEW n \in Numbers, IsCorrectNumber(n), NEW type \in {"after", "before"},
             node = [type |-> type, slot |-> n]
      PROVE  TrezorNodeHash(TrezorNode(ParsedNode(node))) = AnsweredNode(node)
  <2>1. AnsweredNode(node)
          = IF type = "after" THEN InvalidBefore(n) ELSE InvalidHereafter(n)
    BY <1>4 DEF AnsweredNode, NodeId
  <2>2. Stored(n) = n
    BY <1>4, SafeIsExact
  <2>3. ParsedNode(node)
          = [type |-> IF type = "after" THEN "INVALID_BEFORE" ELSE "INVALID_HEREAFTER",
             slot |-> n]
    <3>1. CASE type = "after"
      BY <1>4, <2>2, <3>1, ParsedKinds
    <3>2. CASE type = "before"
      BY <1>4, <2>2, <3>2, ParsedKinds
    <3> QED BY <3>1, <3>2
  <2> QED BY <2>1, <2>3, TrezorKinds
<1> QED BY <1>1, <1>2, <1>3, <1>4, NodeKinds

-----------------------------------------------------------------------------
(* Scripts *)

\* The form in which a provider hands a script over, and what its device answers.
FormOf(device, data) ==
  IF device = "ledger" THEN LedgerScript(ParsedScript(data)) ELSE TrezorScript(ParsedScript(data))

Answer(device, script) ==
  IF device = "ledger" THEN LedgerHash(script) ELSE TrezorHash(script)

\* A script that parses is answered with the script in which the keys with signing files
\* are the device's own.
LEMMA ScriptAnswered ==
  ASSUME NEW device, NEW data \in ScriptFiles, ScriptOk(data)
  PROVE  Answer(device, FormOf(device, data)) = Answered(data)
<1>1. \A p \in DOMAIN data : data[p] \in Nodes /\ NodeOk(data[p])
  BY NativeScriptConstants DEF IsScript, ScriptOk
<1>2. LedgerHash(LedgerScript(ParsedScript(data)))
        = [p \in DOMAIN data |-> LedgerNodeHash(LedgerNode(ParsedNode(data[p])))]
  BY DEF LedgerHash, LedgerScript, ParsedScript
<1>3. TrezorHash(TrezorScript(ParsedScript(data)))
        = [p \in DOMAIN data |-> TrezorNodeHash(TrezorNode(ParsedNode(data[p])))]
  BY DEF TrezorHash, TrezorScript, ParsedScript
<1>4. LedgerHash(LedgerScript(ParsedScript(data))) = Answered(data)
  BY <1>1, <1>2, LedgerNodeAnswered DEF Answered
<1>5. TrezorHash(TrezorScript(ParsedScript(data))) = Answered(data)
  BY <1>1, <1>3, TrezorNodeAnswered DEF Answered
<1> QED BY <1>4, <1>5 DEF Answer, FormOf

\* A device takes a script only if its counts have no fractions, and parsing took care of
\* the slots.
LEMMA OnlyWholeNumbers ==
  ASSUME NEW device, NEW data \in ScriptFiles, ScriptOk(data),
         WellFormedRequest(FormOf(device, data))
  PROVE  NoFractions(data)
<1> SUFFICES ASSUME NEW p \in DOMAIN data
             PROVE  /\ "required" \in DOMAIN data[p] => ~data[p].required.fraction
                    /\ "slot" \in DOMAIN data[p] => ~data[p].slot.fraction
  BY DEF NoFractions
<1> DEFINE node == data[p]
<1>1. node \in Nodes /\ NodeOk(node)
  BY NativeScriptConstants DEF IsScript, ScriptOk
<1>2. ASSUME NEW n, NEW m \in Numbers, IsCorrectNumber(m),
             node = [type |-> "atLeast", required |-> m, scripts |-> n]
      PROVE  ~m.fraction
  <2>1. ParsedNode(node) = [type |-> "N_OF_K", required |-> m, scripts |-> n]
    BY <1>2, SafeIsExact, ParsedKinds
  <2>2. LedgerNode(ParsedNode(node)) = [type |-> "N_OF_K", requiredCount |-> m, scripts |-> n]
    BY <2>1 DEF LedgerNode
  <2>3. TrezorNode(ParsedNode(node))
          = [type |-> "N_OF_K", requiredSignaturesCount |-> m, scripts |-> n]
    BY <2>1 DEF TrezorNode
  <2>4. /\ device = "ledger" => NodeWellFormed(LedgerNode(ParsedNode(node)))
        /\ device # "ledger" => NodeWellFormed(TrezorNode(ParsedNode(node)))
    BY DEF WellFormedRequest, FormOf, LedgerScript, TrezorScript, ParsedScript
  <2>5. CASE device = "ledger"
    BY <2>2, <2>4, <2>5 DEF NodeWellFormed
  <2>6. CASE device # "ledger"
    BY <2>3, <2>4, <2>6 DEF NodeWellFormed
  <2> QED BY <2>5, <2>6
<1>3. \/ "required" \notin DOMAIN node /\ "slot" \notin DOMAIN node
      \/ /\ node = [type |-> "atLeast", required |-> node.required, scripts |-> node.scripts]
         /\ node.required \in Numbers /\ IsCorrectNumber(node.required)
      \/ "required" \notin DOMAIN node /\ ~node.slot.fraction
  BY <1>1, NodeKinds
<1>4. CASE /\ node = [type |-> "atLeast", required |-> node.required, scripts |-> node.scripts]
           /\ node.required \in Numbers /\ IsCorrectNumber(node.required)
  <2>1. "slot" \notin DOMAIN node
    BY <1>4
  <2> QED BY <1>2, <1>4, <2>1
<1> QED BY <1>3, <1>4

\* The two conversions say the same: whatever parses has one hash, on a Ledger and on a
\* Trezor with the same seed, whichever signing files are named.
THEOREM ProvidersAgree ==
  ASSUME NEW data \in ScriptFiles, ScriptOk(data)
  PROVE  LedgerHash(LedgerScript(ParsedScript(data))) = TrezorHash(TrezorScript(ParsedScript(data)))
<1>1. Answer("ledger", FormOf("ledger", data)) = Answer("trezor", FormOf("trezor", data))
  BY ScriptAnswered
<1> QED BY <1>1 DEF Answer, FormOf

\* The answer is the policy id of the script just when no key in it was replaced by another.
LEMMA AnsweredIsPolicyId ==
  ASSUME NEW data \in ScriptFiles, ScriptOk(data)
  PROVE  Answered(data) = PolicyId(data)
           <=> \A k \in KeysOfScript(data) \cap Elements(files) : k[1] = seed
<1> DEFINE Own(p) == data[p].type = "sig" /\ HasFile(data[p].keyHash)
                       => data[p].keyHash.key[1] = seed
<1>1. \A p \in DOMAIN data : data[p] \in Nodes /\ NodeOk(data[p])
  BY NativeScriptConstants DEF IsScript, ScriptOk
<1>2. ASSUME NEW p \in DOMAIN data
      PROVE  AnsweredNode(data[p]) = NodeId(data[p]) <=> Own(p)
  <2>1. CASE data[p].type = "sig" /\ HasFile(data[p].keyHash)
    <3> DEFINE k == data[p].keyHash.key
    <3>1. k \in Keys
      BY <1>1, <2>1, NodeKinds
    <3>2. k = <<k[1], k[2]>>
      BY <3>1 DEF Keys
    <3>3. AnsweredNode(data[p]) = PubKey(<<seed, k[2]>>)
      BY <2>1 DEF AnsweredNode, PathOf
    <3>4. NodeId(data[p]) = PubKey(k)
      BY <2>1 DEF NodeId
    <3>5. PubKey(<<seed, k[2]>>) = PubKey(k) <=> <<seed, k[2]>> = k
      BY DEF PubKey
    <3>6. <<seed, k[2]>> = k <=> k[1] = seed
      BY <3>2
    <3> QED BY <2>1, <3>3, <3>4, <3>5, <3>6
  <2>2. CASE ~(data[p].type = "sig" /\ HasFile(data[p].keyHash))
    BY <2>2 DEF AnsweredNode
  <2> QED BY <2>1, <2>2
<1>3. Answered(data) = PolicyId(data) <=> \A p \in DOMAIN data : Own(p)
  <2>1. Answered(data) = PolicyId(data)
          <=> \A p \in DOMAIN data : AnsweredNode(data[p]) = NodeId(data[p])
    BY DEF Answered, PolicyId
  <2> QED BY <1>2, <2>1
<1>4. (\A p \in DOMAIN data : Own(p))
        <=> \A k \in KeysOfScript(data) \cap Elements(files) : k[1] = seed
  BY DEF KeysOfScript, HasFile
<1> QED BY <1>3, <1>4

-----------------------------------------------------------------------------
(* The run *)

\* The request is that of the script file, and what is printed is the answer to it.
Phases ==
  /\ file \in ScriptFiles
  /\ pc \in {"ask", "done", "failed"} => request = FormOf(provider, file)
  /\ pc = "done" => printed = Answer(provider, request) /\ WellFormedRequest(request)

IInv == TypeOK /\ Phases

\* A request and an answer have a root, so neither is Nothing.
LEMMA RootAnswered ==
  ASSUME NEW device, NEW data \in ScriptFiles, ScriptOk(data)
  PROVE  FormOf(device, data) # Nothing /\ Answer(device, FormOf(device, data)) # Nothing
<1>1. << >> \in DOMAIN data
  BY NativeScriptConstants DEF IsScript
<1>2. DOMAIN FormOf(device, data) = DOMAIN data
  BY DEF FormOf, LedgerScript, TrezorScript, ParsedScript
<1>3. DOMAIN Answer(device, FormOf(device, data)) = DOMAIN data
  BY <1>2 DEF Answer, LedgerHash, TrezorHash
<1>4. DOMAIN Nothing = {}
  BY DEF Nothing
<1> QED BY <1>1, <1>2, <1>3, <1>4

\* Nothing is printed at first.
LEMMA InitIInv == Init => IInv
BY DEF Init, IInv, TypeOK, Phases

\* The run keeps to one provider, script, seed and list of files.
LEMMA KeptInputs ==
  ASSUME UNCHANGED <<provider, seed, file, files>>
  PROVE  /\ UNCHANGED FormOf(provider, file)
         /\ UNCHANGED request =>
              UNCHANGED Answer(provider, request) /\ UNCHANGED WellFormedRequest(request)
         /\ UNCHANGED ScriptOk(file)
<1>1. UNCHANGED FormOf(provider, file)
  BY DEF FormOf, LedgerScript, LedgerNode, TrezorScript, TrezorNode, HasFile
<1>2. UNCHANGED request => UNCHANGED Answer(provider, request)
  BY DEF Answer, LedgerHash, LedgerNodeHash, TrezorHash, TrezorNodeHash
<1> QED BY <1>1, <1>2

\* Each step of the run.
LEMMA NextIInv == IInv /\ [Next]_vars => IInv'
<1> SUFFICES ASSUME IInv, [Next]_vars PROVE IInv'
  OBVIOUS
<1> USE DEF IInv, TypeOK, Phases
<1>1. CASE Parse
  BY <1>1, KeptInputs DEF Parse, Goto
<1>2. CASE Prepare
  <2>1. ScriptOk(file) /\ file \in ScriptFiles
    BY <1>2 DEF Prepare
  <2>2. request' = FormOf(provider, file)
    BY <1>2 DEF Prepare, FormOf
  <2>3. request' # Nothing
    BY <2>1, <2>2, RootAnswered
  <2> QED BY <1>2, <2>2, <2>3, KeptInputs DEF Prepare, Goto
<1>3. CASE PrintPolicyId
  <2>1. ScriptOk(file) /\ file \in ScriptFiles /\ request = FormOf(provider, file)
    BY <1>3 DEF PrintPolicyId
  <2>2. printed' = Answer(provider, request)
    BY <1>3 DEF PrintPolicyId, Answer
  <2>3. printed' # Nothing
    BY <2>1, <2>2, RootAnswered
  <2> QED BY <1>3, <2>2, <2>3, KeptInputs DEF PrintPolicyId, Goto
<1>4. CASE Refuse
  BY <1>4, KeptInputs DEF Refuse, Goto
<1>5. CASE UNCHANGED vars
  BY <1>5, KeptInputs DEF vars
<1> QED BY <1>1, <1>2, <1>3, <1>4, <1>5 DEF Next

\* The invariant of the run.
THEOREM Invariance == Spec => []IInv
BY InitIInv, NextIInv, PTL DEF Spec

\* Only a script that is well formed to its leaves is turned into a request
\* (parsers.ts:301), and a run that succeeds has printed something.
THEOREM TypeCorrect == Spec => []TypeOK
<1>1. IInv => TypeOK
  BY DEF IInv
<1> QED BY <1>1, Invariance, PTL

\* What is printed is the policy id of the script file, from either device, just when the
\* signing files that the script names are of the connected wallet: for scripts of any depth
\* and width, any numbers and any list of signing files.
THEOREM PrintedPolicyId == Spec => []PolicyIdIsScripts
<1>1. IInv => PolicyIdIsScripts
  <2> SUFFICES ASSUME IInv, pc = "done"
               PROVE  /\ NoFractions(file)
                      /\ printed = PolicyId(file)
                           <=> \A k \in KeysOfScript(file) \cap Elements(files) : k[1] = seed
    BY DEF PolicyIdIsScripts
  <2>1. file \in ScriptFiles /\ ScriptOk(file)
    BY DEF IInv, TypeOK, Phases
  <2>2. printed = Answered(file)
    BY <2>1, ScriptAnswered DEF IInv, Phases
  <2>3. NoFractions(file)
    BY <2>1, OnlyWholeNumbers DEF IInv, Phases
  <2> QED BY <2>1, <2>2, <2>3, AnsweredIsPolicyId
<1> QED BY <1>1, Invariance, PTL
=============================================================================
