--------------------------- MODULE NodeCliProofs ---------------------------
(***************************************************************************)
(* Proofs about NodeCli, for any number of runs and any command lines.     *)
(* They rest on the proofs about the components: a step of the whole is a  *)
(* step of ProviderSelect, so its invariant holds here, and with it a step *)
(* of the whole is a step of OpCert.  SelectP and NodeP are the components *)
(* with the facts proved about them.                                       *)
(***************************************************************************)
EXTENDS NodeCli, TLAPS

SelectP == INSTANCE ProviderSelectProofs WITH Procs <- Runs, pc <- sel

NodeP == INSTANCE OpCertProofs
           WITH Devices <- {"ledger", "trezor"}, Ledgers <- {"ledger"},
                NoDevice <- Nobody, dev <- provider

-----------------------------------------------------------------------------
(* The components and their proofs *)

\* SelectP is Select.
LEMMA SameSelect ==
  /\ [Select!Next]_(Select!vars) => [SelectP!Next]_(SelectP!vars)
  /\ SelectP!TypeOK <=> Select!TypeOK
  /\ Select!Init => SelectP!Init
  /\ Select!Providers = {"ledger", "trezor"} /\ SelectP!Providers = {"ledger", "trezor"}
<1>1. [Select!Next]_(Select!vars) => [SelectP!Next]_(SelectP!vars)
  BY DEF Select!Next, SelectP!Next, Select!vars, SelectP!vars, Select!Begin, SelectP!Begin,
         Select!Timeout, SelectP!Timeout, Select!Exit, SelectP!Exit, Select!Finish,
         SelectP!Finish, Select!Die, SelectP!Die, Select!Answer, SelectP!Answer, Select!Opens,
         SelectP!Opens, Select!OpenElsewhere, SelectP!OpenElsewhere, Select!Fail, SelectP!Fail,
         Select!Alive, SelectP!Alive, Select!Providers, SelectP!Providers
<1>2. SelectP!TypeOK <=> Select!TypeOK
  BY DEF SelectP!TypeOK, Select!TypeOK, Select!Alive, SelectP!Alive, Select!Providers,
         SelectP!Providers
<1>3. Select!Init => SelectP!Init
  BY DEF SelectP!Init, Select!Init, Select!Providers, SelectP!Providers
<1> QED BY <1>1, <1>2, <1>3 DEF Select!Providers, SelectP!Providers

\* The invariant of the search is kept by its steps.
LEMMA SelectInvariant ==
  /\ Select!Init => SelectP!IInv
  /\ SelectP!IInv /\ [Select!Next]_(Select!vars) => SelectP!IInv'
<1>1. SelectP!Init => SelectP!IInv
  BY SelectP!InitIInv, NodeCliConstants DEF SelectP!NobodyIsNone, SelectP!Providers
<1>2. SelectP!IInv /\ [SelectP!Next]_(SelectP!vars) => SelectP!IInv'
  BY SelectP!NextIInv, NodeCliConstants DEF SelectP!NobodyIsNone, SelectP!Providers
<1> QED BY <1>1, <1>2, SameSelect

\* NodeP is Node.
LEMMA SameNode ==
  /\ [Node!Next]_(Node!vars) => [NodeP!Next]_(NodeP!vars)
  /\ NodeP!TypeOK <=> Node!TypeOK
  /\ Node!Init => NodeP!Init
<1> USE DEF Node!Keys, NodeP!Keys, Node!None, NodeP!None, Node!NoJob, NodeP!NoJob,
            Node!NoCounter, NodeP!NoCounter
<1>1. Node!Init => NodeP!Init
  BY DEF Node!Init, NodeP!Init
<1>2. NodeP!TypeOK <=> Node!TypeOK
  BY Zenon DEF Node!TypeOK, NodeP!TypeOK, Node!Content, NodeP!Content, Node!Torn, NodeP!Torn,
         Node!Points, NodeP!Points, Node!Holding, NodeP!Holding, Node!KeyGenPoints,
         NodeP!KeyGenPoints, Node!IssuePoints, NodeP!IssuePoints, Node!Counter, NodeP!Counter
<1>3. [Node!Next]_(Node!vars) => [NodeP!Next]_(NodeP!vars)
  BY Zenon DEF Node!Next, NodeP!Next, Node!vars, NodeP!vars, Node!StartKeyGen, NodeP!StartKeyGen,
         Node!StartIssue, NodeP!StartIssue, Node!Work, NodeP!Work, Node!Die, NodeP!Die,
         Node!Connect, NodeP!Connect, Node!Free, NodeP!Free, Node!Exit, NodeP!Exit,
         Node!ConnectTimeout, NodeP!ConnectTimeout, Node!Truncate, NodeP!Truncate,
         Node!Target, NodeP!Target, Node!Entry, NodeP!Entry, Node!Torn, NodeP!Torn,
         Node!Fill, NodeP!Fill, Node!KeyGenStep, NodeP!KeyGenStep, Node!IssueStep,
         NodeP!IssueStep, Node!ExportKey, NodeP!ExportKey, Node!InvalidInputs, NodeP!InvalidInputs,
         Node!FillHws, NodeP!FillHws, Node!FillVKey, NodeP!FillVKey, Node!FillCounter,
         NodeP!FillCounter, Node!FinishKeyGen, NodeP!FinishKeyGen, Node!HwsFile,
         NodeP!HwsFile, Node!VKeyFile, NodeP!VKeyFile, Node!CounterFile, NodeP!CounterFile,
         Node!ExportedKey, NodeP!ExportedKey, Node!ReadCounter, NodeP!ReadCounter,
         Node!BadCounter, NodeP!BadCounter, Node!Sign, NodeP!Sign, Node!CannotSign,
         NodeP!CannotSign, Node!FillCert, NodeP!FillCert, Node!CertFile, NodeP!CertFile,
         Node!SigningKey, NodeP!SigningKey, Node!BumpCounter, NodeP!BumpCounter,
         Node!Holding, NodeP!Holding, Node!KeyGenPoints, NodeP!KeyGenPoints,
         Node!IssuePoints, NodeP!IssuePoints
<1> QED BY <1>1, <1>2, <1>3

\* The types of the commands are kept by their steps.
LEMMA NodeTypes ==
  /\ Node!Init => Node!TypeOK
  /\ Node!TypeOK /\ [Node!Next]_(Node!vars) => Node!TypeOK'
<1>1. NodeP!Init => NodeP!TypeOK
  BY NodeP!InitType, NodeCliConstants
     DEF NodeP!OpCertConstants, NodeP!KeyGenCommandLines, Node!KeyGenCommandLines,
         NodeP!KeyGenEntry, Node!KeyGenEntry
<1>2. NodeP!TypeOK /\ [NodeP!Next]_(NodeP!vars) => NodeP!TypeOK'
  BY NodeP!NextType, NodeCliConstants
     DEF NodeP!OpCertConstants, NodeP!KeyGenCommandLines, Node!KeyGenCommandLines,
         NodeP!KeyGenEntry, Node!KeyGenEntry
<1>3. NodeP!TypeOK' <=> Node!TypeOK'
  BY SameNode, PTL
<1> QED BY <1>1, <1>2, <1>3, SameNode

-----------------------------------------------------------------------------
(* The inductive invariant *)

IInv == SelectP!IInv /\ Node!TypeOK /\ Coupled

\* Where a run is, in its command and in its search.
LEMMA Whereabouts ==
  ASSUME IInv
  PROVE  /\ pc \in [Runs -> Node!Points] /\ open \in [Runs -> BOOLEAN]
         /\ sel \in [Runs -> {"idle", "done", "failed", "dead", "selecting", "working"}]
         /\ provider \in [Runs -> {"ledger", "trezor", Nobody}]
         /\ attempt \in [Runs -> [{"ledger", "trezor"} ->
                            {"none", "pending", "open", "failed", "closed"}]]
         /\ \A r \in Runs :
              /\ pc[r] = "idle" => sel[r] = "idle"
              /\ pc[r] = "wait" <=> sel[r] = "selecting"
              /\ pc[r] \in Node!Holding <=> sel[r] = "working"
              /\ sel[r] = "selecting" => provider[r] = Nobody
              /\ provider[r] # Nobody => attempt[r][provider[r]] = "open"
              /\ \A v \in {"ledger", "trezor"} :
                   attempt[r][v] \in {"pending", "open"} => sel[r] \in {"selecting", "working"}
<1>1. SelectP!TypeOK /\ SelectP!CallbacksOfLiving
  BY DEF IInv, SelectP!IInv
<1>2. Node!TypeOK /\ Coupled
  BY DEF IInv
<1> QED
  BY <1>1, <1>2 DEF SelectP!TypeOK, SelectP!CallbacksOfLiving, SelectP!Alive, SelectP!Providers,
                    Node!TypeOK, Coupled

\* A step of a command that has its device: it goes on holding it, or exits.
LEMMA CommandStep ==
  ASSUME Node!TypeOK, NEW r \in Runs,
         Node!Truncate(r) \/ Node!KeyGenStep(r) \/ Node!IssueStep(r)
  PROVE  /\ pc[r] \in Node!Holding
         /\ \/ /\ pc' = [pc EXCEPT ![r] = pc'[r]] /\ pc'[r] \in Node!Holding
               /\ provider' = provider
            \/ \E how \in {"done", "failed"} :
                 /\ pc' = [pc EXCEPT ![r] = how]
                 /\ provider' = [provider EXCEPT ![r] = Nobody]
<1>0. pc \in [Runs -> Node!Points]
  BY DEF Node!TypeOK
<1> USE <1>0 DEF Node!Holding, Node!KeyGenPoints, Node!IssuePoints
<1>1. CASE Node!Truncate(r)
  BY <1>1 DEF Node!Truncate
<1>2. CASE Node!ExportKey(r)
  BY <1>2 DEF Node!ExportKey
<1>3. CASE Node!InvalidInputs(r)
  BY <1>3 DEF Node!InvalidInputs, Node!Exit
<1>4. CASE Node!FillHws(r)
  BY <1>4 DEF Node!FillHws, Node!Fill
<1>5. CASE Node!FillVKey(r)
  BY <1>5 DEF Node!FillVKey, Node!Fill
<1>6. CASE Node!FillCounter(r)
  BY <1>6 DEF Node!FillCounter, Node!Fill
<1>7. CASE Node!FinishKeyGen(r)
  BY <1>7 DEF Node!FinishKeyGen, Node!Exit
<1>8. CASE Node!ReadCounter(r)
  BY <1>8 DEF Node!ReadCounter
<1>9. CASE Node!BadCounter(r)
  BY <1>9 DEF Node!BadCounter, Node!Exit
<1>10. CASE Node!Sign(r)
  BY <1>10 DEF Node!Sign
<1>11. CASE Node!CannotSign(r)
  BY <1>11 DEF Node!CannotSign, Node!Exit
<1>12. CASE Node!FillCert(r)
  BY <1>12 DEF Node!FillCert, Node!Fill
<1>13. CASE Node!BumpCounter(r)
  BY <1>13 DEF Node!BumpCounter, Node!Fill, Node!Exit
<1> QED
  BY <1>1, <1>2, <1>3, <1>4, <1>5, <1>6, <1>7, <1>8, <1>9, <1>10, <1>11, <1>12, <1>13
     DEF Node!KeyGenStep, Node!IssueStep

-----------------------------------------------------------------------------
(* Each step is a step of the search *)

\* A step of the whole is one of the search, or leaves it alone.
LEMMA SelectStep == IInv /\ [Next]_vars => [Select!Next]_(Select!vars)
<1> SUFFICES ASSUME IInv, [Next]_vars PROVE [Select!Next]_(Select!vars)
  OBVIOUS
<1>1. ASSUME NEW r \in Runs, Start(r) PROVE [Select!Next]_(Select!vars)
  <2>1. provider' = provider
    BY <1>1 DEF Start, Node!StartKeyGen, Node!StartIssue
  <2> QED BY <1>1, <2>1 DEF Start, Select!Next, Select!vars
<1>2. ASSUME NEW r \in Runs, Step(r) PROVE [Select!Next]_(Select!vars)
  <2>1. CASE pc'[r] \in {"done", "failed"}
    BY <1>2, <2>1 DEF Step, Select!Next
  <2>2. CASE pc'[r] \notin {"done", "failed"}
    <3>1. UNCHANGED <<sel, attempt, timer>>
      BY <1>2, <2>2 DEF Step
    <3>2. provider' = provider
      <4>1. Node!TypeOK /\ pc \in [Runs -> Node!Points]
        BY DEF IInv, Node!TypeOK
      <4> QED BY <1>2, <2>2, <4>1, CommandStep DEF Step
    <3> QED BY <3>1, <3>2 DEF Select!vars
  <2> QED BY <2>1, <2>2
<1>3. ASSUME NEW r \in Runs, Timeout(r) \/ Die(r) PROVE [Select!Next]_(Select!vars)
  BY <1>3 DEF Timeout, Die, Select!Next
<1>4. ASSUME NEW r \in Runs, NEW v \in Select!Providers, Answer(r, v) \/ Fail(r, v)
      PROVE  [Select!Next]_(Select!vars)
  BY <1>4 DEF Answer, Fail, Select!Next
<1>5. CASE UNCHANGED vars
  BY <1>5 DEF vars, Select!vars
<1> QED BY <1>1, <1>2, <1>3, <1>4, <1>5 DEF Next

-----------------------------------------------------------------------------
(* Each step is a step of the commands *)

\* The first answer connects the run to a device that no other run works with.
LEMMA AnswerConnects ==
  ASSUME IInv, NEW r \in Runs, NEW v \in {"ledger", "trezor"}, Answer(r, v)
  PROVE  /\ sel[r] = "selecting" => Node!Connect(r) /\ sel' = [sel EXCEPT ![r] = "working"]
         /\ sel[r] # "selecting" => UNCHANGED Node!vars /\ sel' = sel
<1>1. CASE sel[r] = "selecting"
  <2>1. /\ pc[r] = "wait" /\ provider[r] = Nobody
        /\ provider' = [provider EXCEPT ![r] = v] /\ sel' = [sel EXCEPT ![r] = "working"]
        /\ pc' = [pc EXCEPT ![r] = FirstPoint(r)]
        /\ UNCHANGED <<fs, job, idx, open, keys, buf, log>>
    BY <1>1, Whereabouts DEF Answer, Select!Answer
  <2>2. \A q \in Runs \ {r} : attempt[q][v] # "open"
    BY DEF Answer, Select!Answer, Select!Opens, Select!OpenElsewhere
  <2>3. \A q \in Runs : provider[q] # v
    <3>1. v # Nobody
      BY NodeCliConstants
    <3> QED BY <2>1, <2>2, <3>1, Whereabouts
  <2>4. Node!Free(v)
    BY <2>3 DEF Node!Free
  <2> QED BY <1>1, <2>1, <2>4 DEF Node!Connect, FirstPoint
<1>2. CASE sel[r] # "selecting"
  <2>1. UNCHANGED <<sel, provider, fs, job, idx, open, keys, buf, log>>
    BY <1>2 DEF Answer, Select!Answer
  <2>2. pc' = pc
    BY <1>2, Whereabouts DEF Answer
  <2> QED BY <1>2, <2>1, <2>2 DEF Node!vars
<1> QED BY <1>1, <1>2

\* A search that ends without an answer ends the run that waits for it.
LEMMA EndOfSearch ==
  ASSUME IInv, NEW r \in Runs, Timeout(r) \/ \E v \in {"ledger", "trezor"} : Fail(r, v)
  PROVE  \/ Node!ConnectTimeout(r) /\ sel' = [sel EXCEPT ![r] = "failed"]
         \/ UNCHANGED Node!vars /\ sel' = sel
<1>1. CASE Select!Exit(r, "failed") /\ sel[r] = "selecting"
  <2>1. sel' = [sel EXCEPT ![r] = "failed"] /\ sel'[r] = "failed" /\ pc[r] = "wait"
    BY <1>1, Whereabouts DEF Select!Exit
  <2>2. Node!Exit(r, "failed") /\ UNCHANGED <<fs, job, idx, keys, buf, log>>
    BY <2>1 DEF Timeout, Fail, EndsSearch
  <2> QED BY <2>1, <2>2 DEF Node!ConnectTimeout
<1>2. CASE UNCHANGED <<sel, provider>> /\ sel[r] # "failed"
  BY <1>2 DEF Timeout, Fail, EndsSearch, Node!vars
<1>3. CASE Timeout(r)
  <2>1. sel[r] = "selecting" => Select!Exit(r, "failed")
    BY <1>3 DEF Timeout, Select!Timeout
  <2>2. sel[r] # "selecting" => UNCHANGED <<sel, provider>>
    BY <1>3 DEF Timeout, Select!Timeout
  <2>3. sel[r] # "failed"
    BY <1>3 DEF Timeout, Select!Timeout, IInv, SelectP!IInv, SelectP!CallbacksOfLiving,
                SelectP!Alive
  <2> QED BY <1>1, <1>2, <2>1, <2>2, <2>3
<1>4. ASSUME NEW v \in {"ledger", "trezor"}, Fail(r, v)
      PROVE  \/ Select!Exit(r, "failed") /\ sel[r] = "selecting"
             \/ UNCHANGED <<sel, provider>> /\ sel[r] # "failed"
  <2>1. sel[r] \in {"selecting", "working"} /\ attempt[r][v] = "pending"
    BY <1>4, Whereabouts DEF Fail, Select!Fail
  <2>2. CASE Select!Exit(r, "failed") /\ \A w \in {"ledger", "trezor"} \ {v} :
               attempt[r][w] = "failed"
    <3>1. sel[r] # "working"
      <4>1. provider[r] = Nobody
        BY <2>1, <2>2, Whereabouts
      <4> QED BY <4>1 DEF IInv, SelectP!IInv, SelectP!TypeOK
    <3> QED BY <2>1, <2>2, <3>1
  <2>3. CASE UNCHANGED <<sel, timer, provider>>
    BY <2>1, <2>3
  <2> QED BY <1>4, <2>2, <2>3, SameSelect DEF Fail, Select!Fail
<1> QED BY <1>1, <1>2, <1>3, <1>4

\* A killed run lets go of its device, or of its search for one.
LEMMA DeathOfRun ==
  ASSUME IInv, NEW r \in Runs, Die(r)
  PROVE  /\ Node!Die(r) \/ Node!ConnectTimeout(r)
         /\ \E how \in {"failed", "dead"} : sel' = [sel EXCEPT ![r] = how]
<1>1. /\ MayDie /\ sel[r] \in {"selecting", "working"}
      /\ Node!Exit(r, "failed") /\ UNCHANGED <<fs, job, idx, keys, buf, log>>
  BY DEF Die, Select!Die, Select!Alive
<1>2. \E how \in {"failed", "dead"} : sel' = [sel EXCEPT ![r] = how]
  BY DEF Die, Select!Die, Select!Exit
<1>3. pc[r] = "wait" \/ pc[r] \in Node!Holding
  BY <1>1, Whereabouts
<1> QED BY <1>1, <1>2, <1>3 DEF Node!Die, Node!ConnectTimeout

\* A step of the whole is one of the commands, or leaves them alone.
LEMMA NodeStep == IInv /\ [Next]_vars => [Node!Next]_(Node!vars)
<1> SUFFICES ASSUME IInv, [Next]_vars PROVE [Node!Next]_(Node!vars)
  OBVIOUS
<1>1. ASSUME NEW r \in Runs, Start(r) PROVE Node!Next
  BY <1>1 DEF Start, Node!Next
<1>2. ASSUME NEW r \in Runs, Step(r) PROVE Node!Next
  BY <1>2 DEF Step, Node!Next, Node!Work
<1>3. ASSUME NEW r \in Runs, Timeout(r) \/ \E v \in {"ledger", "trezor"} : Fail(r, v)
      PROVE  [Node!Next]_(Node!vars)
  BY <1>3, EndOfSearch DEF Node!Next, Node!Work
<1>4. ASSUME NEW r \in Runs, Die(r) PROVE Node!Next
  BY <1>4, DeathOfRun DEF Node!Next, Node!Work
<1>5. ASSUME NEW r \in Runs, NEW v \in {"ledger", "trezor"}, Answer(r, v)
      PROVE  [Node!Next]_(Node!vars)
  BY <1>5, AnswerConnects DEF Node!Next, Node!Work
<1>6. CASE UNCHANGED vars
  BY <1>6 DEF vars, Node!vars
<1> QED BY <1>1, <1>2, <1>3, <1>4, <1>5, <1>6, SameSelect DEF Next

-----------------------------------------------------------------------------
(* The two stay together *)

\* Whatever happens to a run happens to its command and its search alike.
LEMMA CoupledStep == IInv /\ [Next]_vars => Coupled'
<1> SUFFICES ASSUME IInv, [Next]_vars PROVE Coupled'
  OBVIOUS
<1> USE Whereabouts DEF Coupled, Node!Holding, Node!KeyGenPoints, Node!IssuePoints
<1>1. ASSUME NEW r \in Runs, Start(r) PROVE Coupled'
  <2>1. pc[r] = "idle" /\ (pc' = [pc EXCEPT ![r] = "wait"] \/ pc' = [pc EXCEPT ![r] = "failed"])
    BY <1>1 DEF Start, Node!StartKeyGen, Node!StartIssue
  <2>2. CASE pc' = [pc EXCEPT ![r] = "wait"]
    <3>1. sel' = [sel EXCEPT ![r] = "selecting"]
      BY <1>1, <2>2 DEF Start, Select!Begin
    <3> QED BY <2>2, <3>1
  <2>3. CASE pc' = [pc EXCEPT ![r] = "failed"]
    <3>1. sel' = sel
      BY <1>1, <2>3 DEF Start
    <3> QED BY <2>1, <2>3, <3>1
  <2> QED BY <2>1, <2>2, <2>3
<1>2. ASSUME NEW r \in Runs, Step(r) PROVE Coupled'
  <2>1. Node!TypeOK
    BY DEF IInv
  <2>2. CASE \E how \in {"done", "failed"} : pc' = [pc EXCEPT ![r] = how]
    <3>1. sel' = [sel EXCEPT ![r] = "done"]
      BY <1>2, <2>2 DEF Step, Select!Finish, Select!Exit
    <3> QED BY <2>2, <3>1
  <2>3. CASE pc[r] \in Node!Holding /\ pc' = [pc EXCEPT ![r] = pc'[r]] /\ pc'[r] \in Node!Holding
    <3>1. sel' = sel
      BY <1>2, <2>3 DEF Step
    <3> QED BY <2>3, <3>1
  <2> QED BY <1>2, <2>1, <2>2, <2>3, CommandStep DEF Step
<1>3. ASSUME NEW r \in Runs, Timeout(r) \/ \E v \in {"ledger", "trezor"} : Fail(r, v)
      PROVE  Coupled'
  BY <1>3, EndOfSearch DEF Node!ConnectTimeout, Node!Exit, Node!vars
<1>4. ASSUME NEW r \in Runs, Die(r) PROVE Coupled'
  BY <1>4, DeathOfRun DEF Node!Die, Node!ConnectTimeout, Node!Exit
<1>5. ASSUME NEW r \in Runs, NEW v \in {"ledger", "trezor"}, Answer(r, v) PROVE Coupled'
  <2>1. CASE sel[r] = "selecting"
    <3>1. /\ sel' = [sel EXCEPT ![r] = "working"]
          /\ pc' = [pc EXCEPT ![r] = IF job[r].cmd = "keygen" THEN "loop" ELSE "read"]
      BY <1>5, <2>1, AnswerConnects DEF Node!Connect
    <3> QED BY <3>1
  <2>2. CASE sel[r] # "selecting"
    BY <1>5, <2>2, AnswerConnects DEF Node!vars
  <2> QED BY <2>1, <2>2
<1>6. CASE UNCHANGED vars
  BY <1>6 DEF vars
<1> QED BY <1>1, <1>2, <1>3, <1>4, <1>5, <1>6, SameSelect DEF Next

\* At first nothing has been started and nothing is sought.
LEMMA InitIInv == Init => IInv
<1>1. Init => Coupled
  BY DEF Init, Node!Init, Select!Init, Coupled, Node!Holding, Node!KeyGenPoints, Node!IssuePoints
<1> QED BY <1>1, SelectInvariant, NodeTypes DEF Init, IInv

\* The invariant of the whole: that of the search, the types of the commands, and that the
\* two are at the same point of each run.
THEOREM Invariance == Spec => []IInv
<1>1. IInv /\ [Next]_vars => IInv'
  BY SelectStep, NodeStep, CoupledStep, SelectInvariant, NodeTypes DEF IInv
<1> QED BY <1>1, InitIInv, PTL DEF Spec

\* Commands and their searches are well typed and never fall apart: a late answer, failure
\* or timer leaves the command where it is.
THEOREM TypeCorrect == Spec => []TypeOK
<1>1. IInv => TypeOK
  BY SameSelect DEF IInv, SelectP!IInv, TypeOK
<1> QED BY <1>1, Invariance, PTL

\* With getCryptoProvider as it is, the node commands do what OpCert says they do.
THEOREM NodeImplemented == Spec => ImplementsNode
<1>1. Init => Node!Init
  BY DEF Init
<1> QED BY <1>1, Invariance, NodeStep, PTL DEF Spec, ImplementsNode, Node!Spec

\* So what is proved of OpCert without assumptions on the devices holds of the whole: a
\* certificate is signed at the path of its own cold key, whichever device answered.
THEOREM WholeSignsAtColdPath == Spec => []Node!SignedAtColdPath
<1>1. NodeP!Spec => []NodeP!SignedAtColdPath
  BY NodeP!SignedByColdKey, NodeCliConstants
     DEF NodeP!OpCertConstants, NodeP!KeyGenCommandLines, Node!KeyGenCommandLines,
         NodeP!KeyGenEntry, Node!KeyGenEntry
<1>2. NodeP!SignedAtColdPath => Node!SignedAtColdPath
  BY DEF Node!SignedAtColdPath, NodeP!SignedAtColdPath
<1> QED BY <1>1, <1>2, SameNode, NodeImplemented, PTL DEF ImplementsNode, Node!Spec, NodeP!Spec

-----------------------------------------------------------------------------
(* The issue counters *)

\* A Ledger and a Trezor can be worked with at once: all that the whole needs of its
\* users is that two runs which do so write different files.
BothDevicesApart ==
  \A r, q \in Runs :
    provider[r] = "ledger" /\ provider[q] = "trezor" =>
      NodeP!Written(job[r]) \cap NodeP!Written(job[q]) = {}

\* A run works with a device that it has opened.
LEMMA WorksWithOpened ==
  IInv => \A r \in Runs : provider[r] \in {"ledger", "trezor"} =>
            /\ attempt[r][provider[r]] = "open"
            /\ \A q \in Runs : provider[q] = provider[r] => q = r
<1> SUFFICES ASSUME IInv, NEW r \in Runs, provider[r] \in {"ledger", "trezor"}
             PROVE  /\ attempt[r][provider[r]] = "open"
                    /\ \A q \in Runs : provider[q] = provider[r] => q = r
  OBVIOUS
<1>1. \A q \in Runs : provider[q] = provider[r] => attempt[q][provider[r]] = "open"
  BY Whereabouts, NodeCliConstants
<1>2. SelectP!Exclusive
  BY DEF IInv, SelectP!IInv
<1> QED BY <1>1, <1>2 DEF SelectP!Exclusive, SelectP!Providers

\* Two runs that work at the same time do so with the Ledger and the Trezor.
LEMMA ApartOnDevices == IInv /\ BothDevicesApart => NodeP!Apart
<1> SUFFICES ASSUME IInv, BothDevicesApart, NEW r \in Runs, NEW q \in Runs, r # q,
                    provider[r] # Nobody, provider[q] # Nobody
             PROVE  NodeP!Written(job[r]) \cap NodeP!Written(job[q]) = {}
  BY DEF NodeP!Apart
<1>1. provider[r] \in {"ledger", "trezor"} /\ provider[q] \in {"ledger", "trezor"}
  BY Whereabouts
<1>2. provider[r] # provider[q]
  BY <1>1, WorksWithOpened
<1> QED BY <1>1, <1>2 DEF BothDevicesApart

\* The rules of the issue counters say the same of NodeP and of Node.
LEMMA SameRules ==
  /\ NodeP!CounterTracksLog => Node!CounterTracksLog
  /\ NodeP!NumberConsumed => Node!NumberConsumed
  /\ NodeP!SuccessLeavesBothFiles => Node!SuccessLeavesBothFiles
  /\ NodeP!PublishesInOrder => Node!PublishesInOrder
<1>1. NodeP!CounterTracksLog => Node!CounterTracksLog
  BY DEF NodeP!CounterTracksLog, Node!CounterTracksLog, NodeP!NextNumbers, Node!NextNumbers
<1>2. NodeP!NumberConsumed => Node!NumberConsumed
  BY DEF NodeP!NumberConsumed, Node!NumberConsumed
<1>3. NodeP!SuccessLeavesBothFiles => Node!SuccessLeavesBothFiles
  BY PTL DEF NodeP!SuccessLeavesBothFiles, Node!SuccessLeavesBothFiles, NodeP!CounterFile,
         Node!CounterFile, NodeP!vars, Node!vars
<1>4. NodeP!PublishesInOrder => Node!PublishesInOrder
  BY PTL DEF NodeP!PublishesInOrder, Node!PublishesInOrder, NodeP!Ledger!Spec, Node!Ledger!Spec,
         NodeP!Ledger!Init, Node!Ledger!Init, NodeP!Ledger!Next, Node!Ledger!Next,
         NodeP!Ledger!Issue, Node!Ledger!Issue, NodeP!Ledger!Reset, Node!Ledger!Reset,
         NodeP!Ledger!Acceptable, Node!Ledger!Acceptable, NodeP!Numbers, Node!Numbers
<1> QED BY <1>1, <1>2, <1>3, <1>4

\* While runs on the Ledger and on the Trezor write different files, node key-gen and
\* issue-op-cert keep the issue counters in step with the certificates, obey the chain's
\* rule and leave both files, with the search for devices as it is: the device, held to
\* the exit of the process, is the lock that the files lack.
THEOREM WholeIssuesInOrder ==
  Spec /\ []BothDevicesApart =>
    /\ []Node!CounterTracksLog
    /\ []Node!NumberConsumed
    /\ Node!SuccessLeavesBothFiles
    /\ Node!PublishesInOrder
<1>1. Spec /\ []BothDevicesApart => []NodeP!Apart
  BY Invariance, ApartOnDevices, PTL
<1>2. Spec => NodeP!Spec
  BY SameNode, NodeImplemented, PTL DEF ImplementsNode, Node!Spec, NodeP!Spec
<1>3. NodeP!OpCertConstants
  BY NodeCliConstants DEF NodeP!OpCertConstants, NodeP!KeyGenCommandLines, Node!KeyGenCommandLines,
         NodeP!KeyGenEntry, Node!KeyGenEntry
<1>4. NodeP!Spec /\ []NodeP!Apart =>
        /\ []NodeP!CounterTracksLog
        /\ []NodeP!NumberConsumed
        /\ NodeP!SuccessLeavesBothFiles
        /\ NodeP!PublishesInOrder
  BY <1>3, NodeP!CounterNeverSkips, NodeP!SuccessConsumes, NodeP!SuccessFiles,
     NodeP!ImplementsLedger
<1> QED BY <1>1, <1>2, <1>4, SameRules, PTL
=============================================================================
