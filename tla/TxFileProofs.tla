---------------------------- MODULE TxFileProofs -----------------------------
(***************************************************************************)
(* Proofs about TxFile, for any number of commands, files and              *)
(* transactions.  Files change under a run at any time; what carries the   *)
(* argument is what the run has in memory: it has checked the transaction  *)
(* it holds, and it writes nothing else.                                   *)
(***************************************************************************)
EXTENDS TxFile, TLAPS

\* A run that writes has passed the check of its command on the transaction it holds.
CheckedBeforeWriting ==
  \A r \in Runs : pc[r] \in {"truncate", "fill"} =>
    /\ job[r].cmd = "transform" => Transforms(buf[r])
    /\ job[r].cmd = "witness" => Witnesses(buf[r])

\* The command and the files of a run are those of its command line.
JobMatchesPc ==
  \A r \in Runs :
    /\ pc[r] \in {"validate", "transform", "witness"} => job[r] \in Jobs /\ job[r].cmd = pc[r]
    /\ pc[r] \in {"truncate", "fill"} =>
         job[r] \in Jobs /\ job[r].cmd \in {"transform", "witness"}

\* A hardware witness signs a canonical body.
HwSignsCanonical ==
  \A f \in WitnessFiles :
    fs[f].kind = "witness" /\ fs[f].signer = "hw" => fs[f].body = "canonical"

IInv == TypeOK /\ JobMatchesPc /\ CheckedBeforeWriting /\ HwSignsCanonical

-----------------------------------------------------------------------------

\* A file of a kind is of that type.
LEMMA KindOfFile ==
  ASSUME TypeOK, NEW f \in Files
  PROVE  /\ fs[f].kind = "tx" => fs[f] \in Tx /\ f \in TxFiles
         /\ fs[f].kind = "witness" => fs[f] \in Witness
BY DEF TypeOK, Tx, Witness, None, Torn

\* A run at work holds a transaction.
LEMMA BufType ==
  ASSUME TypeOK, NEW r \in Runs, pc[r] \notin {"idle", "ended"}
  PROVE  buf[r] \in Tx
BY DEF TypeOK

\* What transformTx leaves as it is, and what it does not.
LEMMA TransformedType ==
  ASSUME NEW tx \in Tx
  PROVE  /\ Transformed(tx) \in Tx
         /\ Transformed(tx).kind = "tx"
         /\ Transformed(tx).content = tx.content
         /\ Transformed(tx).body = "canonical"
         /\ Transformed(tx).vkeys = tx.vkeys
BY DEF Transformed, Tx, Encodings

\* A witness is of the body that was signed.
LEMMA SignType ==
  ASSUME NEW tx \in Tx, NEW s \in {"hw", "cli"}
  PROVE  /\ Sign(s, tx) \in Witness
         /\ Sign(s, tx).kind = "witness"
         /\ Sign(s, tx).signer = s
         /\ Sign(s, tx).body = tx.body
BY DEF Sign, Witness, Tx

\* Transactions and witnesses are written to files of their own kind.
LEMMA OutFile ==
  ASSUME NEW j \in Jobs
  PROVE  /\ j.cmd = "transform" => j.out \in TxFiles
         /\ j.cmd = "witness" => j.out \in WitnessFiles
BY DEF Jobs

\* There are no files at first.
LEMMA InitIInv == Init => IInv
<1> SUFFICES ASSUME Init PROVE IInv
  OBVIOUS
<1>1. TypeOK
  <2>1. fs \in [Files -> Tx \cup Witness \cup {None, Torn}]
    BY DEF Init
  <2>2. \A f \in Files : fs[f].kind # "tx"
    BY DEF Init, None
  <2>3. /\ pc \in [Runs -> {"idle"}]
        /\ job \in [Runs -> {NoJob}]
        /\ buf \in [Runs -> {None}]
        /\ exit \in [Runs -> {Running}]
        /\ cli \in 0 .. MaxCli
    BY TxFileConstants DEF Init
  <2> QED BY <2>1, <2>2, <2>3 DEF TypeOK
<1>2. JobMatchesPc /\ CheckedBeforeWriting
  BY DEF Init, JobMatchesPc, CheckedBeforeWriting
<1>3. HwSignsCanonical
  BY DEF Init, HwSignsCanonical, None, Files
<1> QED BY <1>1, <1>2, <1>3 DEF IInv

CliMayWrite(f, c) ==
  \/ c.kind = "tx" /\ f \in TxFiles
  \/ c.kind = "witness" /\ c.signer = "cli" /\ f \in WitnessFiles

\* cardano-cli does not touch the runs, and writes no hardware witness.
LEMMA CliIInv == IInv /\ CliNext => IInv'
<1> SUFFICES ASSUME IInv, CliNext PROVE IInv'
  OBVIOUS
<1>1. UNCHANGED <<pc, job, buf, exit>> /\ cli < MaxCli /\ cli' = cli + 1
  BY DEF CliNext, Build, CliWitness, Assemble, CliStep
<1>2. PICK out \in Files, c \in Tx \cup Witness :
        /\ fs' = [fs EXCEPT ![out] = c]
        /\ CliMayWrite(out, c)
  <2>1. ASSUME NEW f \in TxFiles, Build(f)
        PROVE  \E out \in Files, c \in Tx \cup Witness :
                 /\ fs' = [fs EXCEPT ![out] = c]
                 /\ CliMayWrite(out, c)
    <3>1. PICK k \in Contents, b \in Encodings, rest \in {"canonical", "fixable"} :
            fs' = [fs EXCEPT ![f] = [kind |-> "tx", content |-> k, body |-> b,
                                     rest |-> rest, vkeys |-> {}]]
      BY <2>1 DEF Build
    <3> DEFINE c == [kind |-> "tx", content |-> k, body |-> b, rest |-> rest, vkeys |-> {}]
    <3>2. c \in Tx /\ c.kind = "tx"
      BY DEF Tx
    <3>3. fs' = [fs EXCEPT ![f] = c]
      BY <3>1
    <3> HIDE DEF c
    <3> QED BY <3>2, <3>3 DEF Files, CliMayWrite
  <2>2. ASSUME NEW f \in TxFiles, NEW w \in WitnessFiles, CliWitness(f, w)
        PROVE  \E out \in Files, c \in Tx \cup Witness :
                 /\ fs' = [fs EXCEPT ![out] = c]
                 /\ CliMayWrite(out, c)
    <3>1. fs[f] \in Tx /\ fs' = [fs EXCEPT ![w] = Sign("cli", fs[f])]
      BY <2>2, KindOfFile DEF CliWitness, IInv, Files
    <3> QED BY <3>1, SignType DEF Files, CliMayWrite
  <2>3. ASSUME NEW f \in TxFiles, NEW out \in TxFiles, NEW ws \in SUBSET WitnessFiles,
               Assemble(f, ws, out)
        PROVE  \E g \in Files, c \in Tx \cup Witness :
                 /\ fs' = [fs EXCEPT ![g] = c]
                 /\ CliMayWrite(g, c)
    <3>1. PICK rest \in {"canonical", "fixable"} :
            fs' = [fs EXCEPT ![out] =
                     [fs[f] EXCEPT !.vkeys = @ \cup {fs[w] : w \in ws}, !.rest = rest]]
      BY <2>3 DEF Assemble
    <3>2. fs[f] \in Tx
      BY <2>3, KindOfFile DEF Assemble, IInv, Files
    <3>3. {fs[w] : w \in ws} \subseteq Witness
      BY <2>3, KindOfFile DEF Assemble, IInv, Files
    <3> DEFINE c == [fs[f] EXCEPT !.vkeys = @ \cup {fs[w] : w \in ws}, !.rest = rest]
    <3>4. c \in Tx /\ c.kind = "tx"
      BY <3>2, <3>3 DEF Tx
    <3> HIDE DEF c
    <3>5. fs' = [fs EXCEPT ![out] = c]
      BY <3>1 DEF c
    <3> QED BY <3>4, <3>5 DEF Files, CliMayWrite
  <2> QED BY <2>1, <2>2, <2>3 DEF CliNext
<1>3. fs \in [Files -> Tx \cup Witness \cup {None, Torn}]
  BY DEF IInv, TypeOK
<1>4. TypeOK'
  <2>1. fs' \in [Files -> Tx \cup Witness \cup {None, Torn}]
    BY <1>2, <1>3
  <2>2. \A f \in Files : fs'[f].kind = "tx" => f \in TxFiles
    BY <1>2, <1>3 DEF IInv, TypeOK, CliMayWrite
  <2>3. cli' \in 0 .. MaxCli
    BY <1>1, TxFileConstants DEF IInv, TypeOK
  <2>4. /\ pc' \in [Runs -> {"idle", "validate", "transform", "witness", "truncate", "fill",
                            "ended"}]
        /\ job' \in [Runs -> Jobs \cup {NoJob}]
        /\ buf' \in [Runs -> Tx \cup {None}]
        /\ exit' \in [Runs -> ExitCodes \cup {Running}]
        /\ \A r \in Runs : pc'[r] \notin {"idle", "ended"} => buf'[r] # None
    BY <1>1 DEF IInv, TypeOK
  <2> QED BY <2>1, <2>2, <2>3, <2>4 DEF TypeOK
<1>5. JobMatchesPc' /\ CheckedBeforeWriting'
  BY <1>1 DEF IInv, JobMatchesPc, CheckedBeforeWriting
<1>6. HwSignsCanonical'
  BY <1>2, <1>3, TxFileConstants DEF IInv, HwSignsCanonical, Files, CliMayWrite
<1> QED BY <1>4, <1>5, <1>6 DEF IInv

-----------------------------------------------------------------------------
(* The steps of a run *)

ReadsOnly(r) ==
  Start(r) \/ Validate(r) \/ Transform(r) \/ RefuseTransform(r) \/ DeviceSigns(r)
    \/ RefuseWitness(r) \/ Die(r)

\* Up to the moment it writes, a run changes no file.
LEMMA ReadsOnlyIInv ==
  ASSUME IInv, NEW r \in Runs, ReadsOnly(r)
  PROVE  IInv'
<1>1. UNCHANGED <<fs, cli>>
  BY DEF ReadsOnly, Start, Validate, Transform, RefuseTransform, DeviceSigns, RefuseWitness,
         Die, Exit
<1>2. HwSignsCanonical'
  BY <1>1 DEF IInv, HwSignsCanonical
<1>3. ASSUME Start(r)
      PROVE  TypeOK' /\ JobMatchesPc' /\ CheckedBeforeWriting'
  <2>1. PICK j \in Jobs :
          /\ job' = [job EXCEPT ![r] = j]
          /\ IF fs[j.tx].kind = "tx"
               THEN /\ buf' = [buf EXCEPT ![r] = fs[j.tx]]
                    /\ pc' = [pc EXCEPT ![r] = j.cmd]
                    /\ UNCHANGED exit
               ELSE Exit(r, 1) /\ UNCHANGED buf
    BY <1>3 DEF Start
  <2>2. j.tx \in Files /\ j.cmd \in {"validate", "transform", "witness"}
    BY DEF Jobs, Files
  <2>3. CASE fs[j.tx].kind = "tx"
    <3>1. fs[j.tx] \in Tx
      BY <2>2, <2>3, KindOfFile DEF IInv
    <3>2. fs[j.tx] # None
      BY <2>3 DEF None
    <3> QED BY <1>1, <2>1, <2>2, <2>3, <3>1, <3>2
            DEF IInv, TypeOK, JobMatchesPc, CheckedBeforeWriting
  <2>4. CASE fs[j.tx].kind # "tx"
    BY <1>1, <2>1, <2>4 DEF IInv, TypeOK, JobMatchesPc, CheckedBeforeWriting, Exit, ExitCodes
  <2> QED BY <2>3, <2>4
<1>4. ASSUME Validate(r) \/ RefuseTransform(r) \/ RefuseWitness(r) \/ Die(r)
      PROVE  TypeOK' /\ JobMatchesPc' /\ CheckedBeforeWriting'
  <2>1. /\ pc' = [pc EXCEPT ![r] = "ended"]
        /\ UNCHANGED <<job, buf>>
    BY <1>4 DEF Validate, RefuseTransform, RefuseWitness, Die, Exit
  <2>2. exit' \in [Runs -> ExitCodes \cup {Running}]
    BY <1>4 DEF Validate, RefuseTransform, RefuseWitness, Die, Exit, IInv, TypeOK, ExitCodes
  <2> QED BY <1>1, <2>1, <2>2 DEF IInv, TypeOK, JobMatchesPc, CheckedBeforeWriting
<1>5. ASSUME Transform(r) \/ DeviceSigns(r)
      PROVE  TypeOK' /\ JobMatchesPc' /\ CheckedBeforeWriting'
  <2>1. /\ pc' = [pc EXCEPT ![r] = "truncate"]
        /\ UNCHANGED <<job, buf, exit>>
    BY <1>5 DEF Transform, DeviceSigns
  <2>2. /\ job[r] \in Jobs /\ job[r].cmd \in {"transform", "witness"}
        /\ job[r].cmd = "transform" => Transforms(buf[r])
        /\ job[r].cmd = "witness" => Witnesses(buf[r])
        /\ pc[r] \notin {"idle", "ended"}
    BY <1>5 DEF Transform, DeviceSigns, IInv, JobMatchesPc
  <2> QED BY <1>1, <2>1, <2>2 DEF IInv, TypeOK, JobMatchesPc, CheckedBeforeWriting
<1> QED BY <1>2, <1>3, <1>4, <1>5 DEF IInv, ReadsOnly

\* What a run writes: the transaction transformed, or a witness of a canonical body.
LEMMA Output ==
  ASSUME IInv, NEW r \in Runs, pc[r] = "fill",
         NEW c, c = IF job[r].cmd = "witness" THEN Sign("hw", buf[r]) ELSE Transformed(buf[r])
  PROVE  \/ job[r].cmd = "transform" /\ c \in Tx /\ c.kind = "tx" /\ job[r].out \in TxFiles
         \/ /\ job[r].cmd = "witness" /\ c \in Witness /\ c.kind = "witness"
            /\ c.body = "canonical" /\ job[r].out \in WitnessFiles
<1>1. buf[r] \in Tx /\ job[r] \in Jobs /\ job[r].cmd \in {"transform", "witness"}
  BY BufType DEF IInv, JobMatchesPc
<1>2. CASE job[r].cmd = "transform"
  BY <1>1, <1>2, OutFile, TransformedType
<1>3. CASE job[r].cmd = "witness"
  <2>1. buf[r].body = "canonical"
    BY <1>1, <1>3 DEF IInv, CheckedBeforeWriting, Witnesses, ContainsUnfixable, ContainsFixable,
                      Tx, Encodings
  <2> QED BY <1>1, <1>3, <2>1, OutFile, SignType
<1> QED BY <1>1, <1>2, <1>3

\* A torn file is neither a transaction nor a witness.
LEMMA TruncateIInv ==
  ASSUME IInv, NEW r \in Runs, Truncate(r)
  PROVE  IInv'
<1>1. /\ fs' = [fs EXCEPT ![job[r].out] = Torn]
      /\ pc' = [pc EXCEPT ![r] = "fill"]
      /\ UNCHANGED <<job, buf, exit, cli>>
      /\ pc[r] = "truncate"
  BY DEF Truncate
<1>2. /\ fs' \in [Files -> Tx \cup Witness \cup {None, Torn}]
      /\ \A f \in Files : fs'[f] = fs[f] \/ fs'[f] = Torn
  BY <1>1 DEF IInv, TypeOK
<1>3. TypeOK'
  <2>1. \A f \in Files : fs'[f].kind = "tx" => f \in TxFiles
    BY <1>2 DEF IInv, TypeOK, Torn
  <2> QED BY <1>1, <1>2, <2>1 DEF IInv, TypeOK
<1>4. JobMatchesPc' /\ CheckedBeforeWriting'
  BY <1>1 DEF IInv, TypeOK, JobMatchesPc, CheckedBeforeWriting
<1>5. HwSignsCanonical'
  BY <1>2 DEF IInv, HwSignsCanonical, Torn, Files
<1> QED BY <1>3, <1>4, <1>5 DEF IInv

\* What a run writes has been checked.
LEMMA FillIInv ==
  ASSUME IInv, NEW r \in Runs, Fill(r)
  PROVE  IInv'
<1> DEFINE c == IF job[r].cmd = "witness" THEN Sign("hw", buf[r]) ELSE Transformed(buf[r])
<1>1. /\ fs' = [fs EXCEPT ![job[r].out] = c]
      /\ pc' = [pc EXCEPT ![r] = "ended"]
      /\ exit' = [exit EXCEPT ![r] = 0]
      /\ UNCHANGED <<job, buf, cli>>
      /\ pc[r] = "fill"
  BY DEF Fill, Exit
<1>2. \/ c \in Tx /\ c.kind = "tx" /\ job[r].out \in TxFiles
      \/ /\ c \in Witness /\ c.kind = "witness"
         /\ c.body = "canonical" /\ job[r].out \in WitnessFiles
  BY <1>1, Output
<1> HIDE DEF c
<1>3. TypeOK'
  <2>1. fs' \in [Files -> Tx \cup Witness \cup {None, Torn}]
    BY <1>1, <1>2 DEF IInv, TypeOK
  <2>2. \A f \in Files : fs'[f].kind = "tx" => f \in TxFiles
    BY <1>1, <1>2 DEF IInv, TypeOK
  <2> QED BY <1>1, <2>1, <2>2 DEF IInv, TypeOK, ExitCodes
<1>4. JobMatchesPc' /\ CheckedBeforeWriting'
  BY <1>1 DEF IInv, TypeOK, JobMatchesPc, CheckedBeforeWriting
<1>5. HwSignsCanonical'
  BY <1>1, <1>2, TxFileConstants DEF IInv, TypeOK, HwSignsCanonical, Files
<1> QED BY <1>3, <1>4, <1>5 DEF IInv

\* The steps of cardano-cli and of the runs together.
LEMMA NextIInv == IInv /\ [Next]_vars => IInv'
<1> SUFFICES ASSUME IInv, [Next]_vars PROVE IInv'
  OBVIOUS
<1>1. CASE CliNext
  BY <1>1, CliIInv
<1>2. ASSUME NEW r \in Runs, RunNext(r) PROVE IInv'
  BY <1>2, ReadsOnlyIInv, TruncateIInv, FillIInv DEF RunNext, ReadsOnly
<1>3. CASE UNCHANGED vars
  BY <1>3 DEF IInv, TypeOK, JobMatchesPc, CheckedBeforeWriting, HwSignsCanonical, vars
<1> QED BY <1>1, <1>2, <1>3 DEF Next

-----------------------------------------------------------------------------

\* In every state a run that is about to write has checked, for its command, the
\* transaction it holds (transformTx, validateTxBeforeWitnessing), and hardware
\* witnesses sign canonical bodies only.
THEOREM Invariance == Spec => []IInv
<1> QED BY InitIInv, NextIInv, PTL DEF Spec

\* Files hold what the commands write and only files named as transactions hold
\* transactions; a run that is at work holds the transaction it parsed.
THEOREM TypeCorrect == Spec => []TypeOK
<1>1. IInv => TypeOK
  BY DEF IInv
<1> QED BY <1>1, Invariance, PTL

\* A hardware witness fits every canonical file of its transaction, however many
\* commands and steps of cardano-cli come between: validateTxBeforeWitnessing lets
\* only canonical transactions through to the device.
THEOREM HwWitnessesFit == Spec => []HwWitnessFits
<1>1. IInv => HwWitnessFits
  BY DEF IInv, HwSignsCanonical, HwWitnessFits, Fits
<1> QED BY <1>1, Invariance, PTL

\* A run has no exit code before it ends.
NoExitCodeYet == \A r \in Runs : pc[r] # "ended" => exit[r] = Running

\* A run has its exit code only when it has ended.
LEMMA ExitCodesLast == Spec => []NoExitCodeYet
<1>1. Init => NoExitCodeYet
  BY DEF Init, NoExitCodeYet
<1>2. IInv /\ NoExitCodeYet /\ [Next]_vars => NoExitCodeYet'
  <2> SUFFICES ASSUME IInv, NoExitCodeYet, [Next]_vars PROVE NoExitCodeYet'
    OBVIOUS
  <2>1. CASE CliNext
    BY <2>1 DEF NoExitCodeYet, CliNext, Build, CliWitness, Assemble, CliStep
  <2>2. ASSUME NEW r \in Runs, RunNext(r)
        PROVE  /\ \A q \in Runs : q # r => pc'[q] = pc[q] /\ exit'[q] = exit[q]
               /\ pc'[r] # "ended" => exit' = exit /\ pc[r] # "ended"
    <3>1. CASE Start(r)
      BY <3>1 DEF Start, Exit, IInv, TypeOK, Jobs
    <3>2. CASE ~Start(r)
      BY <2>2, <3>2 DEF RunNext, Validate, Transform, RefuseTransform, DeviceSigns, RefuseWitness,
                        Truncate, Fill, Die, Exit, IInv, TypeOK
    <3> QED BY <3>1, <3>2
  <2>3. CASE UNCHANGED vars
    BY <2>3 DEF NoExitCodeYet, vars
  <2> QED BY <2>1, <2>2, <2>3 DEF NoExitCodeYet, Next
<1> QED BY <1>1, <1>2, Invariance, PTL DEF Spec

\* Only a run that fills its file comes by exit code 0 from there.
LEMMA EndsByFilling ==
  ASSUME IInv, NoExitCodeYet, [Next]_vars, NEW r \in Runs, pc[r] = "fill", exit'[r] = 0
  PROVE  Fill(r)
<1>1. exit[r] # 0
  BY DEF NoExitCodeYet, Running
<1>2. ASSUME NEW q \in Runs, RunNext(q), q # r PROVE exit'[r] = exit[r]
  BY <1>2 DEF RunNext, Start, Validate, Transform, RefuseTransform, DeviceSigns, RefuseWitness,
              Truncate, Fill, Die, Exit, IInv, TypeOK
<1>3. CliNext => exit' = exit
  BY DEF CliNext, Build, CliWitness, Assemble, CliStep
<1>4. RunNext(r) => Fill(r) \/ Die(r)
  BY DEF RunNext, Start, Validate, Transform, RefuseTransform, DeviceSigns, RefuseWitness,
         Truncate
<1>5. Die(r) => exit' = exit
  BY DEF Die
<1> QED BY <1>1, <1>2, <1>3, <1>4, <1>5 DEF Next, vars

\* What transform agrees to rewrite while it is signed is canonical already.
LEMMA SignedIsCanonical ==
  ASSUME NEW tx \in Tx, Transforms(tx), tx.vkeys # {}
  PROVE  tx.body = "canonical"
<1>1. Transformed(tx).vkeys # {}
  BY TransformedType
<1> QED BY <1>1 DEF Transforms, ContainsUnfixable, ContainsFixable, ContainsVKeyWitnesses,
                    Tx, Encodings

\* transformTx repairs nothing that is signed, so whatever witness verified in the
\* transaction it read is in the file it writes and verifies there.
THEOREM WitnessesSurvive == Spec => TransformKeepsWitnesses
<1> DEFINE Keeps(r) ==
      (pc[r] = "fill" /\ exit'[r] = 0 /\ job[r].cmd = "transform")
        => LET written == fs'[job[r].out]
           IN \A w \in buf[r].vkeys :
                Fits(w, buf[r]) =>
                  written.kind = "tx" /\ w \in written.vkeys /\ Fits(w, written)
<1>1. ASSUME IInv, NoExitCodeYet, [Next]_vars, NEW r \in Runs PROVE Keeps(r)
  <2> SUFFICES ASSUME pc[r] = "fill", exit'[r] = 0, job[r].cmd = "transform",
                      NEW w \in buf[r].vkeys, Fits(w, buf[r])
               PROVE  LET written == fs'[job[r].out]
                      IN written.kind = "tx" /\ w \in written.vkeys /\ Fits(w, written)
    OBVIOUS
  <2>1. fs' = [fs EXCEPT ![job[r].out] = Transformed(buf[r])]
    BY <1>1, EndsByFilling DEF Fill
  <2>2. buf[r] \in Tx /\ job[r].out \in TxFiles
    BY <1>1, BufType, OutFile DEF IInv, JobMatchesPc
  <2>3. fs'[job[r].out] = Transformed(buf[r])
    BY <1>1, <2>1, <2>2 DEF IInv, TypeOK, Files
  <2>4. buf[r].body = "canonical"
    BY <1>1, <2>2, SignedIsCanonical DEF IInv, CheckedBeforeWriting
  <2> QED BY <2>2, <2>3, <2>4, TransformedType DEF Fits
<1>2. IInv /\ NoExitCodeYet /\ [Next]_vars => [\A r \in Runs : Keeps(r)]_vars
  BY <1>1
<1> QED BY <1>2, Invariance, ExitCodesLast, PTL DEF Spec, TransformKeepsWitnesses

-----------------------------------------------------------------------------
(* What validate says, the others do *)

\* What README.md:49-53 says of the exit codes of validate, as a promise about the other
\* commands on the same transaction, whenever they run: 0, transform and witness have
\* nothing against it; 2, neither succeeds; 3, transform repairs it, here if it holds no key
\* witnesses, and until then witness does not sign it.
ValidatePredicts ==
  \A r, q \in Runs :
    job[r].cmd = "validate" /\ buf[q] = buf[r] =>
      /\ exit[r] = 0 =>
           /\ Witnesses(buf[q])
           /\ job[q].cmd = "transform" => exit[q] # 1
      /\ exit[r] = 2 => (job[q].cmd \in {"transform", "witness"} => exit[q] # 0)
      /\ exit[r] = 3 =>
           /\ job[q].cmd = "witness" => exit[q] # 0
           /\ job[q].cmd = "transform" /\ buf[q].vkeys = {} => exit[q] # 1

\* An exit code is what the transaction that the run holds deserves.
Deserved(r) ==
  /\ pc[r] = "idle" => buf[r] = None
  /\ exit[r] \in {0, 2, 3} => buf[r] \in Tx
  /\ job[r].cmd = "validate" =>
       /\ exit[r] = 0 => ~ContainsUnfixable(buf[r]) /\ ~ContainsFixable(buf[r])
       /\ exit[r] = 2 => ContainsUnfixable(buf[r])
       /\ exit[r] = 3 => ~ContainsUnfixable(buf[r]) /\ ContainsFixable(buf[r])
  /\ job[r].cmd = "transform" =>
       /\ exit[r] = 0 => Transforms(buf[r])
       /\ exit[r] = 1 => buf[r] = None \/ ~Transforms(buf[r])
  /\ job[r].cmd = "witness" /\ exit[r] = 0 => Witnesses(buf[r])

\* A run ends with what it deserves.
LEMMA DeservedStep ==
  ASSUME IInv, NoExitCodeYet, NEW r \in Runs, Deserved(r), RunNext(r)
  PROVE  Deserved(r)'
<1> USE DEF IInv, TypeOK
<1>0. pc[r] \notin {"idle", "ended"} => buf[r] \in Tx /\ exit[r] = Running
  BY BufType DEF NoExitCodeYet
<1>1. CASE Start(r)
  <2>1. PICK j \in Jobs :
          /\ job' = [job EXCEPT ![r] = j]
          /\ IF fs[j.tx].kind = "tx"
               THEN /\ buf' = [buf EXCEPT ![r] = fs[j.tx]]
                    /\ pc' = [pc EXCEPT ![r] = j.cmd]
                    /\ UNCHANGED exit
               ELSE Exit(r, 1) /\ UNCHANGED buf
    BY <1>1 DEF Start
  <2>2. pc[r] = "idle" /\ buf[r] = None /\ exit[r] = Running
    BY <1>1 DEF Start, Deserved, NoExitCodeYet
  <2>3. CASE fs[j.tx].kind = "tx"
    <3>1. j.cmd # "idle"
      BY DEF Jobs
    <3> QED BY <2>1, <2>2, <2>3, <3>1 DEF Deserved, Running
  <2>4. CASE fs[j.tx].kind # "tx"
    BY <2>1, <2>2, <2>4 DEF Deserved, Exit
  <2> QED BY <2>3, <2>4
<1>2. CASE Validate(r)
  <2>1. /\ job' = job /\ buf' = buf /\ pc'[r] = "ended" /\ buf[r] \in Tx
        /\ job[r].cmd = "validate"
        /\ exit'[r] = IF ContainsUnfixable(buf[r]) THEN 2
                      ELSE IF ContainsFixable(buf[r]) THEN 3 ELSE 0
    BY <1>0, <1>2 DEF Validate, Exit, JobMatchesPc
  <2> QED BY <2>1 DEF Deserved, ContainsUnfixable, ContainsFixable
<1>3. CASE Transform(r) \/ DeviceSigns(r) \/ Truncate(r)
  <2>1. /\ job' = job /\ buf' = buf /\ exit' = exit /\ pc'[r] \in {"truncate", "fill"}
        /\ exit[r] = Running
    BY <1>0, <1>3 DEF Transform, DeviceSigns, Truncate
  <2> QED BY <2>1 DEF Deserved, Running
<1>4. CASE RefuseTransform(r)
  <2>1. /\ job' = job /\ buf' = buf /\ exit'[r] = 1 /\ pc'[r] = "ended"
        /\ job[r].cmd = "transform" /\ ~Transforms(buf[r])
    BY <1>4 DEF RefuseTransform, Exit, JobMatchesPc
  <2> QED BY <2>1 DEF Deserved, Transforms, ContainsUnfixable, ContainsFixable,
                      ContainsVKeyWitnesses, Transformed
<1>5. CASE RefuseWitness(r)
  <2>1. /\ job' = job /\ buf' = buf /\ exit'[r] = 1 /\ pc'[r] = "ended"
        /\ job[r].cmd = "witness"
    BY <1>5 DEF RefuseWitness, Exit, JobMatchesPc
  <2> QED BY <2>1 DEF Deserved
<1>6. CASE Fill(r)
  <2>1. /\ job' = job /\ buf' = buf /\ exit'[r] = 0 /\ pc'[r] = "ended"
        /\ buf[r] \in Tx
    BY <1>0, <1>6 DEF Fill, Exit
  <2>2. /\ job[r].cmd \in {"transform", "witness"}
        /\ job[r].cmd = "transform" => Transforms(buf[r])
        /\ job[r].cmd = "witness" => Witnesses(buf[r])
    BY <1>6 DEF Fill, JobMatchesPc, CheckedBeforeWriting
  <2> QED BY <2>1, <2>2 DEF Deserved, Transforms, Witnesses, ContainsUnfixable, ContainsFixable,
                      ContainsVKeyWitnesses, Transformed
<1>7. CASE Die(r)
  <2>1. job' = job /\ buf' = buf /\ exit' = exit /\ pc'[r] = "ended" /\ exit[r] = Running
    BY <1>0, <1>7 DEF Die
  <2> QED BY <2>1 DEF Deserved, Running
<1> QED BY <1>1, <1>2, <1>3, <1>4, <1>5, <1>6, <1>7 DEF RunNext

\* The README is right about the exit codes of validate, except where the finding about code 3
\* says: a run that holds the same transaction fares as it was told.
THEOREM ExitCodesPredict == Spec => []ValidatePredicts
<1> DEFINE AllDeserved == \A r \in Runs : Deserved(r)
<1>1. Init => AllDeserved
  <2> SUFFICES ASSUME Init, NEW r \in Runs PROVE Deserved(r)
    OBVIOUS
  <2>1. buf[r] = None /\ job[r].cmd = "none" /\ exit[r] = 99
    BY DEF Init, NoJob, Running
  <2> QED BY <2>1 DEF Deserved
<1>2. IInv /\ NoExitCodeYet /\ AllDeserved /\ [Next]_vars => AllDeserved'
  <2> SUFFICES ASSUME IInv, NoExitCodeYet, AllDeserved, [Next]_vars, NEW q \in Runs
               PROVE  Deserved(q)'
    OBVIOUS
  <2>1. CASE <<pc[q], job[q], buf[q], exit[q]>>' = <<pc[q], job[q], buf[q], exit[q]>>
    <3>1. pc'[q] = pc[q] /\ job'[q] = job[q] /\ buf'[q] = buf[q] /\ exit'[q] = exit[q]
      BY <2>1
    <3> QED BY <3>1 DEF Deserved
  <2>2. CliNext => <<pc[q], job[q], buf[q], exit[q]>>' = <<pc[q], job[q], buf[q], exit[q]>>
    BY DEF CliNext, Build, CliWitness, Assemble, CliStep
  <2>3. ASSUME NEW r \in Runs, r # q, RunNext(r)
        PROVE  <<pc[q], job[q], buf[q], exit[q]>>' = <<pc[q], job[q], buf[q], exit[q]>>
    BY <2>3 DEF RunNext, Start, Validate, Transform, RefuseTransform, DeviceSigns, RefuseWitness,
                Truncate, Fill, Die, Exit, IInv, TypeOK
  <2>4. RunNext(q) => Deserved(q)'
    BY DeservedStep
  <2> QED BY <2>1, <2>2, <2>3, <2>4 DEF Next, vars
<1>3. IInv /\ AllDeserved => ValidatePredicts
  <2> SUFFICES ASSUME IInv, AllDeserved, NEW r \in Runs, NEW q \in Runs,
                      job[r].cmd = "validate", buf[q] = buf[r], exit[r] \in {0, 2, 3}
               PROVE  /\ exit[r] = 0 =>
                           /\ Witnesses(buf[q])
                           /\ job[q].cmd = "transform" => exit[q] # 1
                      /\ exit[r] = 2 => (job[q].cmd \in {"transform", "witness"} => exit[q] # 0)
                      /\ exit[r] = 3 =>
                           /\ job[q].cmd = "witness" => exit[q] # 0
                           /\ job[q].cmd = "transform" /\ buf[q].vkeys = {} => exit[q] # 1
    BY DEF ValidatePredicts
  <2>1. Deserved(r) /\ Deserved(q) /\ buf[q] \in Tx /\ buf[q] # None
    BY DEF Deserved, Tx, None
  <2>2. Transformed(buf[q]).vkeys = buf[q].vkeys
    BY <2>1, TransformedType
  <2> QED BY <2>1, <2>2 DEF Deserved, Transforms, Witnesses, ContainsVKeyWitnesses
<1> HIDE DEF AllDeserved
<1> QED BY <1>1, <1>2, <1>3, Invariance, ExitCodesLast, PTL DEF Spec
=============================================================================
