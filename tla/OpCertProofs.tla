---------------------------- MODULE OpCertProofs ----------------------------
(***************************************************************************)
(* Proofs about OpCert, for any numbers of runs, files and command lines.  *)
(*                                                                         *)
(* Nothing locks the files, so the issue counter is safe only while runs   *)
(* that work at the same time, each with a device of its own, write        *)
(* different files (Apart).  Then the counter a run has in memory is the   *)
(* one in the file until it writes it back.  The behaviours in which runs  *)
(* keep apart include all those with a single device session (OneSession). *)
(***************************************************************************)
EXTENDS OpCert, SequenceTheorems, TLAPS

\* The files that a command line makes its run write.
Written(j) ==
  IF j.cmd = "keygen"
    THEN UNION {{j.entries[i].hws, j.entries[i].vkey, j.entries[i].counter} :
                  i \in DOMAIN j.entries}
    ELSE {j.counter, j.out}

\* Runs that hold devices at the same time write different files.
Apart ==
  \A r, q \in Runs :
    r # q /\ dev[r] # NoDevice /\ dev[q] # NoDevice =>
      Written(job[r]) \cap Written(job[q]) = {}

OneSession == \A d, e \in Devices : d = e

-----------------------------------------------------------------------------
(* The inductive invariant. *)

\* Between reading and publishing, the counter in memory is the next number of
\* its file, and is still in the file unless something else overwrote that.
ReadIsCurrent ==
  \A r \in Runs : pc[r] \in {"sign", "cert"} =>
    /\ buf[r].num \in NextNumbers(job[r].counter)
    /\ fs[job[r].counter].kind = "counter" => fs[job[r].counter].num = buf[r].num

\* Between publishing and bumping, the run's certificate is the last one published.
PublishedLast ==
  \A r \in Runs : pc[r] = "bump" =>
    LET l == log[job[r].counter] IN
    /\ l # << >>
    /\ l[Len(l)] = [num |-> buf[r].num, run |-> r]

\* The log entry of a run is about its own counter file and number, and unique.
LogEntries ==
  \A f \in Files : \A i \in DOMAIN log[f] :
    LET q == log[f][i].run IN
    /\ pc[q] \in {"bump", "done", "failed"}
    /\ f = job[q].counter
    /\ log[f][i].num = buf[q].num
    /\ \A j \in DOMAIN log[f] : log[f][j].run = q => j = i

\* Neither a counter file nor a counter in memory is at a number that a
\* successful run consumed.
ConsumedBelow ==
  \A f \in Files : \A i \in DOMAIN log[f] :
    pc[log[f][i].run] = "done" =>
      /\ fs[f].kind = "counter" => fs[f].num > log[f][i].num
      /\ \A q \in Runs : pc[q] \in {"sign", "cert", "bump"} /\ job[q].counter = f =>
           buf[q].num > log[f][i].num

\* The certificate just published is in the out file.
CertInPlace ==
  \A r \in Runs : pc[r] = "bump" /\ job[r].out # job[r].counter =>
    /\ fs[job[r].out].kind = "cert"
    /\ fs[job[r].out].num = buf[r].num
    /\ fs[job[r].out].key = buf[r].key

IInv ==
  /\ TypeOK
  /\ CounterTracksLog
  /\ ReadIsCurrent
  /\ PublishedLast
  /\ LogEntries
  /\ ConsumedBelow
  /\ CertInPlace
  /\ NumberConsumed

-----------------------------------------------------------------------------
(* Typing. *)

\* The file a run is about to write is one of those its command line names.
LEMMA TargetType ==
  ASSUME TypeOK, NEW r \in Runs
  PROVE  /\ pc[r] = "hws" => Target(r) = Entry(r).hws
         /\ pc[r] = "vkey" => Target(r) = Entry(r).vkey
         /\ pc[r] = "ctr" => Target(r) = Entry(r).counter
         /\ pc[r] = "cert" => Target(r) = job[r].out
         /\ pc[r] = "bump" => Target(r) = job[r].counter
         /\ pc[r] \in {"hws", "vkey", "ctr", "cert", "bump"} => Target(r) \in Files
         /\ pc[r] \in {"hws", "vkey", "ctr"} => Entry(r) \in KeyGenEntry
         /\ pc[r] \in IssuePoints =>
              job[r].counter \in Files /\ job[r].out \in Files /\ job[r].cmd = "issue"
<1>1. pc[r] \in {"hws", "vkey", "ctr"} => Entry(r) \in KeyGenEntry
  BY OpCertConstants DEF KeyGenCommandLines, TypeOK, Entry, KeyGenPoints
<1>2. pc[r] \in IssuePoints =>
        job[r].counter \in Files /\ job[r].out \in Files /\ job[r].cmd = "issue"
  BY OpCertConstants DEF TypeOK
<1> QED
  BY <1>1, <1>2 DEF Target, KeyGenEntry, IssuePoints

\* What the commands write is well formed.
LEMMA ContentType ==
  /\ Torn \in Content
  /\ \A k \in Keys : HwsFile(k) \in Content /\ VKeyFile(k) \in Content
  /\ \A c \in Counter : CounterFile(c) \in Content
  /\ \A c \in Counter, k \in Keys : CertFile(c, k) \in Content
BY DEF Content, Torn, None, HwsFile, VKeyFile, CounterFile, CertFile, Counter

\* A counter in memory is a record of a key and a number.
LEMMA CounterFields ==
  ASSUME NEW c \in Counter
  PROVE  /\ c.key \in Keys
         /\ c.num \in Nat
         /\ [c EXCEPT !.num = @ + 1] \in Counter
         /\ [c EXCEPT !.num = @ + 1].num = c.num + 1
         /\ [c EXCEPT !.num = @ + 1].key = c.key
BY DEF Counter

\* What a file of a given kind holds.
LEMMA ContentFields ==
  ASSUME NEW c \in Content
  PROVE  /\ c.kind = "counter" => c.key \in Keys /\ c.num \in Nat
         /\ c.kind = "hws" => c.key \in Keys
<1>1. CASE c \in {None, Torn}
  BY <1>1 DEF None, Torn
<1>2. CASE c \in [kind: {"hws", "vkey"}, key: Keys]
  BY <1>2
<1>3. CASE c \in [kind: {"counter"}, key: Keys, num: Nat]
  BY <1>3
<1>4. CASE c \in [kind: {"cert"}, key: Keys, num: Nat, signer: Keys]
  BY <1>4
<1> QED
  BY <1>1, <1>2, <1>3, <1>4 DEF Content

\* The signature is made with the cold key of the counter.
LEMMA SigningKeyIsCold ==
  ASSUME NEW r \in Runs, buf[r].key \in keys[r]
  PROVE  SigningKey(r) = buf[r].key
BY DEF SigningKey

\* No file has been written at first.
LEMMA InitType == Init => TypeOK
BY OpCertConstants
   DEF Init, TypeOK, None, Content, Points, Holding, KeyGenPoints, IssuePoints

\* Every step of every run keeps the types.
LEMMA NextType == TypeOK /\ [Next]_vars => TypeOK'
<1> SUFFICES ASSUME TypeOK, [Next]_vars PROVE TypeOK'
  OBVIOUS
<1> USE OpCertConstants DEF KeyGenCommandLines, TypeOK
<1>1. ASSUME NEW r \in Runs, StartKeyGen(r) PROVE TypeOK'
  BY <1>1 DEF StartKeyGen, Points, Holding, KeyGenPoints, IssuePoints, NoJob
<1>2. ASSUME NEW r \in Runs, StartIssue(r) PROVE TypeOK'
  <2>1. PICK j \in IssueJobs :
          /\ job' = [job EXCEPT ![r] = j]
          /\ \/ /\ \A f \in j.hws : fs[f].kind = "hws"
                /\ keys' = [keys EXCEPT ![r] = {fs[f].key : f \in j.hws}]
                /\ pc' = [pc EXCEPT ![r] = "wait"]
             \/ pc' = [pc EXCEPT ![r] = "failed"] /\ UNCHANGED keys
    BY <1>2 DEF StartIssue
  <2>2. j.hws \subseteq Files
    OBVIOUS
  <2>3. (\A f \in j.hws : fs[f].kind = "hws") => {fs[f].key : f \in j.hws} \subseteq Keys
    BY <2>2, ContentFields
  <2>4. keys' \in [Runs -> SUBSET Keys]
    BY <2>1, <2>3
  <2>5. \A q \in Runs : q # r => keys'[q] = keys[q]
    BY <2>1
  <2>6. pc' = [pc EXCEPT ![r] = "wait"] \/ pc' = [pc EXCEPT ![r] = "failed"]
    BY <2>1
  <2>7. job' = [job EXCEPT ![r] = j] /\ j # NoJob
    BY <2>1 DEF NoJob
  <2>8. UNCHANGED <<fs, dev, idx, open, buf, log>> /\ pc[r] = "idle"
    BY <1>2 DEF StartIssue
  <2>9. pc' \in [Runs -> Points] /\ job' \in [Runs -> KeyGenJobs \cup IssueJobs \cup {NoJob}]
    BY <2>6, <2>7 DEF Points
  <2>10. \A q \in Runs \ {r} : pc'[q] = pc[q] /\ job'[q] = job[q] /\ keys'[q] = keys[q]
    BY <2>5, <2>6, <2>7
  <2>11. pc'[r] \in {"wait", "failed"} /\ job'[r] # NoJob /\ dev[r] = NoDevice
    BY <2>6, <2>7, <2>8 DEF Holding, KeyGenPoints, IssuePoints
  <2> QED
    BY <2>4, <2>8, <2>9, <2>10, <2>11 DEF Holding, KeyGenPoints, IssuePoints
<1>3. ASSUME NEW r \in Runs, Connect(r) PROVE TypeOK'
  BY <1>3 DEF Connect, Points, Holding, KeyGenPoints, IssuePoints, NoJob
<1>4. ASSUME NEW r \in Runs, ConnectTimeout(r) PROVE TypeOK'
  BY <1>4 DEF ConnectTimeout, Exit, Points, Holding, KeyGenPoints, IssuePoints
<1>5. ASSUME NEW r \in Runs, Die(r) PROVE TypeOK'
  BY <1>5 DEF Die, Exit, Points, Holding, KeyGenPoints, IssuePoints
<1>6. ASSUME NEW r \in Runs, Truncate(r) PROVE TypeOK'
  <2>1. Target(r) \in Files
    BY <1>6, TargetType DEF Truncate
  <2> QED
    BY <1>6, <2>1, ContentType DEF Truncate
<1>7. ASSUME NEW r \in Runs, KeyGenStep(r) PROVE TypeOK'
  <2>1. pc[r] \in {"hws", "vkey", "ctr"} => ExportedKey(r) \in Keys
    BY TargetType DEF ExportedKey, KeyGenEntry, Keys, Holding, KeyGenPoints, IssuePoints
  <2>2. CASE ExportKey(r)
    BY <2>2 DEF ExportKey, Points, Holding, KeyGenPoints, IssuePoints
  <2>3. CASE InvalidInputs(r)
    BY <2>3 DEF InvalidInputs, Exit, Points, Holding, KeyGenPoints, IssuePoints
  <2>4. CASE FillHws(r)
    BY <2>4, <2>1, TargetType, ContentType
       DEF FillHws, Fill, Points, Holding, KeyGenPoints, IssuePoints
  <2>5. CASE FillVKey(r)
    BY <2>5, <2>1, TargetType, ContentType
       DEF FillVKey, Fill, Points, Holding, KeyGenPoints, IssuePoints
  <2>6. CASE FillCounter(r)
    <3>1. [key |-> ExportedKey(r), num |-> 0] \in Counter
      BY <2>1, <2>6 DEF FillCounter, Fill, Counter
    <3> QED
      BY <2>6, <3>1, TargetType, ContentType
         DEF FillCounter, Fill, Points, Holding, KeyGenPoints, IssuePoints
  <2>7. CASE FinishKeyGen(r)
    BY <2>7 DEF FinishKeyGen, Exit, Points, Holding, KeyGenPoints, IssuePoints
  <2> QED
    BY <1>7, <2>2, <2>3, <2>4, <2>5, <2>6, <2>7 DEF KeyGenStep
<1>8. ASSUME NEW r \in Runs, IssueStep(r) PROVE TypeOK'
  <2>2. CASE ReadCounter(r)
    <3>1. [key |-> fs[job[r].counter].key, num |-> fs[job[r].counter].num] \in Counter
      BY <2>2, TargetType, ContentFields DEF ReadCounter, Counter, IssuePoints
    <3> QED
      BY <2>2, <3>1 DEF ReadCounter, Points, Holding, KeyGenPoints, IssuePoints
  <2>3. CASE BadCounter(r)
    BY <2>3 DEF BadCounter, Exit, Points, Holding, KeyGenPoints, IssuePoints
  <2>4. CASE Sign(r)
    BY <2>4 DEF Sign, Points, Holding, KeyGenPoints, IssuePoints
  <2>5. CASE CannotSign(r)
    BY <2>5 DEF CannotSign, Exit, Points, Holding, KeyGenPoints, IssuePoints
  <2>6. CASE FillCert(r)
    <3>1. dev[r] \in Devices
      BY <2>6 DEF FillCert, Fill, Holding, IssuePoints
    <3>2. CertFile(buf[r], <<Seed[dev[r]], SigningKey(r)[2]>>) \in Content
      <4>1. buf[r] \in Counter /\ SigningKey(r) = buf[r].key
        BY <2>6, SigningKeyIsCold DEF FillCert, Fill, IssuePoints
      <4>2. <<Seed[dev[r]], SigningKey(r)[2]>> \in Keys
        BY <4>1, <3>1 DEF Counter, Keys
      <4> QED
        BY <4>1, <4>2, ContentType
    <3>3. [num |-> buf[r].num, run |-> r] \in [num: Nat, run: Runs]
      BY <2>6 DEF FillCert, Fill, IssuePoints, Counter
    <3> QED
      BY <2>6, <3>2, <3>3, TargetType
         DEF FillCert, Fill, Points, Holding, KeyGenPoints, IssuePoints
  <2>7. CASE BumpCounter(r)
    <3>1. [buf[r] EXCEPT !.num = @ + 1] \in Counter
      <4>1. buf[r] \in Counter
        BY <2>7 DEF BumpCounter, Fill, IssuePoints
      <4> QED
        BY <4>1, CounterFields
    <3> QED
      BY <2>7, <3>1, TargetType, ContentType
         DEF BumpCounter, Fill, Exit, Points, Holding, KeyGenPoints, IssuePoints
  <2> QED
    BY <1>8, <2>2, <2>3, <2>4, <2>5, <2>6, <2>7 DEF IssueStep
<1>9. CASE UNCHANGED vars
  BY <1>9 DEF vars
<1> QED
  BY <1>1, <1>2, <1>3, <1>4, <1>5, <1>6, <1>7, <1>8, <1>9 DEF Next, Work

\* Files, runs and the log are of their types in every state; in particular a run holds a
\* device exactly while it works, and has the counter it publishes in memory.
THEOREM TypeCorrect == Spec => []TypeOK
<1> QED
  BY InitType, NextType, PTL DEF Spec

-----------------------------------------------------------------------------
(* Who writes what. *)

\* What a run writes is among the files its command line names.
LEMMA TargetWritten ==
  ASSUME TypeOK, NEW r \in Runs
  PROVE  /\ pc[r] \in {"hws", "vkey", "ctr", "cert", "bump"} => Target(r) \in Written(job[r])
         /\ pc[r] \in IssuePoints => Written(job[r]) = {job[r].counter, job[r].out}
<1>1. pc[r] \in {"hws", "vkey", "ctr"} => Target(r) \in Written(job[r])
  <2> SUFFICES ASSUME pc[r] \in {"hws", "vkey", "ctr"} PROVE Target(r) \in Written(job[r])
    OBVIOUS
  <2>1. job[r].cmd = "keygen" /\ idx[r] \in DOMAIN job[r].entries
    BY OpCertConstants DEF KeyGenCommandLines, TypeOK, KeyGenPoints
  <2>2. Target(r) \in {Entry(r).hws, Entry(r).vkey, Entry(r).counter}
    BY TargetType
  <2> QED BY <2>1, <2>2 DEF Written, Entry
<1>2. pc[r] \in IssuePoints => Written(job[r]) = {job[r].counter, job[r].out}
  BY TargetType DEF Written
<1>3. pc[r] \in {"cert", "bump"} => Target(r) \in {job[r].counter, job[r].out}
  BY TargetType
<1> QED BY <1>1, <1>2, <1>3 DEF IssuePoints

\* A file that a run which keeps apart writes is no counter and no out file of another run at
\* work on a certificate.
Untouched(r, f) ==
  \A q \in Runs \ {r} : pc[q] \in {"sign", "cert", "bump"} =>
    f # job[q].counter /\ f # job[q].out

LEMMA OthersUntouched ==
  ASSUME TypeOK, Apart, NEW r \in Runs, pc[r] \in Holding, NEW f \in Written(job[r])
  PROVE  Untouched(r, f)
<1> SUFFICES ASSUME NEW q \in Runs \ {r}, pc[q] \in {"sign", "cert", "bump"}
             PROVE  f # job[q].counter /\ f # job[q].out
  BY DEF Untouched
<1>1. dev[r] # NoDevice /\ dev[q] # NoDevice
  BY DEF TypeOK, Holding, IssuePoints
<1>2. Written(job[q]) = {job[q].counter, job[q].out}
  BY TargetWritten DEF IssuePoints
<1> QED BY <1>1, <1>2 DEF Apart

-----------------------------------------------------------------------------
(* The counter, the log and the certificates. *)

Core ==
  /\ CounterTracksLog
  /\ ReadIsCurrent
  /\ PublishedLast
  /\ LogEntries
  /\ ConsumedBelow
  /\ CertInPlace
  /\ NumberConsumed

\* Entries of the log are numbers and runs.
LEMMA LogType ==
  ASSUME TypeOK
  PROVE  \A f \in Files : \A i \in DOMAIN log[f] :
           log[f][i].run \in Runs /\ log[f][i].num \in Nat
<1> SUFFICES ASSUME NEW f \in Files, NEW i \in DOMAIN log[f]
             PROVE  log[f][i] \in [num: Nat, run: Runs]
  OBVIOUS
<1>1. log[f] \in Seq([num: Nat, run: Runs])
  BY DEF TypeOK
<1>2. i \in 1..Len(log[f])
  BY <1>1
<1> QED
  BY <1>1, <1>2, ElementOfSeq

\* A step that touches neither files nor counters, and moves its run to a point
\* where no counter is in use, preserves the invariant.
LEMMA QuietStep ==
  ASSUME TypeOK, Core, NEW r \in Runs,
         UNCHANGED <<fs, log, buf>>,
         \A q \in Runs \ {r} : pc'[q] = pc[q] /\ job'[q] = job[q],
         pc'[r] \notin {"sign", "cert", "bump"},
         pc[r] \in {"bump", "done", "failed"} => pc'[r] = "failed" /\ job'[r] = job[r]
  PROVE  Core'
<1> USE DEF Core
<1>0. \A f \in Files : \A i \in DOMAIN log[f] :
        LET q == log[f][i].run IN
        /\ q \in Runs /\ pc[q] \in {"bump", "done", "failed"} /\ job'[q] = job[q]
        /\ pc'[q] \in {"bump", "done", "failed"}
        /\ pc'[q] = "done" => pc[q] = "done"
  BY LogType DEF LogEntries
<1>1. CounterTracksLog'
  BY DEF CounterTracksLog, NextNumbers
<1>2. ReadIsCurrent'
  BY DEF ReadIsCurrent, NextNumbers
<1>3. PublishedLast'
  BY DEF PublishedLast
<1>4. LogEntries'
  BY <1>0 DEF LogEntries
<1>5. ConsumedBelow'
  BY <1>0 DEF ConsumedBelow
<1>6. CertInPlace'
  BY DEF CertInPlace
<1>7. NumberConsumed'
  BY <1>0 DEF NumberConsumed
<1> QED
  BY <1>1, <1>2, <1>3, <1>4, <1>5, <1>6, <1>7

\* So does overwriting a file with something that is not a counter, while the
\* certificate just published stays.
LEMMA OverwriteStep ==
  ASSUME TypeOK, Core, NEW r \in Runs, pc[r] \in Holding,
         NEW f \in Files, Untouched(r, f), NEW c, c.kind # "counter",
         fs' = [fs EXCEPT ![f] = c],
         UNCHANGED <<log, buf, job>>,
         pc' = pc \/ (pc[r] \in KeyGenPoints /\ \E p \in KeyGenPoints : pc' = [pc EXCEPT ![r] = p]),
         pc[r] = "bump" => f = job[r].counter
  PROVE  Core'
<1> USE DEF Core
<1>0. fs \in [Files -> Content] /\ pc \in [Runs -> Points]
  BY DEF TypeOK
<1>1. \A q \in Runs : /\ pc'[q] \in {"sign", "cert", "bump", "done", "failed"} => pc'[q] = pc[q]
                      /\ pc[q] \in {"sign", "cert", "bump", "done", "failed"} => pc'[q] = pc[q]
                      /\ pc[q] \in {"sign", "cert", "bump"} /\ q # r =>
                           f # job[q].counter /\ f # job[q].out
  BY <1>0 DEF Untouched, KeyGenPoints
<1>2. \A g \in Files : fs'[g].kind = "counter" => fs'[g] = fs[g]
  BY <1>0
<1>3. CounterTracksLog'
  BY <1>2 DEF CounterTracksLog, NextNumbers
<1>4. ReadIsCurrent'
  <2>1. \A q \in Runs : pc[q] \in {"sign", "cert"} => job[q].counter \in Files
    BY TargetType DEF IssuePoints
  <2>2. \A g \in Files : NextNumbers(g)' = NextNumbers(g)
    BY DEF NextNumbers
  <2> QED
    BY <1>1, <1>2, <2>1, <2>2 DEF ReadIsCurrent
<1>5. PublishedLast'
  BY <1>1 DEF PublishedLast
<1>6. LogEntries'
  BY <1>1, LogType DEF LogEntries
<1>7. ConsumedBelow'
  <2>1. \A g \in Files : \A i \in DOMAIN log[g] :
          pc'[log[g][i].run] = "done" => pc[log[g][i].run] = "done"
    BY <1>1, LogType
  <2>2. \A g \in Files : \A i \in DOMAIN log[g] :
          pc'[log[g][i].run] = "done" /\ fs'[g].kind = "counter" => fs'[g].num > log[g][i].num
    BY <1>2, <2>1 DEF ConsumedBelow
  <2>3. \A g \in Files : \A i \in DOMAIN log[g] : pc'[log[g][i].run] = "done" =>
          \A q \in Runs : pc'[q] \in {"sign", "cert", "bump"} /\ job[q].counter = g =>
            buf[q].num > log[g][i].num
    BY <1>1, <2>1 DEF ConsumedBelow
  <2> QED
    BY <2>2, <2>3 DEF ConsumedBelow
<1>8. CertInPlace'
  BY <1>0, <1>1, TargetType DEF CertInPlace, IssuePoints
<1>9. NumberConsumed'
  BY <1>1, LogType DEF NumberConsumed, LogEntries
<1> QED
  BY <1>3, <1>4, <1>5, <1>6, <1>7, <1>8, <1>9

\* node key-gen writes a counter file at zero and forgets the log of that file.
LEMMA ResetStep ==
  ASSUME TypeOK, Apart, Core, NEW r \in Runs, FillCounter(r)
  PROVE  Core'
<1> DEFINE f == Target(r)
           c == CounterFile([key |-> ExportedKey(r), num |-> 0])
<1> USE DEF Core
<1>0. fs \in [Files -> Content] /\ pc \in [Runs -> Points] /\ log \in [Files -> Seq([num: Nat, run: Runs])]
  BY DEF TypeOK
<1>1. /\ pc[r] = "ctr" /\ f \in Files
      /\ fs' = [fs EXCEPT ![f] = c] /\ c.kind = "counter" /\ c.num = 0
      /\ pc' = [pc EXCEPT ![r] = "loop"]
      /\ log' = [log EXCEPT ![f] = << >>]
      /\ UNCHANGED <<job, dev, keys, buf>>
  BY TargetType DEF FillCounter, Fill, CounterFile
<1>2. Untouched(r, f)
  BY <1>1, TargetWritten, OthersUntouched DEF Holding, KeyGenPoints
<1>a. \A q \in Runs : /\ q # r => pc'[q] = pc[q]
                      /\ pc'[q] \in {"sign", "cert", "bump"} =>
                           q # r /\ f # job[q].counter /\ f # job[q].out
                      /\ pc'[q] \in {"bump", "done", "failed"}
                           <=> pc[q] \in {"bump", "done", "failed"}
                      /\ pc'[q] = "done" <=> pc[q] = "done"
  BY <1>0, <1>1, <1>2 DEF Untouched
<1>b. \A q \in Runs : pc'[q] \in {"sign", "cert", "bump"} =>
                        job[q].counter \in Files /\ job[q].out \in Files
  BY <1>0, <1>1, <1>a, TargetType DEF IssuePoints
<1>3. \A g \in Files : /\ g # f => log'[g] = log[g] /\ fs'[g] = fs[g]
                       /\ g = f => log'[g] = << >> /\ fs'[g] = c
  BY <1>0, <1>1
<1>4. CounterTracksLog'
  <2> SUFFICES ASSUME NEW g \in Files, fs'[g].kind = "counter"
               PROVE  fs'[g].num \in NextNumbers(g)'
    BY DEF CounterTracksLog
  <2>1. CASE g = f
    BY <2>1, <1>1, <1>3 DEF NextNumbers
  <2>2. CASE g # f
    BY <2>2, <1>3 DEF CounterTracksLog, NextNumbers
  <2> QED
    BY <2>1, <2>2
<1>5. ReadIsCurrent'
  <2> SUFFICES ASSUME NEW q \in Runs, pc'[q] \in {"sign", "cert"}
               PROVE  /\ buf[q].num \in NextNumbers(job[q].counter)'
                      /\ fs'[job[q].counter].kind = "counter" =>
                           fs'[job[q].counter].num = buf[q].num
    BY <1>1 DEF ReadIsCurrent
  <2>1. pc[q] \in {"sign", "cert"} /\ job[q].counter \in Files /\ job[q].counter # f
    BY <1>a, <1>b
  <2>2. NextNumbers(job[q].counter)' = NextNumbers(job[q].counter)
    BY <2>1, <1>1, <1>3 DEF NextNumbers
  <2> QED BY <2>1, <2>2, <1>3 DEF ReadIsCurrent
<1>c. PublishedLast'
  BY <1>1, <1>a, <1>b, <1>3 DEF PublishedLast
<1>d. CertInPlace'
  BY <1>1, <1>a, <1>b, <1>3 DEF CertInPlace
<1>6. LogEntries'
  BY <1>1, <1>a, <1>3, LogType DEF LogEntries
<1>7. ConsumedBelow'
  BY <1>1, <1>a, <1>3, LogType DEF ConsumedBelow
<1>8. NumberConsumed'
  BY <1>a, <1>3, LogType DEF NumberConsumed
<1> QED
  BY <1>4, <1>5, <1>c, <1>d, <1>6, <1>7, <1>8

\* issue-op-cert reads the counter of its file.
LEMMA ReadStep ==
  ASSUME TypeOK, Core, NEW r \in Runs, ReadCounter(r)
  PROVE  Core'
<1> DEFINE f == job[r].counter
<1> USE DEF Core
<1>0. pc \in [Runs -> Points] /\ buf \in [Runs -> Counter \cup {NoCounter}]
  BY DEF TypeOK
<1>1. /\ pc[r] = "read" /\ f \in Files
      /\ fs[f].kind = "counter"
      /\ buf' = [buf EXCEPT ![r] = [key |-> fs[f].key, num |-> fs[f].num]]
      /\ pc' = [pc EXCEPT ![r] = "sign"]
      /\ UNCHANGED <<fs, job, log>>
  BY TargetType DEF ReadCounter, IssuePoints
<1>2. /\ buf'[r].num = fs[f].num /\ pc'[r] = "sign"
      /\ \A q \in Runs \ {r} : buf'[q] = buf[q] /\ pc'[q] = pc[q]
  BY <1>0, <1>1
<1>4. \A g \in Files : \A i \in DOMAIN log[g] :
        /\ log[g][i].run \in Runs /\ log[g][i].run # r
        /\ pc[log[g][i].run] \in {"bump", "done", "failed"}
  BY <1>1, LogType DEF LogEntries
<1>5. CounterTracksLog' /\ NextNumbers(f)' = NextNumbers(f)
  BY <1>1 DEF CounterTracksLog, NextNumbers
<1>6. ReadIsCurrent'
  <2> SUFFICES ASSUME NEW q \in Runs, pc'[q] \in {"sign", "cert"}
               PROVE  /\ buf'[q].num \in NextNumbers(job[q].counter)
                      /\ fs[job[q].counter].kind = "counter" =>
                           fs[job[q].counter].num = buf'[q].num
    BY <1>1 DEF ReadIsCurrent, NextNumbers
  <2>1. CASE q = r
    BY <2>1, <1>1, <1>2 DEF CounterTracksLog
  <2>2. CASE q # r
    BY <2>2, <1>2 DEF ReadIsCurrent
  <2> QED BY <2>1, <2>2
<1>7. PublishedLast' /\ CertInPlace'
  BY <1>1, <1>2 DEF PublishedLast, CertInPlace
<1>8. LogEntries'
  BY <1>1, <1>2, <1>4 DEF LogEntries
<1>9. ConsumedBelow'
  BY <1>1, <1>2, <1>4 DEF ConsumedBelow
<1>10. NumberConsumed'
  BY <1>1, <1>2, <1>4 DEF NumberConsumed
<1> QED
  BY <1>5, <1>6, <1>7, <1>8, <1>9, <1>10

\* Signing takes its time and changes no file.
LEMMA SignStep ==
  ASSUME TypeOK, Core, NEW r \in Runs, Sign(r)
  PROVE  Core'
<1> USE DEF Core
<1>1. /\ pc[r] = "sign" /\ pc' = [pc EXCEPT ![r] = "cert"]
      /\ UNCHANGED <<fs, job, buf, log>>
  BY DEF Sign
<1>2. /\ pc'[r] = "cert"
      /\ \A q \in Runs \ {r} : pc'[q] = pc[q]
  BY <1>1 DEF TypeOK
<1>3. \A g \in Files : \A i \in DOMAIN log[g] :
        /\ log[g][i].run \in Runs
        /\ pc'[log[g][i].run] = pc[log[g][i].run]
  BY <1>1, <1>2, LogType DEF LogEntries
<1>4. UNCHANGED CounterTracksLog /\ \A f : UNCHANGED NextNumbers(f)
  BY <1>1 DEF CounterTracksLog, NextNumbers
<1>8. ReadIsCurrent'
  <2> SUFFICES ASSUME NEW q \in Runs, pc'[q] \in {"sign", "cert"}
               PROVE  /\ buf[q].num \in NextNumbers(job[q].counter)
                      /\ fs[job[q].counter].kind = "counter" =>
                           fs[job[q].counter].num = buf[q].num
    BY <1>1, <1>4 DEF ReadIsCurrent
  <2>1. pc[q] \in {"sign", "cert"}
    BY <1>1, <1>2
  <2> QED BY <2>1 DEF ReadIsCurrent
<1>7. PublishedLast' /\ CertInPlace'
  BY <1>1, <1>2 DEF PublishedLast, CertInPlace
<1>5. LogEntries' /\ NumberConsumed'
  BY <1>1, <1>3 DEF LogEntries, NumberConsumed
<1>6. ConsumedBelow'
  BY <1>1, <1>2, <1>3 DEF ConsumedBelow
<1> QED
  BY <1>1, <1>4, <1>5, <1>6, <1>7, <1>8

\* Publishing: the certificate gets the next number of its counter file.
LEMMA PublishStep ==
  ASSUME TypeOK, Apart, Core, NEW r \in Runs, FillCert(r)
  PROVE  Core'
<1> DEFINE f == job[r].counter
           o == job[r].out
           n == buf[r].num
           e == [num |-> n, run |-> r]
           c == CertFile(buf[r], <<Seed[dev[r]], SigningKey(r)[2]>>)
<1> USE DEF Core
<1>0. /\ fs \in [Files -> Content] /\ pc \in [Runs -> Points]
      /\ log \in [Files -> Seq([num: Nat, run: Runs])]
  BY DEF TypeOK
<1>1. /\ pc[r] = "cert" /\ f \in Files /\ o \in Files
      /\ fs' = [fs EXCEPT ![o] = c]
      /\ c.kind = "cert" /\ c.num = n /\ c.key = buf[r].key
      /\ pc' = [pc EXCEPT ![r] = "bump"]
      /\ log' = [log EXCEPT ![f] = Append(@, e)]
      /\ UNCHANGED <<job, buf>>
  BY TargetType DEF FillCert, Fill, IssuePoints, CertFile
<1>2. n \in Nat /\ e \in [num: Nat, run: Runs]
  BY <1>1, CounterFields DEF TypeOK, IssuePoints
<1>a. Untouched(r, f) /\ Untouched(r, o)
  BY <1>1, TargetWritten, OthersUntouched DEF Holding, IssuePoints
<1>3. \A q \in Runs : /\ pc[q] \in {"sign", "cert", "bump"} /\ q # r =>
                           /\ f # job[q].counter /\ f # job[q].out
                           /\ o # job[q].counter /\ o # job[q].out
                      /\ q # r => pc'[q] = pc[q]
                      /\ pc'[r] = "bump"
  BY <1>0, <1>1, <1>a DEF Untouched
<1>b. \A q \in Runs : pc[q] \in {"sign", "cert", "bump"} =>
                        job[q].counter \in Files /\ job[q].out \in Files
  BY TargetType DEF IssuePoints
<1>4. n \in NextNumbers(f) /\ (fs[f].kind = "counter" => fs[f].num = n)
  BY <1>1 DEF ReadIsCurrent
<1>5. /\ log'[f] = Append(log[f], e)
      /\ \A g \in Files \ {f} : log'[g] = log[g]
      /\ DOMAIN log'[f] = 1..(Len(log[f]) + 1) /\ DOMAIN log[f] = 1..Len(log[f])
      /\ Len(log'[f]) = Len(log[f]) + 1 /\ Len(log[f]) \in Nat
      /\ log'[f][Len(log[f]) + 1] = e
      /\ \A i \in DOMAIN log[f] : log'[f][i] = log[f][i]
  BY <1>0, <1>1, <1>2
<1>6. log'[f] # << >> /\ log'[f][Len(log'[f])] = e /\ e.num = n /\ e.run = r
  <2>1. Len(<< >>) = 0
    OBVIOUS
  <2>2. log'[f][Len(log'[f])] = e /\ Len(log'[f]) # 0
    BY <1>5
  <2> QED
    BY <2>1, <2>2
<1>7. \A g \in Files : \A i \in DOMAIN log'[g] :
        \/ i \in DOMAIN log[g] /\ log'[g][i] = log[g][i] /\ log[g][i].run \in Runs
           /\ log[g][i].run # r /\ pc'[log[g][i].run] = pc[log[g][i].run]
        \/ g = f /\ i = Len(log[f]) + 1 /\ log'[g][i] = e
  <2>1. \A g \in Files : \A i \in DOMAIN log[g] :
          log[g][i].run \in Runs /\ log[g][i].run # r
    BY <1>1, LogType DEF LogEntries
  <2>2. \A i \in 1..(Len(log[f]) + 1) : i \in 1..Len(log[f]) \/ i = Len(log[f]) + 1
    BY <1>5
  <2>3. ASSUME NEW g \in Files, NEW i \in DOMAIN log'[g], g # f
        PROVE  i \in DOMAIN log[g] /\ log'[g][i] = log[g][i]
    BY <2>3, <1>5
  <2>4. ASSUME NEW i \in DOMAIN log'[f]
        PROVE  \/ i \in DOMAIN log[f] /\ log'[f][i] = log[f][i]
               \/ i = Len(log[f]) + 1 /\ log'[f][i] = e
    BY <1>5, <2>2
  <2> HIDE DEF e
  <2>5. \A q \in Runs : q # r => pc'[q] = pc[q]
    BY <1>3
  <2> QED
    BY <2>1, <2>3, <2>4, <2>5, <1>1
<1>8. \A g \in Files : fs'[g].kind = "counter" => fs'[g] = fs[g]
  BY <1>0, <1>1
<1> HIDE DEF e, c
<1>9. CounterTracksLog'
  <2> SUFFICES ASSUME NEW g \in Files, fs'[g].kind = "counter"
               PROVE  fs'[g].num \in NextNumbers(g)'
    BY DEF CounterTracksLog
  <2>1. CASE g = f
    <3>1. NextNumbers(g)' = {n, n + 1}
      BY <2>1, <1>6 DEF NextNumbers
    <3> QED
      BY <2>1, <3>1, <1>4, <1>8
  <2>2. CASE g # f
    BY <2>2, <1>5, <1>8 DEF CounterTracksLog, NextNumbers
  <2> QED
    BY <2>1, <2>2
<1>10. ReadIsCurrent'
  <2> SUFFICES ASSUME NEW q \in Runs, pc'[q] \in {"sign", "cert"}
               PROVE  /\ buf[q].num \in NextNumbers(job[q].counter)'
                      /\ fs'[job[q].counter].kind = "counter" =>
                           fs'[job[q].counter].num = buf[q].num
    BY <1>1 DEF ReadIsCurrent
  <2>1. pc[q] \in {"sign", "cert"} /\ job[q].counter \in Files \ {f}
    BY <1>3, <1>b
  <2>2. NextNumbers(job[q].counter)' = NextNumbers(job[q].counter)
    <3>1. log'[job[q].counter] = log[job[q].counter] /\ job' = job
      BY <2>1, <1>1, <1>5
    <3> HIDE DEF f, Core
    <3> QED BY <3>1 DEF NextNumbers
  <2> QED BY <2>1, <2>2, <1>8 DEF ReadIsCurrent
<1>11. PublishedLast'
  <2> SUFFICES ASSUME NEW q \in Runs, pc'[q] = "bump"
               PROVE  /\ log'[job[q].counter] # << >>
                      /\ log'[job[q].counter][Len(log'[job[q].counter])]
                           = [num |-> buf[q].num, run |-> q]
    BY <1>1 DEF PublishedLast
  <2>1. CASE q = r
    BY <2>1, <1>6 DEF e
  <2>2. CASE q # r
    <3>1. pc[q] = "bump" /\ job[q].counter \in Files \ {f}
      BY <2>2, <1>3, <1>b
    <3> QED BY <3>1, <1>5 DEF PublishedLast
  <2> QED BY <2>1, <2>2
<1>12. LogEntries'
  <2>1. \A g \in Files : \A i \in DOMAIN log'[g] :
          LET q == log'[g][i].run IN
          /\ pc'[q] \in {"bump", "done", "failed"}
          /\ g = job[q].counter
          /\ log'[g][i].num = buf[q].num
    BY <1>3, <1>6, <1>7 DEF LogEntries
  <2>2. \A g \in Files : \A i, j \in DOMAIN log'[g] :
          log'[g][j].run = log'[g][i].run => j = i
    BY <1>6, <1>7 DEF LogEntries
  <2>3. job' = job /\ buf' = buf
    BY <1>1
  <2> HIDE DEF Core, f, o, n
  <2>4. SUFFICES ASSUME NEW g \in Files, NEW i \in DOMAIN log'[g]
                 PROVE  /\ pc'[log'[g][i].run] \in {"bump", "done", "failed"}
                        /\ g = job'[log'[g][i].run].counter
                        /\ log'[g][i].num = buf'[log'[g][i].run].num
                        /\ \A j \in DOMAIN log'[g] :
                             log'[g][j].run = log'[g][i].run => j = i
    BY Zenon DEF LogEntries
  <2> QED
    BY <2>1, <2>2, <2>3
<1>13. ConsumedBelow'
  <2>1. \A g \in Files : \A i \in DOMAIN log'[g] : pc'[log'[g][i].run] = "done" =>
          i \in DOMAIN log[g] /\ log'[g][i] = log[g][i] /\ pc[log[g][i].run] = "done"
    BY <1>3, <1>6, <1>7
  <2>2. \A g \in Files : \A i \in DOMAIN log'[g] :
          pc'[log'[g][i].run] = "done" /\ fs'[g].kind = "counter" =>
            fs'[g].num > log'[g][i].num
    BY <2>1, <1>8 DEF ConsumedBelow
  <2>3. \A g \in Files : \A i \in DOMAIN log'[g] : pc'[log'[g][i].run] = "done" =>
          \A q \in Runs : pc'[q] \in {"sign", "cert", "bump"} /\ job[q].counter = g =>
            buf[q].num > log'[g][i].num
    <3> SUFFICES ASSUME NEW g \in Files, NEW i \in DOMAIN log'[g], NEW q \in Runs,
                        pc'[log'[g][i].run] = "done", job[q].counter = g,
                        pc'[q] \in {"sign", "cert", "bump"}
                 PROVE  buf[q].num > log'[g][i].num
      OBVIOUS
    <3>1. pc[q] \in {"sign", "cert", "bump"}
      BY <1>1, <1>3
    <3> QED BY <3>1, <2>1 DEF ConsumedBelow
  <2> QED
    BY <2>2, <2>3, <1>1 DEF ConsumedBelow
<1>14. CertInPlace'
  <2>1. fs'[o] = c /\ \A g \in Files \ {o} : fs'[g] = fs[g]
    BY <1>0, <1>1
  <2> QED
    BY <2>1, <1>1, <1>3, <1>b DEF CertInPlace
<1>15. NumberConsumed'
  <2> SUFFICES ASSUME NEW g \in Files, NEW i \in DOMAIN log'[g], NEW j \in DOMAIN log'[g],
                      i < j, log'[g][i].num = log'[g][j].num, pc'[log'[g][i].run] = "done"
               PROVE  FALSE
    BY DEF NumberConsumed
  <2>1. i \in DOMAIN log[g] /\ log'[g][i] = log[g][i] /\ pc[log[g][i].run] = "done"
    BY <1>3, <1>6, <1>7
  <2>2. CASE j \in DOMAIN log[g] /\ log'[g][j] = log[g][j]
    BY <2>1, <2>2 DEF NumberConsumed
  <2>3. CASE g = f /\ log'[g][j] = e
    <3>1. n > log[g][i].num
      BY <2>1, <2>3, <1>1 DEF ConsumedBelow
    <3> QED
      BY <3>1, <2>1, <2>3, <1>2, <1>6, LogType
  <2> QED
    BY <1>7, <2>2, <2>3
<1> QED
  BY <1>9, <1>10, <1>11, <1>12, <1>13, <1>14, <1>15

\* Writing the counter back: the number just published is consumed.
LEMMA BumpStep ==
  ASSUME TypeOK, Apart, Core, NEW r \in Runs, BumpCounter(r)
  PROVE  Core'
<1> DEFINE f == job[r].counter
           n == buf[r].num
           c == CounterFile([buf[r] EXCEPT !.num = @ + 1])
<1> USE DEF Core
<1>0. fs \in [Files -> Content] /\ pc \in [Runs -> Points]
  BY DEF TypeOK
<1>1. /\ pc[r] = "bump" /\ f \in Files /\ buf[r] \in Counter
      /\ fs' = [fs EXCEPT ![f] = c]
      /\ pc' = [pc EXCEPT ![r] = "done"]
      /\ UNCHANGED <<job, buf, log>>
  BY TargetType DEF BumpCounter, Fill, Exit, IssuePoints, TypeOK
<1>2. n \in Nat /\ c.kind = "counter" /\ c.num = n + 1
  BY <1>1, CounterFields DEF CounterFile
<1>a. Untouched(r, f)
  BY <1>1, TargetWritten, OthersUntouched DEF Holding, IssuePoints
<1>3. \A q \in Runs : /\ pc'[q] \in {"sign", "cert", "bump"} =>
                           q # r /\ f # job[q].counter /\ f # job[q].out
                      /\ q # r => pc'[q] = pc[q]
                      /\ pc'[r] = "done"
  BY <1>0, <1>1, <1>a DEF Untouched
<1>b. \A q \in Runs : pc'[q] \in {"sign", "cert", "bump"} =>
                        job[q].counter \in Files /\ job[q].out \in Files
  BY <1>3, TargetType DEF IssuePoints
<1>4. fs'[f] = c /\ \A g \in Files \ {f} : fs'[g] = fs[g]
  BY <1>0, <1>1
<1>5. log[f] # << >> /\ log[f][Len(log[f])] = [num |-> n, run |-> r]
  BY <1>1 DEF PublishedLast
<1>6. DOMAIN log[f] = 1..Len(log[f]) /\ Len(log[f]) \in DOMAIN log[f]
  BY <1>1, <1>5 DEF TypeOK
<1>7. \A g \in Files : \A i \in DOMAIN log[g] :
        log[g][i].run = r => g = f /\ i = Len(log[f]) /\ log[g][i].num = n
  <2>1. log[f][Len(log[f])].run = r
    BY <1>5
  <2> QED
    BY <2>1, <1>6, <1>1 DEF LogEntries
<1> HIDE DEF c
<1>8. CounterTracksLog'
  <2>1. NextNumbers(f) = {n, n + 1}
    BY <1>5 DEF NextNumbers
  <2>2. \A g \in Files : NextNumbers(g)' = NextNumbers(g)
    BY <1>1 DEF NextNumbers
  <2>3. \A g \in Files : fs'[g].kind = "counter" => fs'[g].num \in NextNumbers(g)
    BY <2>1, <1>1, <1>2, <1>4 DEF CounterTracksLog
  <2> QED
    BY <2>2, <2>3 DEF CounterTracksLog
<1>9. ReadIsCurrent'
  <2> SUFFICES ASSUME NEW q \in Runs, pc'[q] \in {"sign", "cert"}
               PROVE  /\ buf[q].num \in NextNumbers(job[q].counter)'
                      /\ fs'[job[q].counter].kind = "counter" =>
                           fs'[job[q].counter].num = buf[q].num
    BY <1>1 DEF ReadIsCurrent
  <2>1. pc[q] \in {"sign", "cert"} /\ job[q].counter \in Files \ {f}
    BY <1>3, <1>b
  <2>2. NextNumbers(job[q].counter)' = NextNumbers(job[q].counter)
    BY <1>1 DEF NextNumbers
  <2> QED BY <2>1, <2>2, <1>4 DEF ReadIsCurrent
<1>c. PublishedLast'
  BY <1>1, <1>3 DEF PublishedLast
<1>d. CertInPlace'
  BY <1>1, <1>3, <1>b, <1>4 DEF CertInPlace
<1>10. LogEntries'
  BY <1>1, <1>3, LogType DEF LogEntries
<1>11. ConsumedBelow'
  <2>1. \A g \in Files : \A i \in DOMAIN log[g] :
          pc'[log[g][i].run] = "done" /\ fs'[g].kind = "counter" => fs'[g].num > log[g][i].num
    <3> SUFFICES ASSUME NEW g \in Files, NEW i \in DOMAIN log[g],
                        pc'[log[g][i].run] = "done", fs'[g].kind = "counter"
                 PROVE  fs'[g].num > log[g][i].num
      OBVIOUS
    <3>1. CASE log[g][i].run = r
      BY <3>1, <1>2, <1>4, <1>7
    <3>2. CASE log[g][i].run # r /\ g # f
      BY <3>2, <1>3, <1>4, LogType DEF ConsumedBelow
    <3>3. CASE log[g][i].run # r /\ g = f
      <4>1. pc[log[g][i].run] = "done"
        BY <3>3, <1>3, LogType
      <4>2. n > log[g][i].num
        BY <4>1, <3>3, <1>1 DEF ConsumedBelow
      <4> QED
        BY <4>2, <3>3, <1>2, <1>4, LogType
    <3> QED
      BY <3>1, <3>2, <3>3
  <2>2. \A g \in Files : \A i \in DOMAIN log[g] : pc'[log[g][i].run] = "done" =>
          \A q \in Runs : pc'[q] \in {"sign", "cert", "bump"} /\ job[q].counter = g =>
            buf[q].num > log[g][i].num
    <3> SUFFICES ASSUME NEW g \in Files, NEW i \in DOMAIN log[g], NEW q \in Runs,
                        pc'[log[g][i].run] = "done", job[q].counter = g,
                        pc'[q] \in {"sign", "cert", "bump"}
                 PROVE  buf[q].num > log[g][i].num
      OBVIOUS
    <3>1. log[g][i].run # r
      BY <1>3, <1>7
    <3>2. pc[log[g][i].run] = "done" /\ pc[q] \in {"sign", "cert", "bump"}
      BY <3>1, <1>3, LogType
    <3> QED BY <3>2 DEF ConsumedBelow
  <2> QED
    BY <2>1, <2>2, <1>1 DEF ConsumedBelow
<1>12. NumberConsumed'
  <2> SUFFICES ASSUME NEW g \in Files, NEW i \in DOMAIN log[g], NEW j \in DOMAIN log[g],
                      i < j, log[g][i].num = log[g][j].num, pc'[log[g][i].run] = "done"
               PROVE  FALSE
    BY <1>1 DEF NumberConsumed
  <2>1. CASE log[g][i].run = r
    BY <2>1, <1>6, <1>7
  <2>2. CASE log[g][i].run # r
    BY <2>2, <1>3, LogType DEF NumberConsumed
  <2> QED
    BY <2>1, <2>2
<1> QED
  BY <1>8, <1>9, <1>c, <1>d, <1>10, <1>11, <1>12

\* The step of any run, while runs keep apart.
LEMMA CoreNext ==
  ASSUME TypeOK, Apart, Core, [Next]_vars
  PROVE  Core'
<1>1. ASSUME NEW r \in Runs, StartKeyGen(r) \/ StartIssue(r) PROVE Core'
  <2>1. /\ UNCHANGED <<fs, log, buf>>
        /\ \A q \in Runs \ {r} : pc'[q] = pc[q] /\ job'[q] = job[q]
        /\ pc[r] = "idle" /\ pc'[r] \in {"wait", "failed"}
    BY <1>1 DEF StartKeyGen, StartIssue, TypeOK
  <2> QED
    BY <2>1, QuietStep
<1>2. ASSUME NEW r \in Runs,
             Connect(r) \/ ConnectTimeout(r) \/ Die(r) \/ ExportKey(r) \/ InvalidInputs(r)
               \/ FinishKeyGen(r) \/ BadCounter(r) \/ CannotSign(r)
      PROVE  Core'
  <2>1. /\ UNCHANGED <<fs, log, buf, job>>
        /\ \A q \in Runs \ {r} : pc'[q] = pc[q]
        /\ pc[r] \notin {"done", "failed"}
        /\ pc'[r] \in {"loop", "read", "failed", "hws", "done"}
        /\ pc[r] = "bump" => pc'[r] = "failed"
    BY <1>2 DEF Connect, ConnectTimeout, Die, ExportKey, InvalidInputs, FinishKeyGen, BadCounter,
                CannotSign, Exit, TypeOK, Holding, KeyGenPoints, IssuePoints
  <2> QED
    BY <2>1, QuietStep
<1>3. ASSUME NEW r \in Runs, Truncate(r) PROVE Core'
  <2>1. /\ pc[r] \in Holding /\ Target(r) \in Files /\ Torn.kind # "counter"
        /\ fs' = [fs EXCEPT ![Target(r)] = Torn] /\ UNCHANGED <<log, buf, job, pc>>
        /\ pc[r] = "bump" => Target(r) = job[r].counter
    BY <1>3, TargetType DEF Truncate, Torn, Holding, KeyGenPoints, IssuePoints
  <2>2. Untouched(r, Target(r))
    BY <1>3, <2>1, TargetWritten, OthersUntouched DEF Truncate
  <2> QED
    BY <2>1, <2>2, OverwriteStep
<1>4. ASSUME NEW r \in Runs, FillHws(r) \/ FillVKey(r) PROVE Core'
  <2>1. PICK c : fs' = [fs EXCEPT ![Target(r)] = c] /\ c.kind # "counter"
    <3>1. CASE FillHws(r)
      <4>1. fs' = [fs EXCEPT ![Target(r)] = HwsFile(ExportedKey(r))]
        BY <3>1 DEF FillHws, Fill
      <4>2. HwsFile(ExportedKey(r)).kind # "counter"
        BY DEF HwsFile
      <4> QED
        BY <4>1, <4>2
    <3>2. CASE FillVKey(r)
      <4>1. fs' = [fs EXCEPT ![Target(r)] = VKeyFile(ExportedKey(r))]
        BY <3>2 DEF FillVKey, Fill
      <4>2. VKeyFile(ExportedKey(r)).kind # "counter"
        BY DEF VKeyFile
      <4> QED
        BY <4>1, <4>2
    <3> QED
      BY <1>4, <3>1, <3>2
  <2>2. /\ pc[r] \in Holding /\ Target(r) \in Files /\ UNCHANGED <<log, buf, job>>
        /\ pc' = pc \/ (pc[r] \in KeyGenPoints /\ \E p \in KeyGenPoints : pc' = [pc EXCEPT ![r] = p])
        /\ pc[r] = "bump" => Target(r) = job[r].counter
    BY <1>4, TargetType DEF FillHws, FillVKey, Fill, Holding, KeyGenPoints
  <2>3. Untouched(r, Target(r))
    BY <1>4, <2>2, TargetWritten, OthersUntouched DEF FillHws, FillVKey, Fill
  <2> QED
    BY <2>1, <2>2, <2>3, OverwriteStep
<1>5. ASSUME UNCHANGED vars PROVE Core'
  <2> USE <1>5 DEF vars, Core
  <2>1. CounterTracksLog' /\ ReadIsCurrent'
    BY DEF CounterTracksLog, ReadIsCurrent, NextNumbers
  <2>2. PublishedLast' /\ CertInPlace'
    BY DEF PublishedLast, CertInPlace
  <2>3. LogEntries' /\ NumberConsumed'
    BY DEF LogEntries, NumberConsumed
  <2>4. ConsumedBelow'
    BY DEF ConsumedBelow
  <2> QED
    BY <2>1, <2>2, <2>3, <2>4
<1>6. ASSUME NEW r \in Runs,
             FillCounter(r) \/ ReadCounter(r) \/ Sign(r) \/ FillCert(r) \/ BumpCounter(r)
      PROVE  Core'
  BY <1>6, ResetStep, ReadStep, SignStep, PublishStep, BumpStep
<1>7. ASSUME NEW r \in Runs, StartKeyGen(r) \/ StartIssue(r) \/ Work(r) \/ Die(r)
      PROVE  Core'
  BY <1>7, <1>1, <1>2, <1>3, <1>4, <1>6 DEF Work, KeyGenStep, IssueStep
<1> QED
  BY <1>5, <1>7 DEF Next

\* Nothing has been published at first.
LEMMA InitInv == Init => IInv
<1>1. Init => Core
  BY DEF Init, Core, CounterTracksLog, None, ReadIsCurrent, PublishedLast,
         LogEntries, ConsumedBelow, CertInPlace, NumberConsumed
<1> QED
  BY <1>1, InitType DEF IInv, Core

\* The parts of the invariant together.
LEMMA NextInv == IInv /\ Apart /\ [Next]_vars => IInv'
BY NextType, CoreNext DEF IInv, Core

\* As long as runs keep apart, counters in memory are those of the files and the log is
\* what was published from them (createSignedOperationalCertificate), on however many
\* devices.
THEOREM Invariance == Spec /\ []Apart => []IInv
BY InitInv, NextInv, PTL DEF Spec

-----------------------------------------------------------------------------
(* The properties, while runs keep apart. *)

\* A counter file never runs ahead of the certificates published from it.
THEOREM CounterNeverSkips == Spec /\ []Apart => []CounterTracksLog
<1>1. IInv => CounterTracksLog
  BY DEF IInv
<1> QED
  BY <1>1, Invariance, PTL

\* A number that a successful run published is never published again.
THEOREM SuccessConsumes == Spec /\ []Apart => []NumberConsumed
<1>1. IInv => NumberConsumed
  BY DEF IInv
<1> QED
  BY <1>1, Invariance, PTL

\* A successful run leaves the certificate and the incremented counter.
THEOREM SuccessFiles == Spec /\ []Apart => SuccessLeavesBothFiles
<1> DEFINE A == \A r \in Runs :
             pc[r] = "bump" /\ pc'[r] = "done" =>
               /\ fs'[job[r].counter] = CounterFile([buf[r] EXCEPT !.num = @ + 1])
               /\ job[r].out # job[r].counter =>
                    /\ fs'[job[r].out].kind = "cert"
                    /\ fs'[job[r].out].num = buf[r].num
                    /\ fs'[job[r].out].key = buf[r].key
<1>1. IInv /\ [Next]_vars => [A]_vars
  <2> SUFFICES ASSUME IInv, Next, NEW r \in Runs, pc[r] = "bump", pc'[r] = "done"
               PROVE  /\ fs'[job[r].counter] = CounterFile([buf[r] EXCEPT !.num = @ + 1])
                      /\ job[r].out # job[r].counter =>
                           /\ fs'[job[r].out].kind = "cert"
                           /\ fs'[job[r].out].num = buf[r].num
                           /\ fs'[job[r].out].key = buf[r].key
    OBVIOUS
  <2> USE DEF IInv
  <2>1. PICK q \in Runs : StartKeyGen(q) \/ StartIssue(q) \/ Work(q) \/ Die(q)
    BY DEF Next
  <2>2. pc \in [Runs -> Points] /\ fs \in [Files -> Content]
    BY DEF TypeOK
  <2>3. BumpCounter(r)
    BY <2>1, <2>2
       DEF StartKeyGen, StartIssue, Work, Die, Connect, ConnectTimeout, Truncate, KeyGenStep,
           IssueStep, ExportKey, InvalidInputs, FillHws, FillVKey, FillCounter, FinishKeyGen,
           ReadCounter, BadCounter, Sign, CannotSign, FillCert, BumpCounter, Fill, Exit
  <2>4. job[r].counter \in Files /\ job[r].out \in Files /\ Target(r) = job[r].counter
    BY TargetType DEF IssuePoints
  <2>5. fs' = [fs EXCEPT ![job[r].counter] = CounterFile([buf[r] EXCEPT !.num = @ + 1])]
    BY <2>3, <2>4 DEF BumpCounter, Fill
  <2> QED
    BY <2>2, <2>4, <2>5 DEF CertInPlace
<1> QED
  BY <1>1, Invariance, PTL DEF Spec, SuccessLeavesBothFiles

-----------------------------------------------------------------------------
(* Signatures: true whatever the number of device sessions. *)

\* Certificates are written by FillCert only, at the path findSigningPathForKey returned.
LEMMA SignedNext ==
  ASSUME TypeOK, SignedAtColdPath, [Next]_vars
  PROVE  SignedAtColdPath'
<1> USE DEF SignedAtColdPath
<1>0. fs \in [Files -> Content]
  BY DEF TypeOK
<1>1. ASSUME NEW f \in Files, NEW c, fs' = [fs EXCEPT ![f] = c],
             c.kind = "cert" => c.signer[2] = c.key[2]
      PROVE  SignedAtColdPath'
  BY <1>0, <1>1
<1>2. ASSUME NEW r \in Runs, Truncate(r) PROVE SignedAtColdPath'
  <2>1. fs' = [fs EXCEPT ![Target(r)] = Torn] /\ Target(r) \in Files /\ Torn.kind # "cert"
    BY <1>2, TargetType DEF Truncate, Torn
  <2> QED
    BY <2>1, <1>1
<1>3. ASSUME NEW r \in Runs, FillHws(r) PROVE SignedAtColdPath'
  <2>1. /\ fs' = [fs EXCEPT ![Target(r)] = HwsFile(ExportedKey(r))]
        /\ Target(r) \in Files /\ HwsFile(ExportedKey(r)).kind # "cert"
    BY <1>3, TargetType DEF FillHws, Fill, HwsFile
  <2> QED
    BY <2>1, <1>1
<1>4. ASSUME NEW r \in Runs, FillVKey(r) PROVE SignedAtColdPath'
  <2>1. /\ fs' = [fs EXCEPT ![Target(r)] = VKeyFile(ExportedKey(r))]
        /\ Target(r) \in Files /\ VKeyFile(ExportedKey(r)).kind # "cert"
    BY <1>4, TargetType DEF FillVKey, Fill, VKeyFile
  <2> QED
    BY <2>1, <1>1
<1>5. ASSUME NEW r \in Runs, NEW c, fs' = [fs EXCEPT ![Target(r)] = CounterFile(c)],
             pc[r] \in {"ctr", "bump"}
      PROVE  SignedAtColdPath'
  <2>1. Target(r) \in Files /\ CounterFile(c).kind # "cert"
    BY <1>5, TargetType DEF CounterFile
  <2> QED
    BY <2>1, <1>1, <1>5
<1>6. ASSUME NEW r \in Runs, FillCert(r) PROVE SignedAtColdPath'
  <2> DEFINE k == <<Seed[dev[r]], SigningKey(r)[2]>>
  <2>1. pc[r] = "cert" /\ fs' = [fs EXCEPT ![Target(r)] = CertFile(buf[r], k)]
    BY <1>6 DEF FillCert, Fill
  <2>2. SigningKey(r) = buf[r].key /\ Target(r) \in Files
    BY <2>1, SigningKeyIsCold, TargetType DEF TypeOK
  <2>3. CertFile(buf[r], k).signer[2] = CertFile(buf[r], k).key[2]
    BY <2>2 DEF CertFile
  <2> QED
    BY <2>1, <2>2, <2>3, <1>1
<1>7. ASSUME UNCHANGED fs PROVE SignedAtColdPath'
  BY <1>7
<1>8. ASSUME NEW r \in Runs, StartKeyGen(r) \/ StartIssue(r) \/ Work(r) \/ Die(r)
      PROVE  SignedAtColdPath'
  BY <1>2, <1>3, <1>4, <1>5, <1>6, <1>7, <1>8
     DEF StartKeyGen, StartIssue, Work, Die, Connect, ConnectTimeout, KeyGenStep, IssueStep,
         ExportKey, InvalidInputs, FillCounter, FinishKeyGen, ReadCounter, BadCounter, Sign,
         CannotSign, BumpCounter, Fill
<1> QED
  BY <1>7, <1>8 DEF Next, vars

\* Every certificate is signed at the path of its own cold key.
THEOREM SignedByColdKey == Spec => []SignedAtColdPath
<1>1. Init => SignedAtColdPath
  BY DEF Init, SignedAtColdPath, None
<1> QED
  BY <1>1, SignedNext, TypeCorrect, PTL DEF Spec

-----------------------------------------------------------------------------
(* Refinement of IssueLedger. *)

Published == [f \in Files |-> Numbers(f)]

\* No number is published at first.
LEMMA InitRefines == Init => Ledger!Init
<1> SUFFICES ASSUME Init, NEW f \in Files PROVE Numbers(f) = << >>
  BY DEF Ledger!Init
<1>1. log[f] = << >>
  BY DEF Init
<1> QED
  BY <1>1 DEF Numbers

\* Appending to the log of f appends the number to what f published.
LEMMA AppendRefines ==
  ASSUME TypeOK, NEW f \in Files, NEW e \in [num: Nat, run: Runs],
         log' = [log EXCEPT ![f] = Append(@, e)],
         e.num \in NextNumbers(f)
  PROVE  Ledger!Next
<1> DEFINE s == Numbers(f)
<1>1. log \in [Files -> Seq([num: Nat, run: Runs])]
  BY DEF TypeOK
<1>2. log[f] \in Seq([num: Nat, run: Runs])
  BY <1>1
<1>3. /\ s \in Seq(Nat) /\ Len(s) = Len(log[f]) /\ DOMAIN s = 1..Len(log[f])
      /\ \A i \in DOMAIN s : s[i] = log[f][i].num
  <2>1. DOMAIN log[f] = 1..Len(log[f]) /\ Len(log[f]) \in Nat
    BY <1>2
  <2>2. s = [i \in 1..Len(log[f]) |-> log[f][i].num]
    BY <2>1 DEF Numbers
  <2>3. \A i \in 1..Len(log[f]) : log[f][i].num \in Nat
    BY <2>1, LogType
  <2>4. s \in [1..Len(log[f]) -> Nat]
    BY <2>2, <2>3
  <2>5. s \in Seq(Nat)
    <3> HIDE DEF s
    <3> QED BY <2>1, <2>4
  <2>6. DOMAIN s = 1..Len(log[f]) /\ \A i \in DOMAIN s : s[i] = log[f][i].num
    BY <2>2
  <2>7. Len(s) = Len(log[f])
    <3> HIDE DEF s
    <3> QED BY <2>1, <2>5, <2>6
  <2> QED
    BY <2>1, <2>5, <2>6, <2>7
<1>4. Numbers(f)' = Append(s, e.num)
  <2>1. log'[f] = Append(log[f], e)
    BY <1>1
  <2>2. /\ DOMAIN log'[f] = 1..(Len(log[f]) + 1)
        /\ \A i \in 1..Len(log[f]) : log'[f][i] = log[f][i]
        /\ log'[f][Len(log[f]) + 1] = e
    BY <1>2, <2>1
  <2>3. Numbers(f)' = [i \in 1..(Len(log[f]) + 1) |->
                         IF i <= Len(log[f]) THEN s[i] ELSE e.num]
    BY <2>2, <1>2, <1>3 DEF Numbers
  <2>4. Append(s, e.num) = [i \in 1..(Len(log[f]) + 1) |->
                              IF i <= Len(log[f]) THEN s[i] ELSE e.num]
    BY <1>3
  <2> QED
    BY <2>3, <2>4
<1>5. \A g \in Files \ {f} : Numbers(g)' = Numbers(g)
  BY <1>1 DEF Numbers
<1>6. e.num \in Ledger!Acceptable(s)
  <2>1. CASE log[f] = << >>
    BY <2>1, <1>3 DEF NextNumbers, Ledger!Acceptable
  <2>2. CASE log[f] # << >>
    <3>1. s # << >> /\ s[Len(s)] = log[f][Len(log[f])].num
      <4>1. Len(log[f]) \in Nat /\ Len(log[f]) # 0
        BY <2>2, <1>2
      <4>2. Len(s) \in DOMAIN s /\ s # << >>
        BY <4>1, <1>3
      <4> QED
        BY <4>2, <1>3
    <3> QED
      BY <2>2, <3>1 DEF NextNumbers, Ledger!Acceptable
  <2> QED
    BY <2>1, <2>2
<1>7. Published' = [Published EXCEPT ![f] = Append(@, e.num)]
  BY <1>4, <1>5 DEF Published
<1> QED
  BY <1>6, <1>7 DEF Published, Ledger!Next, Ledger!Issue

\* Publishing a certificate is Issue, writing a fresh counter file is Reset, all else stutters.
LEMMA NextRefines ==
  ASSUME IInv, [Next]_vars
  PROVE  [Ledger!Next]_Published
<1> USE DEF IInv
<1>1. ASSUME UNCHANGED log PROVE UNCHANGED Published
  BY <1>1 DEF Published, Numbers
<1>2. ASSUME NEW r \in Runs, FillCert(r) PROVE Ledger!Next
  <2>1. /\ job[r].counter \in Files /\ pc[r] = "cert"
        /\ buf[r].num \in NextNumbers(job[r].counter)
        /\ log' = [log EXCEPT ![job[r].counter] = Append(@, [num |-> buf[r].num, run |-> r])]
    BY <1>2, TargetType DEF FillCert, Fill, ReadIsCurrent, IssuePoints
  <2>2. buf[r].num \in Nat
    BY <2>1, CounterFields DEF TypeOK, IssuePoints
  <2> DEFINE e == [num |-> buf[r].num, run |-> r]
  <2>3. e \in [num: Nat, run: Runs] /\ e.num \in NextNumbers(job[r].counter)
    BY <2>1, <2>2
  <2>4. log' = [log EXCEPT ![job[r].counter] = Append(@, e)]
    BY <2>1
  <2> HIDE DEF e
  <2> QED
    BY <2>1, <2>3, <2>4, AppendRefines
<1>3. ASSUME NEW r \in Runs, FillCounter(r) PROVE Ledger!Next
  <2>1. Target(r) \in Files /\ log' = [log EXCEPT ![Target(r)] = << >>]
    BY <1>3, TargetType DEF FillCounter, Fill
  <2>2. \A g \in Files : Numbers(g)' = IF g = Target(r) THEN << >> ELSE Numbers(g)
    <3>1. \A g \in Files : log'[g] = IF g = Target(r) THEN << >> ELSE log[g]
      BY <2>1 DEF TypeOK
    <3>2. [i \in DOMAIN << >> |-> << >>[i].num] = << >>
      OBVIOUS
    <3>3. ASSUME NEW g \in Files, g = Target(r) PROVE Numbers(g)' = << >>
      BY <3>1, <3>2, <3>3 DEF Numbers
    <3>4. ASSUME NEW g \in Files, g # Target(r) PROVE Numbers(g)' = Numbers(g)
      BY <3>1, <3>4 DEF Numbers
    <3> QED
      BY <3>3, <3>4
  <2>3. Published' = [Published EXCEPT ![Target(r)] = << >>]
    BY <2>2 DEF Published
  <2> QED
    BY <2>1, <2>3 DEF Published, Ledger!Next, Ledger!Reset
<1>4. ASSUME NEW r \in Runs, StartKeyGen(r) \/ StartIssue(r) \/ Work(r) \/ Die(r)
      PROVE  Ledger!Next \/ UNCHANGED log
  BY <1>2, <1>3, <1>4
     DEF StartKeyGen, StartIssue, Work, Die, Connect, ConnectTimeout, Truncate, KeyGenStep,
         IssueStep, ExportKey, InvalidInputs, FillHws, FillVKey, FinishKeyGen, ReadCounter,
         BadCounter, Sign, CannotSign, BumpCounter, Exit
<1> QED
  BY <1>1, <1>4 DEF Next, vars

\* The commands implement the issue ledger: the numbers published from a counter
\* file obey the chain's rule, crashes and torn files included, while runs keep apart.
THEOREM ImplementsLedger == Spec /\ []Apart => PublishesInOrder
<1>1. Published = [f \in Files |-> Numbers(f)]
  BY DEF Published
<1> QED
  BY InitRefines, NextRefines, Invariance, PTL DEF Spec, PublishesInOrder, Ledger!Spec, Published

-----------------------------------------------------------------------------
(* One device session. *)

\* At most one run is past getCryptoProvider.
OneHolder ==
  \A r, q \in Runs : dev[r] # NoDevice /\ dev[q] # NoDevice => r = q

\* A device is only given to a run when none is in use.
LEMMA HolderNext ==
  ASSUME OneSession, TypeOK, OneHolder, [Next]_vars
  PROVE  OneHolder'
<1> USE OpCertConstants DEF TypeOK, OneHolder
<1>1. ASSUME NEW r \in Runs, Connect(r) PROVE OneHolder'
  <2>1. PICK d \in Devices : Free(d) /\ dev' = [dev EXCEPT ![r] = d]
    BY <1>1 DEF Connect
  <2>2. \A q \in Runs : dev[q] = NoDevice
    BY <2>1 DEF Free, OneSession
  <2> QED
    BY <2>1, <2>2
<1>2. ASSUME NEW r \in Runs, StartKeyGen(r) \/ StartIssue(r) \/ Truncate(r)
      PROVE  OneHolder'
  BY <1>2 DEF StartKeyGen, StartIssue, Truncate
<1>3. ASSUME NEW r \in Runs, NEW c, Exit(r, c) PROVE OneHolder'
  BY <1>3 DEF Exit
<1>4. ASSUME NEW r \in Runs, KeyGenStep(r) PROVE OneHolder'
  BY <1>3, <1>4
     DEF KeyGenStep, ExportKey, InvalidInputs, FillHws, FillVKey, FillCounter, FinishKeyGen
<1>5. ASSUME NEW r \in Runs, IssueStep(r) PROVE OneHolder'
  BY <1>3, <1>5
     DEF IssueStep, ReadCounter, BadCounter, Sign, CannotSign, FillCert, BumpCounter
<1>6. CASE UNCHANGED vars
  BY <1>6 DEF vars
<1> QED
  BY <1>1, <1>2, <1>3, <1>4, <1>5, <1>6 DEF Next, Work, ConnectTimeout, Die

\* With a single device session no two runs work at the same time, whatever files they name:
\* the device is the lock that the files lack.
THEOREM OneDeviceKeepsApart ==
  ASSUME OneSession
  PROVE  Spec => []Apart
<1>1. Init => OneHolder
  BY DEF Init, OneHolder
<1>2. TypeOK /\ OneHolder /\ [Next]_vars => OneHolder'
  BY HolderNext
<1>3. OneHolder => Apart
  BY DEF OneHolder, Apart
<1> QED
  BY <1>1, <1>2, <1>3, TypeCorrect, PTL DEF Spec

\* So with a single device session the commands have all of these properties, with no
\* assumption on how they are used.
THEOREM OneDeviceSuffices ==
  ASSUME OneSession
  PROVE  Spec => /\ []CounterTracksLog
                 /\ []NumberConsumed
                 /\ SuccessLeavesBothFiles
                 /\ PublishesInOrder
BY OneDeviceKeepsApart, CounterNeverSkips, SuccessConsumes, SuccessFiles, ImplementsLedger, PTL

-----------------------------------------------------------------------------
(* No run goes round in circles. *)

\* The steps a run has left at most, in the pass of its loop that it is in and after.  Each
\* path of node key-gen takes seven: export, and truncate and fill for three files.
StepsAtPoint(point) ==
  CASE point = "loop" -> 8 [] point = "hws" -> 7 [] point = "vkey" -> 5 [] point = "ctr" -> 3
    [] point = "read" -> 6 [] point = "sign" -> 5 [] point = "cert" -> 4 [] point = "bump" -> 2
    [] OTHER -> 0

StepsFor(j) == IF j.cmd = "keygen" THEN 7 * Len(j.entries) + 2 ELSE 7

StepsLeft(r) ==
  IF pc[r] = "wait" THEN StepsFor(job[r])
  ELSE StepsAtPoint(pc[r]) - (IF open[r] THEN 1 ELSE 0)
         + (IF pc[r] \in KeyGenPoints THEN 7 * (Len(job[r].entries) - idx[r]) ELSE 0)

\* The loop starts at the first path and ends after the last; a file is open only where one
\* is written.
LoopBounds ==
  \A r \in Runs :
    /\ pc[r] \in {"idle", "wait"} => idx[r] = 1
    /\ pc[r] = "loop" => idx[r] <= Len(job[r].entries) + 1
    /\ open[r] => pc[r] \in {"hws", "vkey", "ctr", "cert", "bump"}

\* The state of a run.
Stays(r) ==
  UNCHANGED <<pc[r], job[r], dev[r], idx[r], open[r], keys[r], buf[r]>>

\* A step of a run that has been started lowers the number of steps it has left, which is
\* that of its command line at first; other runs' steps leave it alone.
Progress(r) ==
  /\ StepsLeft(r) \in Nat
  /\ pc[r] # "idle" => Stays(r) \/ StepsLeft(r)' < StepsLeft(r)

\* The paths of a command line are counted.
LEMMA EntriesCounted ==
  ASSUME TypeOK, NEW r \in Runs
  PROVE  /\ pc[r] \in KeyGenPoints =>
              Len(job[r].entries) \in Nat /\ DOMAIN job[r].entries = 1..Len(job[r].entries)
         /\ pc[r] = "wait" => StepsFor(job[r]) \in Nat \ {0}
         /\ idx[r] \in Nat \ {0} /\ open[r] \in BOOLEAN
<1>1. \A j \in KeyGenJobs : j.cmd = "keygen" /\ j.entries \in Seq(KeyGenEntry)
  BY OpCertConstants DEF KeyGenCommandLines
<1>2. \A j \in KeyGenJobs :
        Len(j.entries) \in Nat /\ DOMAIN j.entries = 1..Len(j.entries)
  BY <1>1
<1>3. \A j \in IssueJobs : j.cmd = "issue"
  BY OpCertConstants
<1> QED BY <1>1, <1>2, <1>3 DEF TypeOK, StepsFor

\* The steps left are a number, at no point below zero, and zero only at the end.
LEMMA StepsCounted ==
  ASSUME TypeOK, LoopBounds, NEW r \in Runs
  PROVE  StepsLeft(r) \in Nat /\ (pc[r] \in Holding \cup {"wait"} => StepsLeft(r) > 0)
<1>1. /\ idx[r] \in Nat \ {0} /\ open[r] \in BOOLEAN /\ pc[r] \in Points
      /\ open[r] => pc[r] \in {"hws", "vkey", "ctr", "cert", "bump"}
      /\ pc[r] = "wait" => StepsFor(job[r]) \in Nat \ {0}
  BY EntriesCounted DEF LoopBounds, TypeOK
<1>2. CASE pc[r] \in KeyGenPoints
  <2> DEFINE L == Len(job[r].entries)
  <2>1. L \in Nat /\ idx[r] <= L + 1 /\ (pc[r] # "loop" => idx[r] <= L)
    BY <1>1, <1>2, EntriesCounted DEF LoopBounds, TypeOK, KeyGenPoints
  <2>2. StepsLeft(r) =
          StepsAtPoint(pc[r]) - (IF open[r] THEN 1 ELSE 0) + 7 * (L - idx[r])
    BY <1>2 DEF StepsLeft, KeyGenPoints
  <2> HIDE DEF L
  <2>3. CASE pc[r] = "loop"
    BY <1>1, <2>1, <2>2, <2>3 DEF StepsAtPoint
  <2>4. CASE pc[r] \in {"hws", "vkey", "ctr"}
    BY <1>1, <2>1, <2>2, <2>4 DEF StepsAtPoint
  <2> QED BY <1>2, <2>3, <2>4 DEF KeyGenPoints
<1>3. CASE pc[r] \in IssuePoints
  BY <1>1, <1>3 DEF StepsLeft, StepsAtPoint, KeyGenPoints, IssuePoints
<1>4. CASE pc[r] \in {"idle", "wait", "done", "failed"}
  BY <1>1, <1>4 DEF StepsLeft, StepsAtPoint, KeyGenPoints, IssuePoints, Holding
<1> QED BY <1>1, <1>2, <1>3, <1>4 DEF Points, Holding

\* A step of one run leaves the others alone.
LEMMA OthersStay ==
  ASSUME TypeOK, NEW r \in Runs, StartKeyGen(r) \/ StartIssue(r) \/ Work(r) \/ Die(r),
         NEW q \in Runs \ {r}
  PROVE  Stays(q)
<1> USE DEF TypeOK, Stays
<1>1. CASE StartKeyGen(r)
  BY <1>1 DEF StartKeyGen
<1>2. CASE StartIssue(r)
  BY <1>2 DEF StartIssue
<1>3. CASE Connect(r) \/ ConnectTimeout(r) \/ Truncate(r) \/ Die(r)
  BY <1>3 DEF Connect, ConnectTimeout, Truncate, Die, Exit
<1>4. CASE KeyGenStep(r)
  BY <1>4 DEF KeyGenStep, ExportKey, InvalidInputs, FillHws, FillVKey, FillCounter, FinishKeyGen,
              Fill, Exit
<1>5. CASE IssueStep(r)
  BY <1>5 DEF IssueStep, ReadCounter, BadCounter, Sign, CannotSign, FillCert, BumpCounter,
              Fill, Exit
<1> QED BY <1>1, <1>2, <1>3, <1>4, <1>5 DEF Work

\* The bounds, and the steps left by each step of a run.
LEMMA OwnProgress ==
  ASSUME TypeOK, LoopBounds, NEW r \in Runs, StartKeyGen(r) \/ StartIssue(r) \/ Work(r) \/ Die(r)
  PROVE  /\ StepsLeft(r) \in Nat
         /\ pc[r] # "idle" => StepsLeft(r)' < StepsLeft(r)
         /\ pc'[r] \in {"idle", "wait"} => idx'[r] = 1
         /\ pc'[r] = "loop" => idx'[r] <= Len(job'[r].entries) + 1
         /\ open'[r] => pc'[r] \in {"hws", "vkey", "ctr", "cert", "bump"}
<1> DEFINE L == Len(job[r].entries)
           Steps == StepsLeft(r)
<1> USE DEF LoopBounds, StepsLeft, StepsAtPoint, KeyGenPoints, IssuePoints
<1>1. /\ pc[r] \in KeyGenPoints => L \in Nat /\ DOMAIN job[r].entries = 1..L
      /\ pc[r] = "wait" => StepsFor(job[r]) \in Nat \ {0}
      /\ idx[r] \in Nat \ {0} /\ open[r] \in BOOLEAN
      /\ pc[r] \in {"hws", "vkey", "ctr"} => idx[r] \in DOMAIN job[r].entries
      /\ pc \in [Runs -> Points] /\ open \in [Runs -> BOOLEAN]
      /\ job \in [Runs -> KeyGenJobs \cup IssueJobs \cup {NoJob}]
      /\ idx \in [Runs -> Nat \ {0}]
  BY EntriesCounted DEF TypeOK
<1>2. StepsLeft(r) \in Nat /\ (pc[r] \in Holding \cup {"wait"} => StepsLeft(r) > 0)
  BY StepsCounted
<1>3. CASE StartKeyGen(r) \/ StartIssue(r)
  <2>1. /\ pc[r] = "idle" /\ idx' = idx /\ open' = open
        /\ pc' = [pc EXCEPT ![r] = "wait"] \/ pc' = [pc EXCEPT ![r] = "failed"]
    BY <1>3 DEF StartKeyGen, StartIssue
  <2> QED BY <1>1, <1>2, <2>1
<1>4. CASE \E code \in {"done", "failed"} : Exit(r, code) /\ pc[r] \in Holding \cup {"wait"}
  BY <1>1, <1>2, <1>4 DEF Exit
<1>5. CASE Connect(r)
  <2>1. job' = job /\ idx' = idx /\ open' = open /\ pc[r] = "wait" /\ idx[r] = 1 /\ ~open[r]
    BY <1>5 DEF Connect
  <2>2. CASE job[r].cmd = "keygen"
    <3>1. pc'[r] = "loop" /\ StepsFor(job[r]) = 7 * L + 2
      BY <1>1, <1>5, <2>2 DEF Connect, StepsFor
    <3>2. L \in Nat
      BY <1>1, <2>1, <2>2, OpCertConstants DEF TypeOK
    <3> QED BY <1>2, <2>1, <3>1, <3>2
  <2>3. CASE job[r].cmd # "keygen"
    <3>1. pc'[r] = "read" /\ StepsFor(job[r]) = 7
      BY <1>1, <1>5, <2>3 DEF Connect, StepsFor
    <3> QED BY <1>2, <2>1, <3>1
  <2> QED BY <2>2, <2>3
<1>6. CASE Truncate(r)
  <2> DEFINE S == StepsAtPoint(pc[r])
             K == IF pc[r] \in KeyGenPoints THEN 7 * (Len(job[r].entries) - idx[r]) ELSE 0
  <2>1. /\ pc[r] \in {"hws", "vkey", "ctr", "cert", "bump"} /\ ~open[r] /\ open'[r]
        /\ pc' = pc /\ job' = job /\ idx' = idx
    BY <1>1, <1>6 DEF Truncate
  <2>2. StepsLeft(r) = S - 0 + K /\ StepsLeft(r)' = S - 1 + K
    BY <2>1
  <2>3. S \in Int /\ K \in Int
    BY <1>1, <2>1
  <2>4. StepsLeft(r)' < StepsLeft(r)
    <3> HIDE DEF S, K, StepsLeft
    <3> QED BY <2>2, <2>3
  <2> HIDE DEF StepsLeft
  <2> QED BY <1>2, <2>1, <2>4
<1>7. CASE ExportKey(r) \/ FillHws(r) \/ FillVKey(r)
  <2>1. pc[r] \in KeyGenPoints /\ job' = job /\ idx' = idx
    BY <1>7 DEF ExportKey, FillHws, FillVKey, Fill
  <2>2. \/ pc[r] = "loop" /\ pc'[r] = "hws" /\ open' = open /\ ~open[r]
        \/ pc[r] = "hws" /\ pc'[r] = "vkey" /\ open[r] /\ ~open'[r]
        \/ pc[r] = "vkey" /\ pc'[r] = "ctr" /\ open[r] /\ ~open'[r]
    BY <1>1, <1>7 DEF ExportKey, FillHws, FillVKey, Fill
  <2>3. L \in Nat /\ idx[r] \in Nat /\ L' = L
    BY <1>1, <2>1
  <2>4. StepsLeft(r)' < StepsLeft(r)
    <3> HIDE DEF L
    <3>1. StepsLeft(r) = StepsAtPoint(pc[r]) - (IF open[r] THEN 1 ELSE 0) + 7 * (L - idx[r])
      BY <2>1 DEF L
    <3>2. StepsLeft(r)' = StepsAtPoint(pc'[r]) - (IF open'[r] THEN 1 ELSE 0) + 7 * (L - idx[r])
      BY <2>1, <2>2 DEF L
    <3> DEFINE K == 7 * (L - idx[r])
    <3>3. K \in Int
      BY <2>3
    <3>4. \/ StepsLeft(r) = 8 - 0 + K /\ StepsLeft(r)' = 7 - (IF open'[r] THEN 1 ELSE 0) + K
          \/ StepsLeft(r) = 7 - 1 + K /\ StepsLeft(r)' = 5 - 0 + K
          \/ StepsLeft(r) = 5 - 1 + K /\ StepsLeft(r)' = 3 - 0 + K
      <4> HIDE DEF StepsLeft
      <4> QED BY <2>2, <3>1, <3>2
    <3> HIDE DEF StepsLeft, K
    <3> QED BY <3>3, <3>4
  <2>5. pc'[r] \in {"hws", "vkey", "ctr"} /\ ~open'[r]
    BY <2>2
  <2> HIDE DEF StepsLeft, L
  <2> QED BY <1>2, <2>4, <2>5
<1>10. CASE FillCounter(r)
  <2> DEFINE i == idx[r]
  <2>1. /\ pc[r] = "ctr" /\ open[r] /\ job' = job
        /\ pc'[r] = "loop" /\ ~open'[r] /\ idx'[r] = idx[r] + 1
    BY <1>1, <1>10 DEF FillCounter, Fill
  <2>2. idx[r] <= L /\ L \in Nat
    BY <1>1, <2>1
  <2>3. StepsLeft(r) = 2 + 7 * (L - i) /\ StepsLeft(r)' = 8 + 7 * (L - (i + 1))
    BY <2>1
  <2>4. L \in Nat /\ i \in Nat /\ i <= L
    BY <1>1, <2>2
  <2>5. StepsLeft(r)' < StepsLeft(r) /\ idx'[r] <= L + 1
    <3>1. idx'[r] = i + 1
      BY <2>1
    <3> HIDE DEF L, i, StepsLeft
    <3> QED BY <2>3, <2>4, <3>1
  <2>6. Len(job'[r].entries) = L
    BY <2>1
  <2> HIDE DEF StepsLeft, L
  <2> QED BY <1>2, <2>1, <2>5, <2>6
<1>8. CASE ReadCounter(r) \/ Sign(r) \/ FillCert(r)
  <2>1. /\ \/ pc[r] = "read" /\ pc'[r] = "sign" /\ ~open[r] /\ open' = open
           \/ pc[r] = "sign" /\ pc'[r] = "cert" /\ ~open[r] /\ open' = open
           \/ pc[r] = "cert" /\ pc'[r] = "bump" /\ open[r] /\ ~open'[r]
    BY <1>1, <1>8 DEF ReadCounter, Sign, FillCert, Fill
  <2> QED BY <1>2, <2>1
<1>9. CASE \/ ConnectTimeout(r) \/ Die(r) \/ InvalidInputs(r) \/ FinishKeyGen(r) \/ BadCounter(r)
           \/ CannotSign(r) \/ BumpCounter(r)
  BY <1>4, <1>9 DEF ConnectTimeout, Die, InvalidInputs, FinishKeyGen, BadCounter, CannotSign,
     BumpCounter, Fill, Holding
<1> QED
  BY <1>3, <1>5, <1>6, <1>7, <1>8, <1>9, <1>10 DEF Work, KeyGenStep, IssueStep

\* Every command ends after a number of steps of its own that its command line fixes: as
\* long as a run is not held up, it gets to its end, whatever it finds in its files.
THEOREM BoundedCommands == Spec => [][\A r \in Runs : Progress(r)]_vars
<1>1. Init => LoopBounds
  BY DEF Init, LoopBounds
<1>2. ASSUME TypeOK, LoopBounds, [Next]_vars
      PROVE  LoopBounds' /\ [\A r \in Runs : Progress(r)]_vars
  <2>1. CASE UNCHANGED vars
    BY <1>2, <2>1 DEF vars, LoopBounds
  <2>2. ASSUME NEW r \in Runs, StartKeyGen(r) \/ StartIssue(r) \/ Work(r) \/ Die(r)
        PROVE  LoopBounds' /\ \A q \in Runs : Progress(q)
    <3>1. ASSUME NEW q \in Runs \ {r}
          PROVE  /\ Progress(q)
                 /\ pc'[q] \in {"idle", "wait"} => idx'[q] = 1
                 /\ pc'[q] = "loop" => idx'[q] <= Len(job'[q].entries) + 1
                 /\ open'[q] => pc'[q] \in {"hws", "vkey", "ctr", "cert", "bump"}
      <4>1. Stays(q)
        BY <1>2, <2>2, <3>1, OthersStay
      <4>2. StepsLeft(q) \in Nat
        BY <1>2, StepsCounted
      <4> QED BY <1>2, <4>1, <4>2 DEF Stays, Progress, LoopBounds, StepsLeft
    <3> QED BY <1>2, <2>2, <3>1, OwnProgress DEF LoopBounds, Progress
  <2> QED BY <1>2, <2>1, <2>2 DEF Next
<1> QED BY <1>1, <1>2, InitType, NextType, PTL DEF Spec
=============================================================================
