------------------------ MODULE ProviderSelectProofs ------------------------
(***************************************************************************)
(* Proofs about ProviderSelect, for any number of commands.  The invariant *)
(* adds to TypeOK which callbacks can be outstanding: attempts and timer   *)
(* belong to a living process, a command that still selects has no device  *)
(* open, and a device is open to one process only.                         *)
(***************************************************************************)
EXTENDS ProviderSelect, TLAPS

CallbacksOfLiving ==
  \A p \in Procs :
    /\ timer[p] = "on" => pc[p] \in Alive
    /\ \A v \in Providers : attempt[p][v] \in {"pending", "open"} => pc[p] \in Alive

SelectingEmptyHanded ==
  \A p \in Procs : pc[p] = "selecting" => \A v \in Providers : attempt[p][v] # "open"

Exclusive ==
  \A v \in Providers, p, q \in Procs :
    attempt[p][v] = "open" /\ attempt[q][v] = "open" => p = q

IInv == TypeOK /\ CallbacksOfLiving /\ SelectingEmptyHanded /\ Exclusive

\* No callback is outstanding at first.
LEMMA InitIInv == Init => IInv
BY NobodyIsNone DEF Init, IInv, TypeOK, CallbacksOfLiving, SelectingEmptyHanded, Exclusive,
  Alive, Providers

\* However a process exits, it leaves nothing behind.
LEMMA ExitKeeps ==
  ASSUME IInv, NEW p \in Procs, NEW how \in {"done", "failed", "dead"}, Exit(p, how)
  PROVE  IInv'
<1> USE DEF IInv, Exit
<1>1. TypeOK'
  BY NobodyIsNone DEF TypeOK, Alive
<1>2. CallbacksOfLiving'
  BY DEF TypeOK, CallbacksOfLiving, Alive
<1>3. SelectingEmptyHanded'
  BY DEF TypeOK, SelectingEmptyHanded
<1>4. Exclusive'
  BY DEF TypeOK, Exclusive
<1> QED BY <1>1, <1>2, <1>3, <1>4

\* Every callback preserves the invariant.
LEMMA NextIInv == IInv /\ [Next]_vars => IInv'
<1> SUFFICES ASSUME IInv, [Next]_vars PROVE IInv'
  OBVIOUS
<1>1. ASSUME NEW p \in Procs, Begin(p) PROVE IInv'
  <2> USE <1>1 DEF IInv, Begin
  <2>1. TypeOK' BY NobodyIsNone DEF TypeOK, Alive
  <2>2. CallbacksOfLiving' BY DEF TypeOK, CallbacksOfLiving, Alive
  <2>3. SelectingEmptyHanded' BY DEF TypeOK, SelectingEmptyHanded
  <2>4. Exclusive' BY DEF TypeOK, Exclusive
  <2> QED BY <2>1, <2>2, <2>3, <2>4
<1>2. ASSUME NEW p \in Procs, NEW v \in Providers, Answer(p, v) PROVE IInv'
  <2> USE <1>2 DEF IInv, Answer, Opens
  <2>1. TypeOK' BY NobodyIsNone DEF TypeOK, Alive, Providers
  <2>2. CallbacksOfLiving' BY DEF TypeOK, CallbacksOfLiving, Alive
  <2>3. SelectingEmptyHanded' BY DEF TypeOK, SelectingEmptyHanded
  <2>4. Exclusive' BY DEF TypeOK, Exclusive, OpenElsewhere
  <2> QED BY <2>1, <2>2, <2>3, <2>4
<1>3. ASSUME NEW p \in Procs, NEW v \in Providers, Fail(p, v) PROVE IInv'
  <2>1. CASE Exit(p, "failed") BY <2>1, ExitKeeps
  <2>2. CASE attempt' = [attempt EXCEPT ![p][v] = "failed"] /\ UNCHANGED <<pc, timer, provider>>
    <3> USE <1>3, <2>2 DEF IInv, Fail
    <3>1. TypeOK' BY DEF TypeOK
    <3>2. CallbacksOfLiving' BY DEF TypeOK, CallbacksOfLiving
    <3>3. SelectingEmptyHanded' BY DEF TypeOK, SelectingEmptyHanded
    <3>4. Exclusive' BY DEF TypeOK, Exclusive
    <3> QED BY <3>1, <3>2, <3>3, <3>4
  <2> QED BY <1>3, <2>1, <2>2 DEF Fail
<1>4. ASSUME NEW p \in Procs, Timeout(p) PROVE IInv'
  <2>1. CASE pc[p] = "selecting" BY <1>4, <2>1, ExitKeeps DEF Timeout
  <2>2. CASE pc[p] # "selecting"
    <3> USE <1>4, <2>2 DEF IInv, Timeout
    <3>1. TypeOK' BY DEF TypeOK
    <3>2. CallbacksOfLiving' BY DEF TypeOK, CallbacksOfLiving
    <3>3. SelectingEmptyHanded' BY DEF SelectingEmptyHanded
    <3>4. Exclusive' BY DEF Exclusive
    <3> QED BY <3>1, <3>2, <3>3, <3>4
  <2> QED BY <2>1, <2>2
<1>5. ASSUME NEW p \in Procs, Finish(p) PROVE IInv'
  BY <1>5, ExitKeeps DEF Finish
<1>6. ASSUME NEW p \in Procs, Die(p) PROVE IInv'
  BY <1>6, ExitKeeps DEF Die
<1>7. CASE UNCHANGED vars
  BY <1>7 DEF vars, IInv, TypeOK, CallbacksOfLiving, SelectingEmptyHanded, Exclusive
<1> QED BY <1>1, <1>2, <1>3, <1>4, <1>5, <1>6, <1>7 DEF Next

\* The invariant of device selection, of which TypeOK is a part.
THEOREM Invariance == Spec => []IInv
<1>1. Init => IInv BY InitIInv
<1>2. IInv /\ [Next]_vars => IInv' BY NextIInv
<1> QED BY <1>1, <1>2, PTL DEF Spec

\* The states and outstanding callbacks of every command are of the types declared.
THEOREM TypeCorrect == Spec => []TypeOK
<1>1. IInv => TypeOK BY DEF IInv
<1> QED BY <1>1, Invariance, PTL

-----------------------------------------------------------------------------

GivesUpStep ==
  \A p \in Procs :
    pc[p] \in Alive /\ pc'[p] = "failed" => \A v \in Providers : attempt[p][v] # "open"

\* No command gives up on finding a device while it has one open, so an answer is never
\* lost to the timer or to the failure of the other attempt.
THEOREM NoAnswerLost == Spec => GivesUpEmptyHanded
<1>1. IInv /\ [Next]_vars => GivesUpStep
  <2> SUFFICES ASSUME IInv, [Next]_vars, NEW p \in Procs, pc[p] \in Alive, pc'[p] = "failed",
                      NEW v \in Providers
               PROVE  attempt[p][v] # "open"
    BY DEF GivesUpStep
  <2> USE DEF IInv, TypeOK, Alive
  <2>1. ASSUME NEW q \in Procs, Begin(q) PROVE attempt[p][v] # "open"
    BY <2>1 DEF Begin
  <2>2. ASSUME NEW q \in Procs, NEW w \in Providers, Answer(q, w) PROVE attempt[p][v] # "open"
    BY <2>2 DEF Answer
  <2>3. ASSUME NEW q \in Procs, NEW w \in Providers, Fail(q, w) PROVE attempt[p][v] # "open"
    BY <2>3 DEF Fail, Exit
  <2>4. ASSUME NEW q \in Procs, Timeout(q) PROVE attempt[p][v] # "open"
    BY <2>4 DEF Timeout, Exit, SelectingEmptyHanded
  <2>5. ASSUME NEW q \in Procs, Finish(q) PROVE attempt[p][v] # "open"
    BY <2>5 DEF Finish, Exit
  <2>6. ASSUME NEW q \in Procs, Die(q) PROVE attempt[p][v] # "open"
    BY <2>6 DEF Die, Exit, SelectingEmptyHanded
  <2>7. CASE UNCHANGED vars BY <2>7 DEF vars
  <2> QED BY <2>1, <2>2, <2>3, <2>4, <2>5, <2>6, <2>7 DEF Next
<1>2. GivesUpStep => [GivesUpStep]_vars OBVIOUS
<1> QED BY <1>1, Invariance, PTL DEF Spec, GivesUpEmptyHanded, GivesUpStep

-----------------------------------------------------------------------------

\* A device has one user at most: the command that works with it.
LEMMA OneUser ==
  ASSUME IInv
  PROVE  /\ \A v \in Providers, p \in Procs : provider[p] = v => User[v] = p
         /\ \A v \in Providers : (\A p \in Procs : provider[p] # v) => User[v] = Nobody
<1>1. ASSUME NEW v \in Providers, NEW p \in Procs, provider[p] = v PROVE User[v] = p
  <2>1. Users(v) = {p}
    BY <1>1, NobodyIsNone DEF IInv, TypeOK, Exclusive, Users
  <2> QED BY <2>1 DEF User
<1>2. ASSUME NEW v \in Providers, \A p \in Procs : provider[p] # v PROVE User[v] = Nobody
  BY <1>2 DEF User, Users
<1> QED BY <1>1, <1>2

\* The same after a step.
LEMMA OneUserNext ==
  ASSUME IInv'
  PROVE  /\ \A v \in Providers, p \in Procs : provider'[p] = v => User'[v] = p
         /\ \A v \in Providers : (\A p \in Procs : provider'[p] # v) => User'[v] = Nobody
<1>1. ASSUME NEW v \in Providers, NEW p \in Procs, provider'[p] = v PROVE User'[v] = p
  <2>1. Users(v)' = {p}
    BY <1>1, NobodyIsNone DEF IInv, TypeOK, Exclusive, Users
  <2> QED BY <2>1 DEF User
<1>2. ASSUME NEW v \in Providers, \A p \in Procs : provider'[p] # v PROVE User'[v] = Nobody
  BY <1>2 DEF User, Users
<1> QED BY <1>1, <1>2

\* Who uses what follows from the providers alone.
LEMMA SameProviderSameUser ==
  ASSUME UNCHANGED provider
  PROVE  User' = User
BY DEF User, Users

\* To exit is to release the device one works with, if any.
LEMMA ExitReleases ==
  ASSUME IInv, IInv', NEW p \in Procs, NEW how \in {"done", "failed", "dead"}, Exit(p, how),
         pc[p] \in Alive, pc[p] = "working" <=> how \in {"done", "dead"}
  PROVE  [Session!Next]_(Session!vars)
<1>1. Served' = Served
  <2>1. \A q \in Procs : pc'[q] = IF q = p THEN how ELSE pc[q]
    BY DEF Exit, IInv, TypeOK
  <2>2. \A q \in Procs : pc'[q] \in {"working", "done", "dead"}
                        <=> pc[q] \in {"working", "done", "dead"}
    BY <2>1 DEF Alive
  <2> QED BY <2>2 DEF Served
<1>2. CASE provider[p] = Nobody
  <2>1. provider' = provider BY <1>2 DEF Exit, IInv, TypeOK
  <2> QED BY <1>1, <2>1, SameProviderSameUser DEF Session!vars
<1>3. CASE provider[p] # Nobody
  <2> DEFINE v == provider[p]
  <2>1. v \in Providers BY <1>3 DEF IInv, TypeOK
  <2>2. User[v] = p /\ p # Nobody BY <2>1, OneUser, NobodyIsNone
  <2>3. \A q \in Procs : provider'[q] = IF q = p THEN Nobody ELSE provider[q]
    BY DEF Exit, IInv, TypeOK
  <2>4. ASSUME NEW w \in Providers PROVE User'[w] = IF w = v THEN Nobody ELSE User[w]
    <3>1. CASE \E q \in Procs : provider'[q] = w
      <4>1. PICK q \in Procs : provider'[q] = w BY <3>1
      <4>2. q # p /\ provider[q] = w BY <4>1, <2>3, NobodyIsNone DEF Providers
      <4>3. User'[w] = q /\ User[w] = q BY <4>1, <4>2, OneUser, OneUserNext
      <4>4. w # v BY <4>2, <4>3, <2>2
      <4> QED BY <4>3, <4>4
    <3>2. CASE \A q \in Procs : provider'[q] # w
      <4>1. User'[w] = Nobody BY <3>2, OneUserNext
      <4>2. CASE w = v BY <4>1, <4>2
      <4>3. CASE w # v
        <5>1. \A q \in Procs : provider[q] # w BY <4>3, <3>2, <2>3
        <5> QED BY <5>1, <4>1, <4>3, OneUser
      <4> QED BY <4>2, <4>3
    <3> QED BY <3>1, <3>2
  <2>5. User' = [User EXCEPT ![v] = Nobody]
    <3>1. User = [w \in Providers |-> User[w]] /\ User' = [w \in Providers |-> User'[w]]
      BY DEF User
    <3> QED BY <3>1, <2>4
  <2>6. Session!Release(v) BY <1>1, <2>2, <2>5 DEF Session!Release
  <2> QED BY <2>1, <2>6 DEF Session!Next
<1> QED BY <1>2, <1>3

\* An answer while the command selects hands it the device; a later one changes nothing.
LEMMA AnswerAcquires ==
  ASSUME IInv, IInv', NEW p \in Procs, NEW v \in Providers, Answer(p, v)
  PROVE  [Session!Next]_(Session!vars)
<1>1. CASE pc[p] # "selecting"
  <2>1. UNCHANGED <<pc, provider>> BY <1>1 DEF Answer
  <2>2. Served' = Served BY <2>1 DEF Served
  <2> QED BY <2>1, <2>2, SameProviderSameUser DEF Session!vars
<1>2. CASE pc[p] = "selecting"
  <2>1. pc' = [pc EXCEPT ![p] = "working"] /\ provider' = [provider EXCEPT ![p] = v]
    BY <1>2 DEF Answer
  <2>2. \A q \in Procs : provider'[q] = IF q = p THEN v ELSE provider[q]
    BY <2>1 DEF IInv, TypeOK
  <2>3. \A q \in Procs : provider[q] # v
    BY <1>2, NobodyIsNone DEF IInv, TypeOK, Answer, Opens, OpenElsewhere
  <2>4. User[v] = Nobody BY <2>3, OneUser
  <2>5. p \notin Served /\ Served' = Served \cup {p}
    BY <1>2, <2>1 DEF Served, IInv, TypeOK
  <2>6. ASSUME NEW w \in Providers PROVE User'[w] = IF w = v THEN p ELSE User[w]
    <3>1. CASE w = v BY <3>1, <2>2, OneUserNext
    <3>2. CASE w # v /\ \E q \in Procs : provider[q] = w
      <4>1. PICK q \in Procs : provider[q] = w BY <3>2
      <4>2. provider'[q] = w
        BY <4>1, <2>2, <1>2, NobodyIsNone DEF IInv, TypeOK
      <4> QED BY <3>2, <4>1, <4>2, OneUser, OneUserNext
    <3>3. CASE w # v /\ \A q \in Procs : provider[q] # w
      <4>1. \A q \in Procs : provider'[q] # w BY <3>3, <2>2
      <4> QED BY <3>3, <4>1, OneUser, OneUserNext
    <3> QED BY <3>1, <3>2, <3>3
  <2>7. User' = [User EXCEPT ![v] = p]
    <3>1. User = [w \in Providers |-> User[w]] /\ User' = [w \in Providers |-> User'[w]]
      BY DEF User
    <3> QED BY <3>1, <2>6
  <2>8. Session!Acquire(p, v) BY <2>4, <2>5, <2>7 DEF Session!Acquire
  <2> QED BY <2>8 DEF Session!Next
<1> QED BY <1>1, <1>2

\* Selection implements DeviceSession: each command is given one device, once,
\* exclusively, and keeps it until it ends, whatever answers or fires late.
THEOREM SessionImplemented == Spec => ImplementsSession
<1>1. Init => Session!Init
  <2> SUFFICES ASSUME Init PROVE Session!Init
    OBVIOUS
  <2>1. Served = {} BY DEF Init, Served
  <2>2. \A v \in Providers : Users(v) = {} BY NobodyIsNone DEF Init, Users
  <2>3. User = [v \in Providers |-> Nobody] BY <2>2 DEF User
  <2> QED BY <2>1, <2>3 DEF Session!Init
<1>2. IInv /\ IInv' /\ [Next]_vars => [Session!Next]_(Session!vars)
  <2> SUFFICES ASSUME IInv, IInv', [Next]_vars PROVE [Session!Next]_(Session!vars)
    OBVIOUS
  <2>1. ASSUME UNCHANGED provider, Served' = Served PROVE [Session!Next]_(Session!vars)
    BY <2>1, SameProviderSameUser DEF Session!vars
  <2>2. ASSUME NEW p \in Procs, Begin(p) PROVE [Session!Next]_(Session!vars)
    <3>1. Served' = Served BY <2>2 DEF Begin, Served, IInv, TypeOK
    <3> QED BY <2>1, <2>2, <3>1 DEF Begin
  <2>3. ASSUME NEW p \in Procs, Timeout(p) PROVE [Session!Next]_(Session!vars)
    <3>1. CASE pc[p] = "selecting" BY <2>3, <3>1, ExitReleases DEF Timeout, Alive
    <3>2. CASE pc[p] # "selecting" BY <2>3, <3>2, <2>1 DEF Timeout, Served
    <3> QED BY <3>1, <3>2
  <2>4. ASSUME NEW p \in Procs, Finish(p) PROVE [Session!Next]_(Session!vars)
    BY <2>4, ExitReleases DEF Finish, Alive
  <2>5. ASSUME NEW p \in Procs, Die(p) PROVE [Session!Next]_(Session!vars)
    BY <2>5, ExitReleases DEF Die, Alive
  <2>6. ASSUME NEW p \in Procs, NEW v \in Providers, Fail(p, v)
        PROVE  [Session!Next]_(Session!vars)
    <3>1. CASE Exit(p, "failed") /\ \A w \in Providers \ {v} : attempt[p][w] = "failed"
      <4>1. pc[p] # "working"
        <5>1. \A w \in Providers : attempt[p][w] # "open"
          BY <2>6, <3>1 DEF Fail
        <5>2. pc[p] = "working" =>
                provider[p] \in Providers /\ attempt[p][provider[p]] = "open"
          BY DEF IInv, TypeOK
        <5> QED BY <5>1, <5>2
      <4>2. pc[p] \in Alive BY <2>6 DEF Fail, IInv, CallbacksOfLiving
      <4>3. [Session!Next]_(Session!vars)
        BY <3>1, <4>1, <4>2, ExitReleases
      <4> QED BY <4>3
    <3>2. CASE UNCHANGED <<pc, timer, provider>> BY <3>2, <2>1 DEF Served
    <3> QED BY <2>6, <3>1, <3>2 DEF Fail
  <2>7. ASSUME NEW p \in Procs, NEW v \in Providers, Answer(p, v)
        PROVE  [Session!Next]_(Session!vars)
    BY <2>7, AnswerAcquires
  <2>8. CASE UNCHANGED vars BY <2>8, <2>1 DEF vars, Served
  <2> QED BY <2>2, <2>3, <2>4, <2>5, <2>6, <2>7, <2>8 DEF Next
<1> QED BY <1>1, <1>2, Invariance, PTL DEF Spec, ImplementsSession, Session!Spec
=============================================================================
