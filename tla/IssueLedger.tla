---------------------------- MODULE IssueLedger ----------------------------
(***************************************************************************)
(* What issuing operational certificates promises, per counter file: the   *)
(* published issue numbers obey the rule by which the chain accepts a      *)
(* certificate, i.e. each is the last one or the last one plus one.  Only  *)
(* node key-gen, which writes a fresh counter file, starts over at zero.   *)
(***************************************************************************)
EXTENDS Naturals, Sequences

CONSTANT Counters    \* the issue counter files
VARIABLE published   \* issue numbers published from each since its reset

Acceptable(s) ==
  IF s = << >> THEN {0} ELSE {s[Len(s)], s[Len(s)] + 1}

Init == published = [c \in Counters |-> << >>]

Issue(c) ==
  \E n \in Acceptable(published[c]) :
    published' = [published EXCEPT ![c] = Append(@, n)]

Reset(c) == published' = [published EXCEPT ![c] = << >>]

Next == \E c \in Counters : Issue(c) \/ Reset(c)

Spec == Init /\ [][Next]_published
=============================================================================
