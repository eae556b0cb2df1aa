------------------------------ MODULE MCKeyGen ------------------------------
(* Small instances of KeyGen for TLC.  The threshold is above every purpose. *)
EXTENDS KeyGen, TLC

CONSTANTS a1, a2, a3, d1

Hard(n) == [digits |-> n, hardened |-> TRUE]
Soft(n) == [digits |-> n, hardened |-> FALSE]
Path(purpose, tail) == <<Hard(purpose), Hard(1815)>> \o tail

Account0(purpose, role, i) == Path(purpose, <<Hard(0), Soft(role), Soft(i)>>)

Pay == Account0(1852, 0, 0)
Cold == Path(1853, <<Hard(0), Hard(0)>>)
Acc == Path(1852, <<Hard(0)>>)

\* every labelled class
LabelledTexts ==
  {Account0(44, 1, 7), Pay, Account0(1852, 2, 0), Account0(1854, 0, 3),
   Account0(1854, 2, 1), Account0(1694, 0, 1), Path(1855, <<Hard(0)>>), Cold}

\* an account, which is exported but has no label, and paths of no class
OtherTexts ==
  {Acc, Path(1853, <<Hard(0), Soft(0)>>), <<Hard(1852)>>}

Job(ps, hs, vs, d) ==
  [cmd |-> "keygen", paths |-> ps, hws |-> hs, vkeys |-> vs, derivation |-> d]

\* one path of every class; bulk exports, one of them with a path that has no label; the
\* other derivation type; a file named twice; a missing file
MCKeyGenJobs ==
  {Job(<<p>>, <<"h1">>, <<"v1">>, "icarus") : p \in LabelledTexts \cup OtherTexts}
    \cup {Job(<<Cold, Pay>>, <<"h1", "h2">>, <<"v1", "v2">>, "icarus"),
          Job(<<Pay, Acc>>, <<"h1", "h2">>, <<"v1", "v2">>, "icarus"),
          Job(<<Pay>>, <<"h1">>, <<"v1">>, "ledger"),
          Job(<<Pay>>, <<"v1">>, <<"v1">>, "icarus"),
          Job(<<Pay, Cold>>, <<"h1", "h2">>, <<"v1">>, "icarus")}

MCVKeyJobs == {[cmd |-> "vkey", hws |-> h, vkey |-> "w"] : h \in {"h1", "acc"}}

MCFiles == {"h1", "h2", "v1", "v2", "w", "acc"}

\* an account key: a signing file that is read, but for which no other file can be made
AccountFile ==
  [kind |-> "hws", type |-> [label |-> "Payment", flavour |-> "ShelleyEd25519"],
   path |-> Acc, key |-> <<"s1", ParseBIP32Path(Acc)>>]

MCInitialFiles == [f \in MCFiles |-> IF f = "acc" THEN AccountFile ELSE None]

MCSeed == [d \in Devices |-> [t \in Derivations |-> IF t = "icarus" THEN "s1" ELSE "s2"]]

Symmetry == Permutations(Runs)
=============================================================================
