------------------------------ MODULE MCOpCert ------------------------------
(* Small instances of OpCert for TLC. *)
EXTENDS OpCert, TLC

CONSTANTS a1, a2, a3, a4          \* invocations
CONSTANTS d1, d2                  \* device sessions

MCPaths == {"cold0", "cold1", "stake"}
MCCold == {"cold0", "cold1"}
MCSeeds == {"s"}
MCSeed == [d \in Devices |-> "s"]

E(p, n) == [path |-> p, hws |-> n[1], vkey |-> n[2], counter |-> n[3]]

Entry0 == E("cold0", <<"h0", "v0", "c0">>)
Entry1 == E("cold1", <<"h1", "v1", "c1">>)

KeyGen(es) == [cmd |-> "keygen", entries |-> es, uneven |-> FALSE]

\* two paths; a second path of another class; a counter file over a signing file; a
\* file too many
MCKeyGenJobs ==
  {KeyGen(<<Entry0, Entry1>>), KeyGen(<<Entry1, E("stake", <<"h0", "v0", "c0">>)>>),
   KeyGen(<<E("cold0", <<"h0", "v0", "h0">>)>>), [KeyGen(<<Entry0>>) EXCEPT !.uneven = TRUE]}

Issue(hs, c, o) == [cmd |-> "issue", hws |-> hs, counter |-> c, out |-> o]

\* plain; with a second signing file; with the other key's file; out file = counter file
MCIssueJobs ==
  {Issue({"h0"}, "c0", "o"), Issue({"h0", "h1"}, "c1", "o"), Issue({"h1"}, "c0", "o"),
   Issue({"h0"}, "c0", "c0")}

MCFiles == {"h0", "v0", "c0", "h1", "v1", "c1", "o"}

\* for the two-session run: one key, two out files
OneKeyGenJobs == {KeyGen(<<Entry0>>)}
OneKeyIssueJobs == {Issue({"h0"}, "c0", "o")}

Symmetry == Permutations(Runs)
=============================================================================
