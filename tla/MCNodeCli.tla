----------------------------- MODULE MCNodeCli -----------------------------
(* Small instances of NodeCli for TLC. *)
EXTENDS NodeCli

CONSTANTS a1, a2

MCPaths == {"cold0", "cold1", "stake"}
MCCold == {"cold0", "cold1"}
MCSeeds == {"s"}
MCSeed == [d \in {"ledger", "trezor"} |-> "s"]
MCFiles == {"h0", "v0", "c0", "h1", "v1", "c1", "o"}

Entry0 == [path |-> "cold0", hws |-> "h0", vkey |-> "v0", counter |-> "c0"]
Entry1 == [path |-> "cold1", hws |-> "h1", vkey |-> "v1", counter |-> "c1"]

KeyGen(es) == [cmd |-> "keygen", entries |-> es, uneven |-> FALSE]

\* one key; two keys; a second path that is refused once the first has its files; a file
\* too many
MCKeyGenJobs ==
  {KeyGen(<<Entry0>>), KeyGen(<<Entry1, Entry0>>),
   KeyGen(<<Entry0, [Entry1 EXCEPT !.path = "stake"]>>),
   [KeyGen(<<Entry0>>) EXCEPT !.uneven = TRUE]}

\* with the signing file of the counter's key, and with another one
MCIssueJobs ==
  {[cmd |-> "issue", hws |-> {h}, counter |-> "c0", out |-> "o"] : h \in {"h0", "h1"}}
=============================================================================
