------------------------- MODULE MCVoteRegistration -------------------------
(* Command lines of "vote registration-metadata" for TLC. *)
EXTENDS VoteRegistration

MCPaths == {"pay", "stake", "byron"}
MCType == [p \in MCPaths |-> IF p = "stake" THEN "Stake" ELSE "Payment"]

D(p) == <<"dev", p>>
O(p) == <<"other", p>>
AllKeys == {D(p) : p \in MCPaths} \cup {O("pay"), O("stake")}

Arg(option, text, key) == [option |-> option, text |-> text, key |-> key]
Bech(key) == Arg("string", "bech32", key)

Addr(kind, p, s) == [kind |-> kind, payment |-> p, stake |-> s]
MCAddresses ==
  {Addr("OTHER", NoKey, NoKey), Addr("INVALID", NoKey, NoKey), Addr("BASE_KEY_KEY", D("pay"), D("stake")),
   Addr("BASE_KEY_KEY", O("pay"), D("stake")), Addr("REWARD_KEY", NoKey, D("stake")),
   Addr("REWARD_KEY", NoKey, O("stake")), Addr("ENTERPRISE_KEY", D("pay"), NoKey)}

Cmd(vs, ws, stake, payment, address, purpose) ==
  [voteKeys |-> vs, weights |-> ws, stake |-> stake, payment |-> payment,
   address |-> address, purpose |-> purpose]

\* Numbers around MaxSafe = 4; the files that go with an address; delegations that do and
\* do not fit together; each way to give a key with each text.
MCCommands ==
  {Cmd(<<Bech("v1")>>, << >>, s, p, a, 0) :
     s \in AllKeys, p \in {<< >>} \cup {<<k>> : k \in AllKeys}, a \in MCAddresses}
    \cup {Cmd(<<Bech("v1"), Bech("v2")>>, ws, D("stake"), << >>, a, n) :
            ws \in {<< >>, <<1>>, <<3, 1>>, <<1, 4>>, <<5, 2>>, <<0, 6>>, <<1, 2, 3>>},
            a \in MCAddresses, n \in {0, 4, 5}}
    \cup {Cmd(<< >>, ws, D("stake"), << >>, Addr("OTHER", NoKey, NoKey), 0) :
            ws \in {<< >>, <<1>>}}
    \cup {Cmd(<<Arg(o, t, "v1")>>, << >>, D("stake"), << >>, Addr("OTHER", NoKey, NoKey), 0) :
            o \in VoteKeyOptions, t \in VoteKeyTexts}
=============================================================================
