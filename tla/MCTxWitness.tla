---------------------------- MODULE MCTxWitness -----------------------------
(* Command lines of "transaction witness" for TLC. *)
EXTENDS TxWitness

MCSeeds == {"dev", "other"}
MCPaths == {"pay0", "pay1", "stake0", "stake1", "cold", "mint", "multi", "vote"}
MCType ==
  [p \in MCPaths |->
     CASE p \in {"pay0", "pay1"} -> "Payment"
       [] p \in {"stake0", "stake1"} -> "Stake"
       [] p = "cold" -> "PoolCold"
       [] p = "mint" -> "Mint"
       [] p = "multi" -> "MultiSig"
       [] p = "vote" -> "CIP36Voting"]
MCFiles == {"w1", "w2", "w3"}

D(p) == <<"dev", p>>
O(p) == <<"other", p>>

Addr(kind, p, s) == [kind |-> kind, payment |-> p, stake |-> s]
ThirdParty == Addr("OTHER", NoKey, NoKey)
UnknownType == Addr("INVALID", NoKey, NoKey)

Plain == [inputs |-> <<1>>, outputs |-> <<ThirdParty>>, certificates |-> << >>, withdrawals |-> << >>,
          requiredSigners |-> {}, mint |-> FALSE, collateralInputs |-> FALSE,
          networkId |-> Absent]

Stake(type, c) == [type |-> "STAKE_" \o type, credential |-> c]
Pool(op, owners, reward) ==
  [type |-> "POOL_REGISTRATION", operator |-> op, owners |-> owners, rewardAccount |-> reward,
   relayPorts |-> {3001}]
Retire(op) == [type |-> "POOL_RETIREMENT", operator |-> op]

CertificateLists ==
  {<<Stake("REGISTRATION", D("stake0"))>>,
   <<Stake("REGISTRATION", D("stake0")), Stake("DELEGATION", D("stake1"))>>,
   <<Stake("DEREGISTRATION", Script)>>,
   <<Stake("DELEGATION", O("stake0"))>>,
   <<Stake("DELEGATION", D("pay0"))>>,
   <<Retire(D("cold")), Stake("DEREGISTRATION", D("stake0"))>>,
   <<Retire(O("cold"))>>,
   <<Pool(D("cold"), <<D("stake0")>>, D("stake0"))>>,
   <<Pool(D("cold"), <<D("stake0"), O("stake0")>>, Script)>>,
   <<Pool(O("cold"), <<D("stake0"), D("stake1")>>, D("stake1"))>>,
   <<Pool(O("cold"), <<D("stake0"), D("stake0")>>, D("stake0"))>>,
   <<Pool(O("cold"), <<D("stake0")>>, D("stake1")), Stake("DELEGATION", D("stake1"))>>,
   <<[Pool(D("cold"), <<D("stake0")>>, D("stake0")) EXCEPT !.relayPorts = {0, 3001}]>>,
   <<[type |-> "OTHER"]>>}

PlainBodies ==
  {[Plain EXCEPT !.certificates = cs] : cs \in CertificateLists}
    \cup {[Plain EXCEPT !.withdrawals = <<D("stake0"), O("stake1")>>],
          [Plain EXCEPT !.withdrawals = <<D("stake1"), Script>>, !.mint = TRUE],
          [Plain EXCEPT !.collateralInputs = TRUE, !.mint = TRUE,
                        !.withdrawals = <<O("stake1")>>,
                        !.requiredSigners = {D("pay0"), D("stake0"), O("pay1")}],
          [Plain EXCEPT !.collateralInputs = TRUE, !.withdrawals = <<D("stake0"), Script>>],
          [Plain EXCEPT !.requiredSigners = {D("stake0"), D("cold")}],
          [Plain EXCEPT !.outputs = <<UnknownType>>],
          [Plain EXCEPT !.networkId = "mainnet"],
          [Plain EXCEPT !.inputs = <<0, 7>>], [Plain EXCEPT !.inputs = <<0, 9>>],
          [Plain EXCEPT !.networkId = "testnet"]}

FileKeys == {D(p) : p \in MCPaths} \cup {O("pay0"), O("stake0"), O("cold")}

FileLists ==
  UNION {[1 .. n -> FileKeys] : n \in 1 .. 2}
    \cup [1 .. 3 -> {D("pay0"), D("stake0"), O("stake0"), D("cold"), D("mint"), D("multi")}]
    \cup {<<D("pay0"), D("stake0"), D("stake1")>>, <<D("stake0"), D("pay0"), D("cold")>>,
          <<D("stake0"), O("stake0"), D("pay0")>>, <<D("multi"), D("pay0"), D("mint")>>,
          <<D("pay0"), D("pay0"), D("pay1")>>}

OutFileLists == {<<"w1">>, <<"w1", "w2", "w3">>, <<"w1", "w1">>}

JobOf(b, e, fl, ch, o) ==
  [body |-> b, errors |-> e, network |-> "mainnet", files |-> fl, change |-> ch, outFiles |-> o]

\* Outputs to oneself, to another wallet, to a reward account; change files of either.
ChangeBodies ==
  {[Plain EXCEPT !.outputs = <<a, ThirdParty>>, !.collateralInputs = c] :
     c \in BOOLEAN,
     a \in {Addr("BASE_KEY_KEY", D("pay0"), D("stake0")),
            Addr("BASE_KEY_KEY", O("pay0"), D("stake0")),
            Addr("ENTERPRISE_KEY", D("pay1"), NoKey), Addr("REWARD_KEY", NoKey, D("stake0")),
            UnknownType}}

MCJobs ==
  {JobOf(b, "none", fl, << >>, o) : b \in PlainBodies, fl \in FileLists, o \in OutFileLists}
    \cup {JobOf(b, "none", fl, ch, <<"w1", "w2">>) :
            b \in ChangeBodies, fl \in {<<D("pay0")>>, <<D("multi")>>, <<O("pay0")>>},
            ch \in {<<D("pay1"), D("stake0"), D("pay0")>>, <<O("pay0"), D("stake0")>>}}
    \cup {JobOf(Plain, e, <<D("pay0")>>, << >>, <<"w1">>) : e \in {"fixable", "unfixable"}}
=============================================================================
