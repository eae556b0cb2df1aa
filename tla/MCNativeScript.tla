--------------------------- MODULE MCNativeScript ---------------------------
(* Native scripts of up to three levels for TLC. *)
EXTENDS NativeScript

MCPaths == {"mint", "multisig"}
MCType == [mint |-> "Mint", multisig |-> "MultiSig"]

Leaf(node) == [p \in {<< >>} |-> node]
List(node, ss) ==
  [p \in {<< >>} \cup UNION {{<<i>> \o q : q \in DOMAIN ss[i]} : i \in DOMAIN ss} |->
     IF p = << >> THEN node ELSE ss[Head(p)][Tail(p)]]

Sig(key, junk) == Leaf([type |-> "sig", keyHash |-> [key |-> key, junk |-> junk]])
Either(type, ss) == List([type |-> type, scripts |-> Len(ss)], ss)
AtLeast(n, ss) == List([type |-> "atLeast", required |-> n, scripts |-> Len(ss)], ss)

\* Numbers up to, at and above MaxSafe = 7, and one and a half; 9 is not a double.
Whole(n) == [floor |-> n, fraction |-> FALSE]
Half == [floor |-> 1, fraction |-> TRUE]

Slots ==
  {Leaf([type |-> t, slot |-> n]) :
     t \in {"after", "before"}, n \in {Half} \cup {Whole(i) : i \in {-1, 0, 7, 8, 9}}}
Sigs == {Sig(k, FALSE) : k \in Keys}
Malformed ==
  {Leaf([type |-> t]) : t \in {"sig", "all", "atLeast", "after", "unknown"}}
    \cup {Leaf([type |-> "atLeast", required |-> Whole(1)]), Leaf([type |-> "atLeast", scripts |-> 0])}

Leaves == Slots \cup Sigs \cup {Sig(<<"dev", "mint">>, TRUE)}
Lists == {<< >>} \cup {<<s>> : s \in Leaves \cup Malformed} \cup (Leaves \X Leaves)

Twos == {AtLeast(n, ss) : n \in {Half} \cup {Whole(i) : i \in {0, 1, 7, 9}}, ss \in {<<s, t>> : s \in Sigs, t \in Slots}}

MCScriptFiles ==
  Leaves \cup Malformed
    \cup {Either(type, ss) : type \in {"all", "any"}, ss \in Lists}
    \cup Twos
    \cup {Either("all", <<s, t>>) : s \in Leaves, t \in Twos}

MCFileLists ==
  {<< >>} \cup {<<k>> : k \in Keys} \cup {<<<<"dev", "mint">>, <<"other", "multisig">>>>}
=============================================================================
