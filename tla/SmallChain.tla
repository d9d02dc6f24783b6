----------------------------- MODULE SmallChain -----------------------------
(***************************************************************************)
(* A small tree of blocks for TLC, given by its transactions, and the      *)
(* constants of Chain computed from them.                                  *)
(*                                                                         *)
(*                        c4 - c5                                          *)
(*                       /                                                 *)
(*        g - a1 - a2 - a3 - a4 - a5                                       *)
(*              \                                                          *)
(*               b2 - b3 - b4 - b5                                         *)
(*                                                                         *)
(* The tree has a spend of an older block, of the same block (r spends q)  *)
(* and of both, a spend of an output without an address (p, 3), one        *)
(* transaction (q) in both forks, and blocks that hold only a coinbase.    *)
(* Outputs that are neither storable nor spent are left out.               *)
(***************************************************************************)
EXTENDS Integers, Sequences, FiniteSets, FiniteSetsExt, SequencesExt

SmallAddress == {"A", "B"}
SmallBlock == {"g", "a1", "a2", "a3", "a4", "a5", "b2", "b3", "b4", "b5", "c4", "c5"}
SmallPrev ==
    [b \in SmallBlock |->
        CASE b = "g"  -> "zero"
          [] b = "a1" -> "g"
          [] b = "a2" -> "a1"
          [] b = "a3" -> "a2"
          [] b = "a4" -> "a3"
          [] b = "b2" -> "a1"
          [] b = "b3" -> "b2"
          [] b = "a5" -> "a4"
          [] b = "b4" -> "b3"
          [] b = "b5" -> "b4"
          [] b = "c4" -> "a3"
          [] b = "c5" -> "c4"]
SmallPoint == SmallBlock \cup {"zero"}

NullOut == <<"zero", 9>>
Pay(addr, value) == [addr |-> addr, value |-> value]
WireTx(hash, in, out) == [hash |-> hash, in |-> in, out |-> out]
Coinbase(hash, out) == WireTx(hash, <<NullOut>>, out)

\* Output numbers start at 1, as the sequences do.
SmallWireBlock ==
    [b \in SmallBlock |->
        CASE b = "g"  -> << Coinbase("g0", <<Pay("A", 5)>>) >>
          [] b = "a1" -> << Coinbase("c1", <<>>),
                            WireTx("p", << <<"g0", 1>> >>,
                                   <<Pay("B", 3), Pay("A", 2), Pay("", 0)>>) >>
          [] b = "a2" -> << Coinbase("c2", <<>>),
                            WireTx("q", << <<"p", 1>> >>, <<Pay("A", 3)>>),
                            WireTx("r", << <<"q", 1>> >>, <<Pay("B", 3)>>) >>
          [] b = "a3" -> << Coinbase("c3", <<Pay("B", 5)>>),
                            WireTx("s", << <<"r", 1>>, <<"p", 3>> >>, <<Pay("A", 3)>>) >>
          [] b = "a4" -> << Coinbase("c4", <<>>),
                            WireTx("w", << <<"c3", 1>>, <<"s", 1>> >>, <<>>) >>
          [] b = "b2" -> << Coinbase("d2", <<>>),
                            WireTx("q", << <<"p", 1>> >>, <<Pay("A", 3)>>),
                            WireTx("u", << <<"p", 2>> >>, <<Pay("B", 2)>>) >>
          [] b = "b3" -> << Coinbase("d3", <<>>),
                            WireTx("v", << <<"q", 1>>, <<"u", 1>> >>, <<Pay("A", 5)>>) >>
          [] b = "b4" -> << Coinbase("d4", <<>>) >>
          [] b = "a5" -> << Coinbase("c5", <<>>) >>
          [] b = "b5" -> << Coinbase("d5", <<>>) >>
          [] b = "c4" -> << Coinbase("e4", <<>>) >>
          [] b = "c5" -> << Coinbase("e5", <<>>),
                            WireTx("x", << <<"s", 1>>, <<"p", 2>> >>, <<>>) >>]

Txs == UNION {ToSet(SmallWireBlock[b]) : b \in SmallBlock}
SmallTxHash == {tx.hash : tx \in Txs}
TxOuts(tx) == {<<tx.hash, n>> : n \in DOMAIN tx.out}

SmallTxOutId == UNION {TxOuts(tx) : tx \in Txs} \cup {NullOut}
SmallData ==
    [id \in SmallTxOutId |->
        IF id = NullOut THEN Pay("", 0)
        ELSE (CHOOSE tx \in Txs : tx.hash = id[1]).out[id[2]]]
SmallStorable == {id \in SmallTxOutId : SmallData[id].addr # "" /\ SmallData[id].value # 0}

SmallOuts == [b \in SmallBlock |-> UNION {TxOuts(tx) : tx \in ToSet(SmallWireBlock[b])}]
SmallIns == [b \in SmallBlock |-> UNION {ToSet(tx.in) : tx \in ToSet(SmallWireBlock[b])}]

SmallBalanceTable ==
    [S \in SUBSET SmallTxOutId |->
        [a \in SmallAddress |->
            MapThenSumSet(LAMBDA id : SmallData[id].value,
                          {id \in S : SmallData[id].addr = a})]]
SmallBalanceOf(S, a) == SmallBalanceTable[S][a]

\* Chain of blocks from the first one to b, as a sequence.
RECURSIVE SmallChainTo(_)
SmallChainTo(b) == IF b = "zero" THEN <<>> ELSE Append(SmallChainTo(SmallPrev[b]), b)

SmallHeightOf == [b \in SmallPoint |-> Len(SmallChainTo(b)) - 1]
SmallPath == [b \in SmallPoint |-> ToSet(SmallChainTo(b)) \cup {"zero"}]
SmallUtxoAt ==
    [b \in SmallPoint |->
        FoldLeft(LAMBDA S, c : (S \cup (SmallOuts[c] \cap SmallStorable)) \ SmallIns[c],
                 {}, SmallChainTo(b))]
SmallKnownAt ==
    [b \in SmallPoint |->
        FoldLeft(LAMBDA S, c : S \cup SmallOuts[c] \cup SmallIns[c], {}, SmallChainTo(b))]

=============================================================================
