----------------------------- MODULE MCServices -----------------------------
(***************************************************************************)
(* Services on a part of the small tree of blocks.                         *)
(***************************************************************************)
EXTENDS Services, SmallChain

MCBlock == {"g", "a1", "a2", "b2"}
MCPoint == MCBlock \cup {"zero"}
MCPrev == [b \in MCBlock |-> SmallPrev[b]]
MCHeightOf == [p \in MCPoint |-> SmallHeightOf[p]]
MCPath == [p \in MCPoint |-> SmallPath[p]]
MCOuts == [b \in MCBlock |-> SmallOuts[b]]
MCIns == [b \in MCBlock |-> SmallIns[b]]
MCUtxoAt == [p \in MCPoint |-> SmallUtxoAt[p]]
MCKnownAt == [p \in MCPoint |-> SmallKnownAt[p]]

MCTxsOf == [b \in MCBlock |-> [n \in DOMAIN SmallWireBlock[b] |-> SmallWireBlock[b][n].hash]]
MCTxHash == UNION {ToSet(MCTxsOf[b]) : b \in MCBlock}
TxOfHash(hash) == CHOOSE tx \in Txs : tx.hash = hash
MCDelta ==
    [hash \in MCTxHash |->
        LET tx == TxOfHash(hash)
            out == TxOuts(tx)
            in == ToSet(tx.in)
            touched == {SmallData[id].addr : id \in (out \cup in) \cap SmallStorable}
        IN  [a \in touched |-> SmallBalanceOf(out, a) - SmallBalanceOf(in, a)]]

=============================================================================
