----------------------------- MODULE MC_Protocol -----------------------------
(* Three accounts: a1 and a2 in the miner ring with "mine", a3 only with    *)
(* "transact".  Transactions from a1 and a3: calls above and within         *)
(* "maxgastx", granting a3 "mine" or not, and contract creations.         *)
EXTENDS Protocol

CONSTANTS a1, a2, a3

MCAddrs == {a1, a2, a3}
MCRing == <<a1, a2, a3>>
MCPermNames == <<"mine", "transact", "create">>
MCGenesisPerms == [a \in MCAddrs |->
                     IF a = a3 THEN {"transact"}
                     ELSE IF a = a1 THEN {"mine", "transact"}
                     ELSE {"mine", "transact", "create"}]
MCTxSpace ==
    [sender : {a1, a3}, contract : {FALSE}, gas : {1, 2}, nonce : {0}, grant : {a3, NoAddr}]
    \cup [sender : {a1, a3}, contract : {TRUE}, gas : {1}, nonce : {0}, grant : {NoAddr}]
=============================================================================
