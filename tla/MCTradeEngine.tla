--------------------------- MODULE MCTradeEngine ---------------------------
(***************************************************************************)
(* Instances of TradeEngine for TLC.                                       *)
(***************************************************************************)
EXTENDS TradeEngine, TLC

CONSTANTS s1, s2, btc, eth, cdc

OneCoin == [s \in Strategies |-> btc]
NoFamilies == [s \in Strategies |-> NoFamily]

(* s1 trades one coin and s2 another; they may be near-identical. *)
OwnCoins == [s \in Strategies |-> IF s = s2 THEN eth ELSE btc]
OneFamily == [s \in Strategies |-> cdc]

(* Each strategy with its coin may be taken for the other with its own. *)
Mirrored == {p \in Permutations({s1, s2, btc, eth}) :
                /\ p[s1] \in {s1, s2} /\ p[btc] \in {btc, eth}
                /\ p[s1] = s1 <=> p[btc] = btc}
=============================================================================
