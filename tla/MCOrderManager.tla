--------------------------- MODULE MCOrderManager ---------------------------
(* Instances of OrderManager for TLC. *)
EXTENDS OrderManager

CONSTANTS s1, t1, t2

OneTrade == {<<s1, t1>>}
TwoTrades == {<<s1, t1>>, <<s1, t2>>}
NoTradeLot == {<<s1, NoTrade>>}
TradeLot == <<s1, t1>>
=============================================================================
