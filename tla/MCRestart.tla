------------------------------ MODULE MCRestart ------------------------------
(* Instances of Restart for TLC: one future traded by two strategies, and   *)
(* another contract month of it.                                            *)
EXTENDS Restart

CONSTANTS es, esNext, sm, ss, t1, t2

MCUnderlying == [i \in {es, esNext} |-> "ES"]
MCExecutes == [s \in {sm, ss} |-> es]

Of(s, side, q, t) ==
  [position |-> <<es, side>>, strategy |-> s, quantity |-> q, trade |-> t,
   source |-> "operator"]

(* One or two long lots, or one short one.                                  *)
MCAllocations ==
  {<<>>, <<Of(ss, "short", 1, NoTrade)>>, <<Of(sm, "long", 2, t1)>>}
  \cup {<<Of(s, "long", 1, IF s = sm THEN t1 ELSE NoTrade)>> : s \in {sm, ss}}
  \cup {<<Of(sm, "long", 1, t), Of(sm, "long", 1, t1)>> : t \in {t1, t2}}

MCAcks == {<<>>, [id \in {<<es, "long">>} |-> 1]}

MCSubmissions == [allocs : MCAllocations, acks : MCAcks]

Unconfigured == {<<>>}

MCForeign == {<<es, -1>>}
=============================================================================
