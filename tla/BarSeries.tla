------------------------------ MODULE BarSeries ------------------------------
(***************************************************************************)
(* What the bar store of an instrument promises its readers: a series with *)
(* one row per minute, in which the last writer of a minute wins and from  *)
(* which only rows older than the lookback are dropped.                    *)
(***************************************************************************)
EXTENDS Integers, FiniteSetsExt, Functions

CONSTANTS Minutes, Rows, Keep
VARIABLE series

Old(s) == {m \in DOMAIN s : \E k \in DOMAIN s : k - m > Keep}

(* All rows that are not old stay; old ones may stay.                       *)
Kept(s, t) == DOMAIN t \subseteq DOMAIN s /\ DOMAIN s \ Old(s) \subseteq DOMAIN t
              /\ \A m \in DOMAIN t : t[m] = s[m]

Load == series = <<>> /\ \E M \in SUBSET Minutes : series' \in [M -> Rows]

Put ==
  \E m \in Minutes, row \in Rows :
    LET s == [k \in DOMAIN series \cup {m} |-> IF k = m THEN row ELSE series[k]]
    IN Kept(s, series')

Forget == Kept(series, series')

Init == series = <<>>
Next == Load \/ Put \/ Forget
Spec == Init /\ [][Next]_series
=============================================================================
