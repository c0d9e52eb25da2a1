---------------------------- MODULE UpdateStream ----------------------------
(***************************************************************************)
(* What a drain of order updates is promised while other tasks read the    *)
(* same queue: an update is taken at most once, in no promised order, and  *)
(* is lost only beside an order's rejection, at most one each time.        *)
(***************************************************************************)
EXTENDS Naturals

VARIABLES
  sent,         \* the number of updates reported
  taken,        \* the updates drained, by number
  lost,         \* the updates that will never be
  rejected      \* the number of calls answered by an error

vars == <<sent, taken, lost, rejected>>

Pending == (1..sent) \ (taken \cup lost)

Report ==
  /\ sent' = sent + 1
  /\ UNCHANGED <<taken, lost, rejected>>

Take ==
  /\ \E n \in Pending : taken' = taken \cup {n}
  /\ UNCHANGED <<sent, lost, rejected>>

Rejection ==
  /\ rejected' = rejected + 1
  /\ \E N \in SUBSET Pending : (\A m, n \in N : m = n) /\ lost' = lost \cup N
  /\ UNCHANGED <<sent, taken>>

Init == sent = 0 /\ taken = {} /\ lost = {} /\ rejected = 0

Next == Report \/ Take \/ Rejection

Spec == Init /\ [][Next]_vars
=============================================================================
