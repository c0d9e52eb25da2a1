------------------------------ MODULE MCReplay ------------------------------
EXTENDS Replay

(* One instrument lacks a minute, its history or its last day.              *)
AllMinutes == 1..11
MCCorpora ==
  {[i \in Instruments |-> AllMinutes \ (IF i = j THEN gap ELSE {})] :
     j \in Instruments, gap \in {{}, 1..3, {3}, {5}, {6}, 8..11}}
=============================================================================
