---------------------------- MODULE PositionGate ----------------------------
(***************************************************************************)
(* core/startup/position_gate.py: which broker positions need an owner at  *)
(* start-up, and which allocations of them are accepted.                   *)
(*                                                                         *)
(* Contracts are distinct: an instrument matches another exactly or, with  *)
(* the same underlying, not at all.  A position id names the instrument    *)
(* and the side, not the quantity.  Allocations carry the fields that the  *)
(* adoption by their strategy requires; only multi-position strategies     *)
(* have trade ids.                                                         *)
(***************************************************************************)
EXTENDS Integers, Sequences, FiniteSets, FiniteSetsExt, SequencesExt

CONSTANTS
  Instruments,
  Underlying,      \* the asset class and symbol of an instrument
  Strategies,      \* enabled strategies
  Executes,        \* their execution instruments
  Adopters,        \* those that support adoption and are not dry-run
  MultiLot,        \* those with position_mode "multi_position"
  Trades,          \* trade ids
  NoTrade          \* Python's None in place of a trade id

ASSUME GateConstants ==
  /\ Executes \in [Strategies -> Instruments]
  /\ Instruments \subseteq DOMAIN Underlying
  /\ Adopters \subseteq Strategies /\ MultiLot \subseteq Strategies
  /\ NoTrade \notin Trades
  /\ IsFiniteSet(Strategies) /\ IsFiniteSet(Trades)

Lots == (MultiLot \X Trades) \cup (Strategies \X {NoTrade})
Sources == {"operator", "config", "strategy_state", "ownership_ledger"}
Phases == {"inactive", "clear", "awaiting_mapping", "blocked", "mapped", "released"}

Magnitude(q) == IF q < 0 THEN -q ELSE q
SideOf(q) == IF q > 0 THEN "long" ELSE "short"

(* A broker's positions are signed quantities, 0 for none.                  *)
PositionId(positions, i) == <<i, SideOf(positions[i])>>
Held(positions) == {i \in Instruments : positions[i] # 0}

-----------------------------------------------------------------------------
(* Candidates. *)

Matching(i) == {s \in Strategies : Underlying[Executes[s]] = Underlying[i]}
Exact(i) == {s \in Strategies : Executes[s] = i}

Required(positions) == {i \in Held(positions) : Matching(i) # {}}
Unadoptable(positions) == {i \in Required(positions) : Exact(i) \cap Adopters = {}}
RequiredIds(positions) == {PositionId(positions, i) : i \in Required(positions)}

-----------------------------------------------------------------------------
(* Allocations are sequences of [position, strategy, quantity, trade,      *)
(* source]; acknowledgements are functions from position ids to quantities.*)

Allocation(sources) ==
  {a \in [position : Instruments \X {"long", "short"}, strategy : Strategies,
          quantity : Int, trade : Trades \cup {NoTrade}, source : sources] :
     <<a.strategy, a.trade>> \in Lots}

Allocated(allocs, id) ==
  MapThenSumSet(LAMBDA k : allocs[k].quantity,
                {k \in DOMAIN allocs : allocs[k].position = id})

WithinPositions(positions, allocs) ==
  \A id \in RequiredIds(positions) :
     Allocated(allocs, id) <= Magnitude(positions[id[1]])

Adoptable(positions, a) ==
  /\ a.position \in RequiredIds(positions)
  /\ a.strategy \in Exact(a.position[1]) \cap Adopters
  /\ a.quantity > 0

OneLotPerSingle(allocs) ==
  \A j, k \in DOMAIN allocs :
     /\ j # k
     /\ allocs[j].position = allocs[k].position
     /\ allocs[j].strategy = allocs[k].strategy
     => allocs[j].strategy \in MultiLot

Fits(positions, allocs) ==
  /\ \A k \in DOMAIN allocs : Adoptable(positions, allocs[k])
  /\ WithinPositions(positions, allocs)
  /\ OneLotPerSingle(allocs)

Remainders(positions, allocs) ==
  LET left(id) == Magnitude(positions[id[1]]) - Allocated(allocs, id)
  IN [id \in {r \in RequiredIds(positions) : left(r) > 0} |-> left(id)]

(* validate_startup_mapping_submission of an operator's submission.         *)
Accepts(positions, allocs, acks) ==
  /\ Required(positions) # {}
  /\ allocs # <<>> \/ DOMAIN acks # {}
  /\ Fits(positions, allocs)
  /\ acks = Remainders(positions, allocs)

-----------------------------------------------------------------------------
(* build_startup_gate_status: the phase and the allocations it shows, from *)
(* the relevant stored allocations and those of the configuration.         *)

(* Stored allocations count while their position, by its side, is there.    *)
Relevant(positions, a) == a.position \in RequiredIds(positions)

FromState(allocs) == \A k \in DOMAIN allocs : allocs[k].source = "strategy_state"

Covers(positions, allocs) == Remainders(positions, allocs) = <<>>

Shown(phase, positions, allocs) ==
  [phase |-> phase, positions |-> positions, allocs |-> allocs, acks |-> <<>>]

GateStatus(positions, stored, configured) ==
  LET auto == stored \o configured IN
  CASE Unadoptable(positions) # {} -> Shown("blocked", positions, <<>>)
    [] Required(positions) = {} -> Shown("clear", positions, <<>>)
    [] OTHER ->
         IF auto = <<>> THEN Shown("awaiting_mapping", positions, <<>>)
         ELSE IF Fits(positions, auto)
         THEN Shown(IF Covers(positions, auto) THEN "clear" ELSE "awaiting_mapping",
                    positions, auto)
         ELSE Shown(IF FromState(auto) THEN "awaiting_mapping" ELSE "blocked",
                    positions, <<>>)
=============================================================================
