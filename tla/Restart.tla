------------------------------- MODULE Restart -------------------------------
(***************************************************************************)
(* What a restart finds: core/startup/strategy_state.py, ownership.py and  *)
(* the start-up of core/engine/runner.py around the position gate.         *)
(*                                                                         *)
(* The broker keeps positions and stop orders while the process is down.   *)
(* The process keeps ownership in memory and, after each fill, in a file:  *)
(* the strategy state, rewritten as a whole, or, when that is disabled, the*)
(* ownership ledger, updated record by record.  A fill reported while the  *)
(* process is down is not reported again.                                  *)
(*                                                                         *)
(* `truth` is who owns what, by the fills of the engine's own orders and   *)
(* the operator's word; `memoryGap` and `fileGap` count the trades that    *)
(* memory and file do not reflect.                                         *)
(***************************************************************************)
EXTENDS StartupGate

CONSTANTS
  Protected,       \* strategies that declare a protective stop
  Watched,         \* the primary and reference instruments
  Foreign,         \* bound: trades beside the engine, as <<instrument, quantity>>
  MaxStarts,       \* bound: processes
  MaxTrades,       \* bound: trades
  MaxFailures      \* bound: failed writes of the file

ASSUME RestartConstants ==
  /\ Protected \subseteq Strategies /\ Watched \subseteq Instruments
  /\ Foreign \subseteq Instruments \X Int
  /\ MaxStarts \in Nat /\ MaxTrades \in Nat /\ MaxFailures \in Nat

VARIABLES
  engine,          \* where _run is
  store,           \* the file in use: "state" or "ledger"
  file,            \* the signed quantity of each lot in it
  wide,            \* PortfolioState._positions
  owned,           \* PortfolioState._strategy_positions
  lots,            \* PortfolioState._strategy_position_lots, by trade id
  unbooked,        \* fills reported and not yet applied
  tracked,         \* lots whose stop the order manager knows
  broker,          \* the broker's positions
  stops,           \* the quantity of a lot's working stop at the broker, or 0
  stopTwice,       \* history: a second stop beside one the check should have seen
  complete,        \* history: this start's requests were answered in full
  truth, memoryGap, fileGap,
  seen,            \* history: truth and fileGap when positions were read
  starts, trades, failures

memory == <<wide, owned, lots, unbooked, tracked>>
market == <<broker, stops>>
history == <<stopTwice, complete, truth, memoryGap, fileGap, seen>>
bounds == <<starts, trades, failures>>
vars == <<gateVars, engine, store, file, memory, market, history, bounds>>

Nobody == [l \in Lots |-> 0]
Unknown == MaxTrades + 2
NoLot == <<>>
NothingSeen == [truth |-> Nobody, gap |-> 0]

OwnerSum(f, s) == MapThenSumSet(LAMBDA l : f[l], {l \in Lots : l[1] = s})
InstrumentSum(f, i) == MapThenSumSet(LAMBDA l : f[l], {l \in Lots : Executes[l[1]] = i})

-----------------------------------------------------------------------------
(* The file. *)

(* get_all_strategy_positions: the lots, or the aggregate if there is none. *)
(* Faulty variant: the aggregate only.                                      *)
SavedAggregates(ownedNow, lotsNow) ==
  [l \in Lots |-> IF l[2] = NoTrade THEN ownedNow[l[1]] ELSE 0]
Saved(ownedNow, lotsNow) ==
  [l \in Lots |-> IF l[2] # NoTrade THEN lotsNow[l]
                  ELSE IF \E m \in Lots : m[1] = l[1] /\ lotsNow[m] # 0 THEN 0
                  ELSE ownedNow[l[1]]]

StoredAllocation(l) ==
  [position |-> <<Executes[l[1]], SideOf(file[l])>>, strategy |-> l[1],
   quantity |-> Magnitude(file[l]), trade |-> l[2],
   source |-> IF store = "state" THEN "strategy_state" ELSE "ownership_ledger"]

(* open_allocations, those relevant to the positions of the gate.           *)
Stored ==
  LET open == {StoredAllocation(l) : l \in {m \in Lots : file[m] # 0}}
  IN SetToSeq({a \in open : Relevant(gate.positions, a)})

(* What memory says of each lot: what an aggregate has beside the lots with *)
(* a trade id is the strategy's own.  A file does not say it beside them.   *)
Books(ownedNow, lotsNow) ==
  [l \in Lots |-> IF l[2] # NoTrade THEN lotsNow[l]
                  ELSE ownedNow[l[1]]
                         - MapThenSumSet(LAMBDA m : lotsNow[m],
                                         {m \in Lots : m[1] = l[1] /\ m[2] # NoTrade})]
Unsaved(ownedNow, lotsNow) ==
  LET books == Books(ownedNow, lotsNow)
  IN {s \in Strategies : /\ \E l \in Lots : l[1] = s /\ l[2] # NoTrade /\ lotsNow[l] # 0
                         /\ books[<<s, NoTrade>>] # 0}

(* _persist_strategy_states: a failed write is logged.                      *)
Persist(ownedNow, lotsNow, gapNow) ==
  LET gap == gapNow + Cardinality(Unsaved(ownedNow, lotsNow)) IN
  \/ /\ store = "state"
     /\ file' = Saved(ownedNow, lotsNow) /\ fileGap' = gap
     /\ UNCHANGED failures
  \/ /\ store = "state" /\ failures < MaxFailures
     /\ failures' = failures + 1 /\ UNCHANGED file
     /\ fileGap' = IF file = Saved(ownedNow, lotsNow) THEN gap ELSE Unknown
  \/ /\ store = "ledger"
     /\ UNCHANGED <<file, fileGap, failures>>

-----------------------------------------------------------------------------
(* Start-up.  An exception ends the process. *)

Exit ==
  /\ engine' = "down"
  /\ wide' = Flat /\ owned' = [s \in Strategies |-> 0] /\ lots' = Nobody
  /\ unbooked' = <<>> /\ tracked' = {}
  /\ complete' = TRUE /\ seen' = NothingSeen /\ memoryGap' = 0
  /\ NewController

(* connect to get_positions; a request that times out returns what came.    *)
ReadPositions(all) ==
  LET positions == IF all THEN broker ELSE Flat IN
  /\ engine = "connected"
  /\ wide' = positions
  /\ complete' = all
  /\ seen' = [truth |-> truth, gap |-> fileGap]
  /\ IF Held(positions) = {}
     THEN engine' = "cleared" /\ UNCHANGED gateVars
     ELSE engine' = "gate" /\ BeginRun(positions)
  /\ UNCHANGED <<store, file, owned, lots, unbooked, tracked, market, stopTwice,
                 truth, memoryGap, fileGap, bounds>>

StartProcess ==
  /\ engine = "down" /\ starts < MaxStarts
  /\ engine' = "connected" /\ starts' = starts + 1
  /\ UNCHANGED <<gateVars, store, file, memory, market, history, trades, failures>>

(* A refresh reads the positions again; the portfolio keeps the first ones. *)
Refresh(all) ==
  /\ engine = "gate"
  /\ RefreshReturns(IF all THEN broker ELSE Flat)
  /\ complete' = all
  /\ seen' = [truth |-> truth, gap |-> fileGap]
  /\ UNCHANGED <<engine, store, file, memory, market, stopTwice, truth, memoryGap,
                 fileGap, bounds>>

GateStep ==
  /\ engine = "gate"
  /\ BuildStatus(Stored) \/ TakeAction \/ Release \/ RefreshRaises
  /\ UNCHANGED <<engine, store, file, memory, market, history, bounds>>

(* Later requests change fields that nothing reads again.                   *)
OperatorStep ==
  /\ engine \in {"connected", "gate"}
  /\ Operator \/ EventSet
  /\ UNCHANGED <<engine, store, file, memory, market, history, bounds>>

Present == {PositionId(gate.positions, i) : i \in Held(gate.positions)}
Allocations == IF gate.pc = "released" THEN gate.taken.allocs ELSE status.allocs
FromFile == gate.pc = "clear" /\ \A k \in DOMAIN Allocations : Allocations[k].source # "config"
Signed(a) == IF gate.positions[a.position[1]] > 0 THEN a.quantity ELSE -a.quantity

(* adopt_strategy_position adds to the aggregate and replaces the lot.      *)
OwnedBy(allocs) ==
  [s \in Strategies |-> MapThenSumSet(LAMBDA k : Signed(allocs[k]),
                          {k \in DOMAIN allocs : allocs[k].strategy = s})]

LastFor(allocs, l) ==
  LET of == {k \in DOMAIN allocs : <<allocs[k].strategy, allocs[k].trade>> = l}
  IN IF of = {} THEN 0 ELSE Max(of)

(* What the allocations say of each lot.                                    *)
Said(allocs) ==
  [l \in Lots |-> LET k == LastFor(allocs, l) IN IF k = 0 THEN 0 ELSE Signed(allocs[k])]
NamedTwice(allocs) ==
  \E j, k \in DOMAIN allocs : /\ j # k /\ allocs[j].strategy = allocs[k].strategy
                              /\ allocs[j].trade = allocs[k].trade

(* record_adoption writes the records of the allocations, one by one; a     *)
(* failed write is logged.                                                  *)
Recorded(allocs, failed) ==
  [l \in Lots |-> IF store = "ledger" /\ LastFor(allocs, l) \notin failed \cup {0}
                  THEN Signed(allocs[LastFor(allocs, l)]) ELSE file[l]]

AdoptedLots(allocs) ==
  LET said == Said(allocs) IN [l \in Lots |-> IF l[2] = NoTrade THEN 0 ELSE said[l]]

(* The lots explain what the broker holds of the strategies' instruments.   *)
Explains(f, positions) ==
  \A i \in Instruments : Exact(i) # {} => InstrumentSum(f, i) = positions[i]

(* The operator's word is the truth from here on, the file's is not; of a   *)
(* lot named twice memory keeps less than was said.                         *)
GapFromFile(f) ==
  IF f = truth /\ Explains(f, broker) THEN 0 ELSE IF f = file THEN fileGap ELSE Unknown
GapFromOperator(allocs) ==
  IF NamedTwice(allocs) THEN Unknown ELSE IF Explains(Said(allocs), broker) THEN 0 ELSE 1

AdoptAllocations(failed) ==
  LET allocs == Allocations
      said == Said(allocs)
      written == Recorded(allocs, failed)
  IN /\ engine = "gate" /\ gate.pc \in {"clear", "released"}
     /\ \A k \in DOMAIN allocs : allocs[k].position \in Present
     /\ failed \subseteq DOMAIN allocs /\ (failed # {} => store = "ledger")
     /\ failures' = failures + Cardinality(failed) /\ failures' <= MaxFailures
     /\ owned' = OwnedBy(allocs) /\ lots' = AdoptedLots(allocs)
     /\ truth' = IF FromFile THEN truth ELSE said
     /\ memoryGap' = IF FromFile THEN GapFromFile(said) ELSE GapFromOperator(allocs)
     /\ engine' = "adopted"
     /\ file' = written
     /\ fileGap' = IF FromFile THEN fileGap
                   ELSE IF written = said THEN GapFromOperator(allocs) ELSE Unknown
     /\ UNCHANGED <<gateVars, store, wide, unbooked, tracked, market, stopTwice,
                    complete, seen, starts, trades>>

(* on_adopt_position refuses, or the position of an id is gone: the records *)
(* of the allocations before it are written.                                *)
AdoptRaises(n) ==
  LET allocs == Allocations  written == Recorded(SubSeq(allocs, 1, n - 1), {}) IN
  /\ engine = "gate" /\ gate.pc \in {"clear", "released"} /\ n \in DOMAIN allocs
  /\ \/ allocs[n].source # "strategy_state"
     \/ allocs[n].position \notin Present
  /\ Exit
  /\ file' = written
  /\ fileGap' = IF written = file THEN fileGap ELSE Unknown
  /\ UNCHANGED <<store, market, stopTwice, truth, bounds>>

GateFails ==
  /\ engine = "gate" /\ gate.pc = "failed"
  /\ Exit
  /\ UNCHANGED <<store, file, market, stopTwice, truth, fileGap, bounds>>

(* No positions: mark_clear.                                                *)
MarkClear ==
  /\ engine = "cleared"
  /\ engine' = "adopted"
  /\ status' = Shown("clear", Flat, <<>>)
  /\ memoryGap' = GapFromFile(Nobody)
  /\ UNCHANGED <<configured, mappingEnabled, action, submitted, early, event, posted,
                 gate, store, file, memory, market, stopTwice, complete, truth,
                 fileGap, seen, bounds>>

PersistStart ==
  /\ engine = "adopted"
  /\ engine' = "persisted"
  /\ Persist(owned, lots, memoryGap)
  /\ UNCHANGED <<gateVars, store, memory, market, stopTwice, complete, truth,
                 memoryGap, seen, starts, trades>>

WorkingStops == {l \in Lots : stops[l] # 0}

(* Faulty variant: open orders are only reported.                           *)
CheckOpenOrdersReport(all) ==
  /\ engine = "persisted"
  /\ complete' = (complete /\ all)
  /\ engine' = "seeding"
  /\ UNCHANGED <<gateVars, store, file, memory, market, stopTwice, truth, memoryGap,
                 fileGap, seen, bounds>>

(* _startup_open_order_gate, for the instruments with data.                 *)
CheckOpenOrders(all) ==
  /\ engine = "persisted"
  /\ IF all /\ \E l \in WorkingStops : Executes[l[1]] \in Watched
     THEN Exit
     ELSE /\ engine' = "seeding" /\ complete' = (complete /\ all)
          /\ UNCHANGED <<gateVars, memory, memoryGap, seen>>
  /\ UNCHANGED <<store, file, market, stopTwice, truth, fileGap, bounds>>

(* The positions that get a stop: the lots, or a strategy's aggregate.      *)
SeedPositions == {l \in Lots : Saved(owned, lots)[l] # 0 /\ l[1] \in Protected}

PlaceStop(l, quantity) ==
  /\ stops' = [stops EXCEPT ![l] = quantity]
  /\ tracked' = tracked \cup {l}
  /\ stopTwice' = (stopTwice \/ (complete /\ l \notin tracked /\ stops[l] # 0))

(* ensure_protective_stop of one position; the write of the state after it  *)
(* changes no position.                                                     *)
SeedStop(l) ==
  /\ engine = "seeding" /\ l \in SeedPositions \ tracked
  /\ PlaceStop(l, Saved(owned, lots)[l])
  /\ UNCHANGED <<gateVars, engine, store, file, wide, owned, lots, unbooked, broker,
                 complete, truth, memoryGap, fileGap, seen, bounds>>

(* No stop price, or the stop is refused.                                   *)
SeedRaises ==
  /\ engine = "seeding" /\ SeedPositions \ tracked # {}
  /\ Exit
  /\ UNCHANGED <<store, file, market, stopTwice, truth, fileGap, bounds>>

StartRunning ==
  /\ engine = "seeding" /\ SeedPositions \subseteq tracked
  /\ engine' = "running"
  /\ UNCHANGED <<gateVars, store, file, memory, market, history, bounds>>

-----------------------------------------------------------------------------
(* The run: fills at the broker, then in the books. *)

InFlight(s) == \E k \in DOMAIN unbooked : unbooked[k].lot # NoLot /\ unbooked[k].lot[1] = s

Report(l, i, quantity) ==
  unbooked' = Append(unbooked, [lot |-> l, instrument |-> i, quantity |-> quantity])

Trade(i, quantity) ==
  /\ trades < MaxTrades
  /\ trades' = trades + 1
  /\ broker' = [broker EXCEPT ![i] = @ + quantity]
  /\ memoryGap' = IF engine = "down" THEN 0 ELSE memoryGap + 1
  /\ fileGap' = fileGap + 1

(* An entry of one unit: a multi-position strategy names its lot itself.    *)
EntryFills(l) ==
  /\ engine = "running" /\ ~InFlight(l[1])
  /\ IF l[1] \in MultiLot THEN l[2] # NoTrade ELSE owned[l[1]] = 0
  /\ Trade(Executes[l[1]], 1)
  /\ truth' = [truth EXCEPT ![l] = @ + 1]
  /\ Report(l, Executes[l[1]], 1)
  /\ UNCHANGED <<gateVars, engine, store, file, wide, owned, lots, tracked, stops,
                 stopTwice, complete, seen, starts, failures>>

(* A close of the whole lot as the portfolio has it.                        *)
CloseFills(l) ==
  LET quantity == Saved(owned, lots)[l] IN
  /\ engine = "running" /\ ~InFlight(l[1]) /\ quantity # 0
  /\ Trade(Executes[l[1]], -quantity)
  /\ truth' = [truth EXCEPT ![l] = @ - quantity]
  /\ Report(l, Executes[l[1]], -quantity)
  /\ UNCHANGED <<gateVars, engine, store, file, wide, owned, lots, tracked, stops,
                 stopTwice, complete, seen, starts, failures>>

(* A stop fills.  Down, nobody hears of it; at start-up its order is        *)
(* unknown to the order manager.                                            *)
StopFills(l) ==
  /\ stops[l] # 0
  /\ Trade(Executes[l[1]], -stops[l])
  /\ stops' = [stops EXCEPT ![l] = 0]
  /\ truth' = [truth EXCEPT ![l] = @ - stops[l]]
  /\ IF engine = "down" THEN UNCHANGED unbooked
     ELSE Report(IF l \in tracked THEN l ELSE NoLot, Executes[l[1]], -stops[l])
  /\ UNCHANGED <<gateVars, engine, store, file, wide, owned, lots, tracked, stopTwice,
                 complete, seen, starts, failures>>

(* apply_fill of the portfolio, of the ledger, and the fill listener; the   *)
(* stop of an entry, the cancellation of a closed lot's stop.               *)
Book ==
  LET fill == Head(unbooked)
      l == fill.lot
      i == Executes[l[1]]
      ownedNow == [owned EXCEPT ![l[1]] = @ + fill.quantity]
      lotsNow == IF l[2] = NoTrade THEN lots
                 ELSE [lots EXCEPT ![l] = @ + fill.quantity]
      left == Saved(ownedNow, lotsNow)[l]
  IN /\ engine = "running" /\ unbooked # <<>> /\ l # NoLot
     /\ unbooked' = Tail(unbooked)
     /\ wide' = [wide EXCEPT ![i] = @ + fill.quantity]
     /\ owned' = ownedNow /\ lots' = lotsNow
     /\ memoryGap' = memoryGap - 1
     /\ \/ store = "state" /\ Persist(ownedNow, lotsNow, memoryGap - 1)
        \/ /\ store = "ledger"
           /\ file' = [file EXCEPT ![l] = @ + fill.quantity]
           /\ fileGap' = fileGap - 1 /\ UNCHANGED failures
        \/ /\ store = "ledger" /\ failures < MaxFailures
           /\ failures' = failures + 1 /\ UNCHANGED <<file, fileGap>>
     /\ IF l[1] \notin Protected THEN UNCHANGED <<stops, tracked, stopTwice>>
        ELSE IF left # 0 THEN PlaceStop(l, left)
        ELSE /\ stops' = IF l \in tracked THEN [stops EXCEPT ![l] = 0] ELSE stops
             /\ tracked' = tracked \ {l} /\ UNCHANGED stopTwice
     /\ UNCHANGED <<gateVars, engine, store, broker, complete, truth, seen, starts,
                    trades>>

(* A fill of an order the manager does not know changes no strategy.        *)
BookUnknown ==
  /\ engine = "running" /\ unbooked # <<>> /\ Head(unbooked).lot = NoLot
  /\ unbooked' = Tail(unbooked)
  /\ wide' = [wide EXCEPT ![Head(unbooked).instrument] = @ + Head(unbooked).quantity]
  /\ Persist(owned, lots, memoryGap)
  /\ UNCHANGED <<gateVars, engine, store, owned, lots, tracked, market, stopTwice,
                 complete, truth, memoryGap, seen, starts, trades>>

Crash ==
  /\ engine # "down"
  /\ Exit
  /\ UNCHANGED <<store, file, market, stopTwice, truth, fileGap, bounds>>

(* Outside the engine: a trade of the account's owner, and the review of    *)
(* open orders in TWS that the engine asks for.                             *)
ForeignTrade(i, quantity) ==
  /\ Trade(i, quantity)
  /\ UNCHANGED <<gateVars, engine, store, file, memory, stops, stopTwice, complete,
                 truth, seen, starts, failures>>

ReviewOrders ==
  /\ engine = "down" /\ WorkingStops # {}
  /\ stops' = Nobody
  /\ UNCHANGED <<gateVars, engine, store, file, memory, broker, history, bounds>>

-----------------------------------------------------------------------------

Init ==
  /\ GateInit
  /\ engine = "down" /\ store \in {"state", "ledger"} /\ file = Nobody
  /\ wide = Flat /\ owned = [s \in Strategies |-> 0] /\ lots = Nobody
  /\ unbooked = <<>> /\ tracked = {} /\ broker = Flat /\ stops = Nobody
  /\ stopTwice = FALSE /\ complete = TRUE
  /\ truth = Nobody /\ memoryGap = 0 /\ fileGap = 0
  /\ seen = NothingSeen
  /\ starts = 0 /\ trades = 0 /\ failures = 0

Startup ==
  \/ GateStep \/ GateFails \/ MarkClear \/ PersistStart
  \/ \E all \in BOOLEAN : ReadPositions(all) \/ Refresh(all) \/ CheckOpenOrders(all)
  \/ SeedRaises \/ StartRunning
  \/ \E failed \in SUBSET (1..Cardinality(Lots)) : AdoptAllocations(failed)
  \/ \E n \in 1..Cardinality(Lots) : AdoptRaises(n)
  \/ \E l \in Lots : SeedStop(l)

Run ==
  \/ Book \/ BookUnknown
  \/ \E l \in Lots : EntryFills(l) \/ CloseFills(l) \/ StopFills(l)

World ==
  \/ StartProcess \/ Crash \/ ReviewOrders
  \/ \E f \in Foreign : ForeignTrade(f[1], f[2])

Next == Startup \/ OperatorStep \/ Run \/ World

Spec == Init /\ [][Next]_vars

(* The loop runs what is on it, and requests are answered or time out.      *)
FairSpec ==
  Spec /\ WF_vars(EventSet /\ UNCHANGED <<engine, store, file, memory, market, history, bounds>>)
       /\ WF_vars(GateStep \/ \E all \in BOOLEAN : Refresh(all))

-----------------------------------------------------------------------------
(* Properties. *)

TypeOK ==
  /\ GateType
  /\ engine \in {"down", "connected", "cleared", "gate", "adopted", "persisted",
                 "seeding", "running"}
  /\ store \in {"state", "ledger"} /\ file \in [Lots -> Int]
  /\ wide \in [Instruments -> Int] /\ broker \in [Instruments -> Int]
  /\ owned \in [Strategies -> Int] /\ lots \in [Lots -> Int]
  /\ tracked \subseteq Lots /\ stops \in [Lots -> Int]
  /\ truth \in [Lots -> Int] /\ memoryGap \in Int /\ fileGap \in Int
  /\ stopTwice \in BOOLEAN /\ complete \in BOOLEAN

(* The gate's own invariant, and the gate at rest before it is run.         *)
StartInv ==
  /\ GateInv
  /\ engine \in {"down", "connected", "cleared"} => gate.pc = "before"

IInv == TypeOK /\ StartInv

(* A start that needed no operator restores the lots of an instrument that  *)
(* is held as they were, also if the file has missed one trade: the         *)
(* quantities then differ, and the gate waits or refuses.  (Two missed      *)
(* trades can make up for each other, and of lots on both sides of one      *)
(* instrument the gate sees those on the side of their sum.)                *)
OneSided(f, i) ==
  ~ \E l, m \in Lots : Executes[l[1]] = i /\ Executes[m[1]] = i /\ f[l] > 0 /\ f[m] < 0
RestartTrue ==
  engine = "adopted" /\ Required(gate.positions) # {} /\ FromFile
     /\ seen.gap <= 1 /\ complete
    => LET restored == Books(owned, lots) IN
       \A l \in Lots : /\ Executes[l[1]] \in Held(gate.positions)
                       /\ OneSided(seen.truth, Executes[l[1]])
                       => restored[l] = seen.truth[l]

(* A stop left working by an earlier process is not doubled, as long as the *)
(* answers were complete: the start is refused until it is reviewed.        *)
OneStopPerLot == ~stopTwice

(* The engine does not start trading while an order for the instrument of   *)
(* an enabled strategy is open at the broker, but its own new stops.        *)
NoStartWithOpenOrders ==
  [][engine = "persisted" /\ engine' = "seeding" /\ complete' => WorkingStops = {}]_vars

(* The allocations name each lot once, or a strategy's whole position.      *)
DistinctLots(allocs) ==
  \A j, k \in DOMAIN allocs :
     j # k /\ allocs[j].strategy = allocs[k].strategy
       => NoTrade \notin {allocs[j].trade, allocs[k].trade} /\ allocs[j].trade # allocs[k].trade

(* When trading starts every adopted unit has a stop at the broker, unless  *)
(* one has filled meanwhile or the operator gave two lots one name.         *)
SeededStopsCover ==
  [][engine = "seeding" /\ engine' = "running" /\ unbooked = <<>> /\ complete
       => \/ \A s \in Protected : OwnerSum(stops, s) = owned[s]
          \/ ~DistinctLots(Allocations)]_vars
=============================================================================
