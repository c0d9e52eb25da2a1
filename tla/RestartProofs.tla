---------------------------- MODULE RestartProofs ----------------------------
(***************************************************************************)
(* Proofs about Restart, whatever the operator's threads and the engine do,*)
(* however often the process restarts, with failed writes of the file and  *)
(* trades beside the engine.                                               *)
(*                                                                         *)
(* First the gate: the engine is released only with allocations that fit   *)
(* the positions it goes on with.  What Accepts demands plays no part.     *)
(* Then the stops an earlier process left working.  Then the books: how far*)
(* memory and the file can be from the truth after so many trades missed,  *)
(* and that what the gate lets pass from a file one trade behind is true.  *)
(* Last, that the stops of a start cover what it adopted.                  *)
(***************************************************************************)
EXTENDS Restart, Sums, TLAPS

USE DEF gateVars

-----------------------------------------------------------------------------
(* The steps of the gate. *)

(* The status of a build has its four fields and a known phase.             *)
LEMMA StatusShown ==
  ASSUME NEW positions, NEW stored, NEW conf
  PROVE  LET shown == GateStatus(positions, stored, conf) IN
         /\ DOMAIN shown = {"phase", "positions", "allocs", "acks"}
         /\ shown.phase \in {"blocked", "clear", "awaiting_mapping"}
         /\ shown.positions = positions
<1> DEFINE auto == stored \o conf
<1>1. CASE Unadoptable(positions) # {}
  <2>1. Required(positions) # {}
    BY <1>1 DEF Unadoptable
  <2>2. GateStatus(positions, stored, conf) = Shown("blocked", positions, <<>>)
    BY <1>1, <2>1, Zenon DEF GateStatus
  <2> QED BY <2>2 DEF Shown
<1>2. CASE Unadoptable(positions) = {} /\ Required(positions) = {}
  <2>1. GateStatus(positions, stored, conf) = Shown("clear", positions, <<>>)
    BY <1>2, Zenon DEF GateStatus
  <2> QED BY <2>1 DEF Shown
<1>3. CASE Unadoptable(positions) = {} /\ Required(positions) # {}
  <2>1. \E phase \in {"blocked", "clear", "awaiting_mapping"}, allocs \in {<<>>, auto} :
           GateStatus(positions, stored, conf) = Shown(phase, positions, allocs)
    BY <1>3, Zenon DEF GateStatus
  <2> QED BY <2>1 DEF Shown
<1> QED BY <1>1, <1>2, <1>3

LEMMA AtRest ==
  /\ DOMAIN Inactive = {"phase", "positions", "allocs", "acks"}
  /\ Inactive.phase = "inactive"
  /\ DOMAIN NotRun = {"pc", "positions", "taken", "early"}
  /\ NotRun.pc = "before" /\ NotRun.taken = NoSubmission /\ NotRun.early = FALSE
BY DEF Inactive, Shown, NotRun

LEMMA GateStarts == GateInit => GateInv
BY AtRest DEF GateInit, GateInv, GateType, Phases

LEMMA GateAnew == GateInv /\ NewController => GateInv'
BY AtRest DEF NewController, GateInv, GateType, Phases

LEMMA GateRests == GateInv /\ UNCHANGED gateVars => GateInv'
BY DEF GateInv, GateType

LEMMA GateSubmits ==
  ASSUME GateInv, NEW sub \in Submissions, SubmitMappings(sub)
  PROVE  GateInv'
<1>1. /\ DOMAIN status = {"phase", "positions", "allocs", "acks"}
      /\ status' = [status EXCEPT !.phase = "mapped", !.allocs = sub.allocs,
                                  !.acks = sub.acks]
  BY DEF GateInv, GateType, SubmitMappings
<1>2. /\ status'.phase = "mapped" /\ status'.positions = status.positions
      /\ DOMAIN status' = {"phase", "positions", "allocs", "acks"}
  BY <1>1
<1>3. Accepts(status'.positions, sub.allocs, sub.acks)
  BY <1>2 DEF SubmitMappings
<1>4. gate' = gate /\ gate.pc # "released"
  BY DEF SubmitMappings, GateInv
<1>5. GateType'
  BY <1>2, <1>4 DEF GateInv, GateType, SubmitMappings, Wake, Phases
<1> QED BY <1>2, <1>3, <1>4, <1>5, SubmissionConstants DEF GateInv, SubmitMappings

LEMMA GateRefreshes == GateInv /\ RequestRefresh => GateInv'
BY DEF GateInv, GateType, RequestRefresh, Wake

LEMMA GateEventSet == GateInv /\ EventSet => GateInv'
<1> SUFFICES ASSUME GateInv, EventSet PROVE GateInv'
  OBVIOUS
<1>1. /\ UNCHANGED <<configured, mappingEnabled, status, action, submitted, early, gate>>
      /\ event' = "set" /\ posted' = FALSE
  BY DEF EventSet
<1> QED BY <1>1 DEF GateInv, GateType

LEMMA GateBegins ==
  ASSUME GateInv, NEW positions, BeginRun(positions)
  PROVE  GateInv'
BY DEF GateInv, GateType, BeginRun

LEMMA GateBuilds ==
  ASSUME GateInv, NEW stored, BuildStatus(stored)
  PROVE  GateInv'
<1> DEFINE shown == GateStatus(gate.positions, stored, configured)
<1>1. /\ DOMAIN status' = {"phase", "positions", "allocs", "acks"}
      /\ status'.phase \in {"blocked", "clear", "awaiting_mapping"}
      /\ status'.positions = gate.positions
  BY StatusShown DEF BuildStatus
<1>2. /\ gate.pc = "build" /\ DOMAIN gate = {"pc", "positions", "taken", "early"}
      /\ gate' = [gate EXCEPT !.pc = gate'.pc]
      /\ gate'.pc \in {"clear", "failed", "waiting"}
  BY DEF GateInv, GateType, BuildStatus
<1>3. /\ gate'.positions = gate.positions /\ gate'.taken = gate.taken
      /\ gate'.early = gate.early /\ DOMAIN gate' = DOMAIN gate
  BY <1>2
<1>4. UNCHANGED <<configured, mappingEnabled, action, submitted, early, event, posted>>
  BY DEF BuildStatus
<1> QED BY <1>1, <1>2, <1>3, <1>4 DEF GateInv, GateType, Phases

LEMMA GateTakes == GateInv /\ TakeAction => GateInv'
<1> SUFFICES ASSUME GateInv, TakeAction PROVE GateInv'
  OBVIOUS
<1>1. /\ gate.pc = "waiting" /\ DOMAIN gate = {"pc", "positions", "taken", "early"}
      /\ gate.early \in BOOLEAN /\ early \in BOOLEAN
      /\ submitted \in Submissions \cup {NoSubmission}
      /\ status.positions = gate.positions
  BY DEF GateInv, GateType, TakeAction
<1>2. UNCHANGED <<configured, mappingEnabled, status, early, posted>>
      /\ action' = "none" /\ event' = "clear"
  BY DEF TakeAction
<1>3. CASE action = "continue"
  <2>1. /\ gate'.pc = "releasing" /\ gate'.taken = submitted /\ gate'.early = early
        /\ gate'.positions = gate.positions /\ submitted' = NoSubmission
        /\ DOMAIN gate' = DOMAIN gate
    BY <1>1, <1>3 DEF TakeAction
  <2> QED BY <1>1, <1>2, <1>3, <2>1 DEF GateInv, GateType
<1>4. CASE action # "continue"
  <2>1. /\ gate'.pc \in {"refreshing", "waiting"} /\ gate'.taken = NoSubmission
        /\ gate'.early = FALSE /\ gate'.positions = gate.positions
        /\ submitted' = submitted /\ DOMAIN gate' = DOMAIN gate
    BY <1>1, <1>4 DEF TakeAction
  <2> QED BY <1>1, <1>2, <2>1 DEF GateInv, GateType
<1> QED BY <1>3, <1>4

LEMMA GateReads ==
  ASSUME GateInv, NEW positions, RefreshReturns(positions)
  PROVE  GateInv'
BY DEF GateInv, GateType, RefreshReturns

LEMMA GateReadFails == GateInv /\ RefreshRaises => GateInv'
BY DEF GateInv, GateType, RefreshRaises

LEMMA GateReleases == GateInv /\ Release => GateInv'
<1> SUFFICES ASSUME GateInv, Release PROVE GateInv'
  OBVIOUS
<1>1. /\ gate.pc = "releasing" /\ DOMAIN gate = {"pc", "positions", "taken", "early"}
      /\ DOMAIN status = {"phase", "positions", "allocs", "acks"}
  BY DEF GateInv, GateType, Release
<1>2. /\ gate'.pc = "released" /\ gate'.taken = gate.taken /\ gate'.early = gate.early
      /\ gate'.positions = gate.positions /\ DOMAIN gate' = DOMAIN gate
      /\ status'.phase = "released" /\ DOMAIN status' = DOMAIN status
  BY <1>1 DEF Release
<1>3. UNCHANGED <<configured, mappingEnabled, action, submitted, early, event, posted>>
  BY DEF Release
<1> QED BY <1>1, <1>2, <1>3 DEF GateInv, GateType, Phases

-----------------------------------------------------------------------------
(* The steps of the process. *)

LEMMA Starts == Init => StartInv
BY GateStarts DEF Init, StartInv, GateInit, NotRun

LEMMA Exits == StartInv /\ Exit => StartInv'
BY GateAnew DEF StartInv, Exit, NewController, NotRun

(* The actions that leave the gate alone and the engine past it, or down.   *)
LEMMA GateAside ==
  ASSUME StartInv, UNCHANGED gateVars,
         engine' \in {"down", "connected", "cleared"} =>
           engine \in {"down", "connected", "cleared"}
  PROVE  StartInv'
BY GateRests DEF StartInv

LEMMA StartSteps == StartInv /\ [Next]_vars => StartInv'
<1> SUFFICES ASSUME StartInv, [Next]_vars PROVE StartInv'
  OBVIOUS
<1> USE DEF memory, market, history, bounds
<1>1. CASE GateStep
  <2>1. GateInv'
    BY <1>1, GateBuilds, GateTakes, GateReleases, GateReadFails DEF GateStep, StartInv
  <2> QED BY <1>1, <2>1 DEF GateStep, StartInv
<1>2. CASE GateFails
  BY <1>2, Exits DEF GateFails
<1>3. CASE MarkClear
  <2>1. gate.pc = "before"
    BY <1>3 DEF MarkClear, StartInv
  <2>2. /\ DOMAIN status' = {"phase", "positions", "allocs", "acks"}
        /\ status'.phase \in Phases
    BY <1>3 DEF MarkClear, Shown, Phases
  <2>3. UNCHANGED <<configured, mappingEnabled, action, submitted, early, event, posted, gate>>
    BY <1>3 DEF MarkClear
  <2>4. ~(action = "continue" /\ ~early)
    BY <2>1 DEF StartInv, GateInv
  <2> QED BY <1>3, <2>1, <2>2, <2>3, <2>4 DEF MarkClear, StartInv, GateInv, GateType
<1>4. CASE PersistStart
  BY <1>4, GateAside DEF PersistStart
<1>5. CASE \E all \in BOOLEAN : ReadPositions(all)
  <2>1. CASE UNCHANGED gateVars
    BY <1>5, <2>1, GateAside DEF ReadPositions
  <2>2. CASE \E positions : BeginRun(positions)
    <3>1. engine' = "gate" \/ UNCHANGED gateVars
      BY <1>5 DEF ReadPositions
    <3>2. GateInv'
      BY <2>2, GateBegins DEF StartInv
    <3> QED BY <2>1, <3>1, <3>2 DEF StartInv
  <2> QED BY <1>5, <2>1, <2>2 DEF ReadPositions
<1>6. CASE \E all \in BOOLEAN : Refresh(all)
  <2>1. engine' = "gate" /\ \E positions : RefreshReturns(positions)
    BY <1>6 DEF Refresh
  <2> QED BY <2>1, GateReads DEF StartInv
<1>7. CASE \E all \in BOOLEAN : CheckOpenOrders(all)
  <2>1. CASE Exit
    BY <2>1, Exits
  <2>2. CASE UNCHANGED gateVars /\ engine' = "seeding"
    BY <2>2, GateAside
  <2> QED BY <1>7, <2>1, <2>2 DEF CheckOpenOrders
<1>8. CASE \E failed \in SUBSET (1..Cardinality(Lots)) : AdoptAllocations(failed)
  BY <1>8, GateAside DEF AdoptAllocations
<1>9. CASE SeedRaises
  BY <1>9, Exits DEF SeedRaises
<1>10. CASE StartRunning
  BY <1>10, GateAside DEF StartRunning
<1>11. CASE \E n \in 1..Cardinality(Lots) : AdoptRaises(n)
  BY <1>11, Exits DEF AdoptRaises
<1>12. CASE \E l \in Lots : SeedStop(l)
  BY <1>12, GateAside DEF SeedStop
<1>13. CASE OperatorStep
  <2>1. UNCHANGED <<engine, gate>>
    BY <1>13 DEF OperatorStep, Operator, RequestRefresh, SubmitMappings, EventSet
  <2>2. GateInv'
    BY <1>13, GateSubmits, GateRefreshes, GateEventSet DEF OperatorStep, Operator, StartInv
  <2> QED BY <2>1, <2>2 DEF StartInv
<1>14. CASE Book \/ BookUnknown
  BY <1>14, GateAside DEF Book, BookUnknown
<1>15. CASE \E l \in Lots : EntryFills(l) \/ CloseFills(l) \/ StopFills(l)
  BY <1>15, GateAside DEF EntryFills, CloseFills, StopFills
<1>16. CASE StartProcess
  BY <1>16, GateAside DEF StartProcess
<1>17. CASE Crash
  BY <1>17, Exits DEF Crash
<1>18. CASE ReviewOrders \/ \E f \in Foreign : ForeignTrade(f[1], f[2])
  BY <1>18, GateAside DEF ReviewOrders, ForeignTrade
<1>19. CASE UNCHANGED vars
  BY <1>19, GateAside DEF vars
<1> QED
  BY <1>1, <1>2, <1>3, <1>4, <1>5, <1>6, <1>7, <1>8, <1>9, <1>10, <1>11, <1>12, <1>13,
     <1>14, <1>15, <1>16, <1>17, <1>18, <1>19 DEF Next, Startup, Run, World

(* In every run of the start-up, with any restarts, the gate's invariant    *)
(* holds: `run` waits for the positions it shows.                           *)
THEOREM StartInvariant == Spec => []StartInv
<1>1. Init => StartInv
  BY Starts
<1>2. StartInv /\ [Next]_vars => StartInv'
  BY StartSteps
<1> QED BY <1>1, <1>2, PTL DEF Spec

(* The engine is released only with an operator's mapping that fits the     *)
(* positions it was released for, unless it came during a refresh.          *)
THEOREM ReleasedFitsAlways == Spec => []ReleasedFits
<1>1. StartInv => ReleasedFits
  BY DEF StartInv, GateInv, ReleasedFits
<1> QED BY <1>1, StartInvariant, PTL

(* No request of the operator changes what the engine was released with.    *)
THEOREM ReleasedForGood == Spec => ReleasedStays
<1>1. StartInv /\ [Next]_vars =>
        [gate.pc = "released" /\ gate'.pc = "released" => status' = status]_gateVars
  <2> SUFFICES ASSUME StartInv, [Next]_vars, gate.pc = "released", gate'.pc = "released"
               PROVE  status' = status
    OBVIOUS
  <2> USE DEF memory, market, history, bounds
  <2>1. /\ engine \notin {"down", "connected", "cleared"} /\ status.phase = "released"
    BY DEF StartInv, GateInv
  <2>2. CASE GateStep
    BY <2>2 DEF GateStep, BuildStatus, TakeAction, Release, RefreshRaises
  <2>3. CASE OperatorStep
    BY <2>1, <2>3 DEF OperatorStep, Operator, RequestRefresh, SubmitMappings, EventSet
  <2>4. ~Exit
    BY DEF Exit, NewController, NotRun
  <2>5. CASE Startup /\ ~GateStep
    BY <2>1, <2>4, <2>5 DEF Startup, GateFails, MarkClear, PersistStart, ReadPositions,
       Refresh, RefreshReturns, CheckOpenOrders, AdoptAllocations, SeedRaises,
       StartRunning, AdoptRaises, SeedStop
  <2>6. CASE Run
    BY <2>6 DEF Run, Book, BookUnknown, EntryFills, CloseFills, StopFills
  <2>7. CASE World
    BY <2>4, <2>7 DEF World, StartProcess, Crash, ReviewOrders, ForeignTrade
  <2>8. CASE UNCHANGED vars
    BY <2>8 DEF vars
  <2> QED BY <2>2, <2>3, <2>5, <2>6, <2>7, <2>8 DEF Next
<1> QED BY <1>1, StartInvariant, PTL DEF Spec, ReleasedStays

-----------------------------------------------------------------------------
(* The stops an earlier process left working.                               *)

(* With answers in full and the execution instruments watched, the process  *)
(* that seeds stops or trades knows every stop at work.                     *)
StopsKnown ==
  engine \in {"seeding", "running"} /\ complete
    => \A l \in Lots : stops[l] # 0 => l \in tracked
StopsProtect == DOMAIN stops = Lots /\ \A l \in Lots : stops[l] # 0 => l[1] \in Protected
Fills(Quantities) ==
  [lot : Lots \cup {NoLot}, instrument : Instruments, quantity : Quantities]
FillsNamed == \E Q : unbooked \in Seq(Fills(Q))
StopsInv == StopsKnown /\ StopsProtect /\ FillsNamed /\ OneStopPerLot

(* A protected strategy's execution instrument has data of its own.         *)
ExecutionWatched == \A s \in Protected : Executes[s] \in Watched

LEMMA LotFacts ==
  \A l \in Lots : l[1] \in Strategies /\ Executes[l[1]] \in Instruments /\ l # NoLot
BY GateConstants DEF Lots, NoLot

LEMMA WiderSeq == ASSUME NEW S, NEW T, S \subseteq T, NEW s \in Seq(S) PROVE s \in Seq(T)
OBVIOUS

LEMMA Reports ==
  ASSUME FillsNamed, NEW l \in Lots \cup {NoLot}, NEW i \in Instruments, NEW q, Report(l, i, q)
  PROVE  FillsNamed'
<1>1. PICK Q : unbooked \in Seq(Fills(Q)) BY DEF FillsNamed
<1>2. Fills(Q) \subseteq Fills(Q \cup {q}) BY DEF Fills
<1>3. unbooked \in Seq(Fills(Q \cup {q})) BY <1>1, <1>2, WiderSeq
<1>4. [lot |-> l, instrument |-> i, quantity |-> q] \in Fills(Q \cup {q}) BY DEF Fills
<1>5. unbooked' \in Seq(Fills(Q \cup {q})) BY <1>3, <1>4 DEF Report
<1> QED BY <1>5 DEF FillsNamed

LEMMA Booked ==
  ASSUME FillsNamed, unbooked # <<>>
  PROVE  /\ Head(unbooked).lot \in Lots \cup {NoLot}
         /\ unbooked' = Tail(unbooked) => FillsNamed'
<1>1. PICK Q : unbooked \in Seq(Fills(Q)) BY DEF FillsNamed
<1>2. Head(unbooked) \in Fills(Q) /\ Tail(unbooked) \in Seq(Fills(Q)) BY <1>1
<1>3. Head(unbooked).lot \in Lots \cup {NoLot} BY <1>2 DEF Fills
<1>4. unbooked' = Tail(unbooked) => FillsNamed' BY <1>2 DEF FillsNamed
<1> QED BY <1>3, <1>4

(* The steps that place no stop.                                            *)
LEMMA StopsAside ==
  ASSUME StopsInv, UNCHANGED <<stops, tracked, unbooked, stopTwice>>,
         engine' \in {"seeding", "running"} => complete' = complete /\ engine' = engine
  PROVE  StopsInv'
BY DEF StopsInv, StopsKnown, StopsProtect, FillsNamed, OneStopPerLot

LEMMA StopsDown ==
  ASSUME StopsInv, Exit, UNCHANGED <<stops, stopTwice>> PROVE StopsInv'
<1>1. engine' = "down" /\ unbooked' = <<>> BY DEF Exit
<1>2. FillsNamed' BY <1>1 DEF FillsNamed
<1> QED BY <1>1, <1>2 DEF StopsInv, StopsKnown, StopsProtect, OneStopPerLot

LEMMA StopPlaced ==
  ASSUME StopsInv, NEW l \in Lots, l[1] \in Protected, NEW q, PlaceStop(l, q),
         engine \in {"seeding", "running"}, UNCHANGED <<engine, complete>>, FillsNamed'
  PROVE  StopsInv'
<1>1. /\ stops' = [stops EXCEPT ![l] = q] /\ tracked' = tracked \cup {l}
      /\ stopTwice' = (stopTwice \/ (complete /\ l \notin tracked /\ stops[l] # 0))
  BY DEF PlaceStop
<1>2. ~stopTwice' BY <1>1 DEF StopsInv, StopsKnown, OneStopPerLot
<1>3. DOMAIN stops' = Lots /\ \A m \in Lots : m # l => stops'[m] = stops[m]
  BY <1>1 DEF StopsInv, StopsProtect
<1> QED BY <1>1, <1>2, <1>3 DEF StopsInv, StopsKnown, StopsProtect, OneStopPerLot

(* The open-order check passes only when no stop is at work.                *)
LEMMA ChecksFindNothing ==
  ASSUME StopsInv, ExecutionWatched, NEW all \in BOOLEAN, CheckOpenOrders(all)
  PROVE  \/ Exit /\ UNCHANGED market
         \/ /\ engine' = "seeding" /\ UNCHANGED <<memory, market>>
            /\ complete' => WorkingStops = {}
<1>1. CASE all /\ \E l \in WorkingStops : Executes[l[1]] \in Watched
  BY <1>1 DEF CheckOpenOrders
<1>2. CASE ~(all /\ \E l \in WorkingStops : Executes[l[1]] \in Watched)
  <2>1. /\ engine' = "seeding" /\ UNCHANGED <<memory, market>>
        /\ complete' = (complete /\ all)
    BY <1>2 DEF CheckOpenOrders
  <2>2. all => WorkingStops = {}
    BY <1>2 DEF WorkingStops, StopsInv, StopsProtect, ExecutionWatched
  <2> QED BY <2>1, <2>2
<1> QED BY <1>1, <1>2

LEMMA StopSteps == StopsInv /\ ExecutionWatched /\ [Next]_vars => StopsInv'
<1> SUFFICES ASSUME StopsInv, ExecutionWatched, [Next]_vars PROVE StopsInv'
  OBVIOUS
<1>1. CASE Startup
  <2>1. CASE GateStep
    BY <2>1, StopsAside DEF GateStep, memory, market, history
  <2>2. CASE GateFails BY <2>2, StopsDown DEF GateFails, market
  <2>3. CASE MarkClear BY <2>3, StopsAside DEF MarkClear, memory, market
  <2>4. CASE PersistStart BY <2>4, StopsAside DEF PersistStart, memory, market
  <2>5. ASSUME NEW all \in BOOLEAN, ReadPositions(all) PROVE StopsInv'
    BY <2>5, StopsAside DEF ReadPositions, market
  <2>6. ASSUME NEW all \in BOOLEAN, Refresh(all) PROVE StopsInv'
    BY <2>6, StopsAside DEF Refresh, memory, market
  <2>7. ASSUME NEW all \in BOOLEAN, CheckOpenOrders(all) PROVE StopsInv'
    <3>1. UNCHANGED <<market, stopTwice>> BY <2>7 DEF CheckOpenOrders
    <3>2. CASE Exit BY <3>1, <3>2, StopsDown DEF market
    <3>3. CASE /\ engine' = "seeding" /\ UNCHANGED <<memory, market>>
               /\ complete' => WorkingStops = {}
      BY <3>1, <3>3 DEF StopsInv, StopsKnown, StopsProtect, FillsNamed, OneStopPerLot,
         memory, market, WorkingStops
    <3> QED BY <2>7, <3>2, <3>3, ChecksFindNothing
  <2>8. CASE SeedRaises BY <2>8, StopsDown DEF SeedRaises, market
  <2>9. CASE StartRunning
    <3>1. /\ engine = "seeding" /\ engine' = "running"
          /\ UNCHANGED <<stops, tracked, unbooked, stopTwice, complete>>
      BY <2>9 DEF StartRunning, memory, market, history
    <3> QED BY <3>1 DEF StopsInv, StopsKnown, StopsProtect, FillsNamed, OneStopPerLot
  <2>10. ASSUME NEW failed, AdoptAllocations(failed) PROVE StopsInv'
    BY <2>10, StopsAside DEF AdoptAllocations, market
  <2>11. ASSUME NEW n, AdoptRaises(n) PROVE StopsInv'
    BY <2>11, StopsDown DEF AdoptRaises, market
  <2>12. ASSUME NEW l \in Lots, SeedStop(l) PROVE StopsInv'
    <3>1. /\ PlaceStop(l, Saved(owned, lots)[l]) /\ l[1] \in Protected
          /\ engine = "seeding" /\ UNCHANGED <<engine, complete, unbooked>>
      BY <2>12 DEF SeedStop, SeedPositions
    <3>2. FillsNamed' BY <3>1 DEF StopsInv, FillsNamed
    <3> QED BY <3>1, <3>2, StopPlaced
  <2> QED
    BY <1>1, <2>1, <2>2, <2>3, <2>4, <2>5, <2>6, <2>7, <2>8, <2>9, <2>10, <2>11, <2>12
    DEF Startup
<1>2. CASE OperatorStep
  BY <1>2, StopsAside DEF OperatorStep, memory, market, history
<1>3. CASE Book
  <2> DEFINE l == Head(unbooked).lot
  <2>1. /\ engine = "running" /\ unbooked # <<>> /\ l # NoLot
        /\ unbooked' = Tail(unbooked) /\ UNCHANGED <<engine, complete>>
    BY <1>3 DEF Book
  <2>2. l \in Lots /\ FillsNamed' BY <2>1, Booked DEF StopsInv
  <2>3. \/ UNCHANGED <<stops, tracked, stopTwice>>
        \/ l[1] \in Protected /\ \E q : PlaceStop(l, q)
        \/ /\ stops' = IF l \in tracked THEN [stops EXCEPT ![l] = 0] ELSE stops
           /\ tracked' = tracked \ {l} /\ UNCHANGED stopTwice
    BY <1>3 DEF Book
  <2> HIDE DEF l
  <2>4. CASE UNCHANGED <<stops, tracked, stopTwice>>
    BY <2>1, <2>2, <2>4 DEF StopsInv, StopsKnown, StopsProtect, OneStopPerLot
  <2>5. CASE l[1] \in Protected /\ \E q : PlaceStop(l, q)
    BY <2>1, <2>2, <2>5, StopPlaced
  <2>6. CASE /\ stops' = IF l \in tracked THEN [stops EXCEPT ![l] = 0] ELSE stops
             /\ tracked' = tracked \ {l} /\ UNCHANGED stopTwice
    <3>1. \/ stops' = [stops EXCEPT ![l] = 0]
          \/ stops' = stops /\ l \notin tracked
      BY <2>6
    <3>2. /\ DOMAIN stops' = Lots
          /\ \A m \in Lots : stops'[m] # 0 => stops[m] # 0 /\ (m # l \/ l \notin tracked)
      BY <3>1 DEF StopsInv, StopsProtect
    <3> QED BY <2>1, <2>2, <2>6, <3>1, <3>2 DEF StopsInv, StopsKnown, StopsProtect, OneStopPerLot
  <2> QED BY <2>3, <2>4, <2>5, <2>6
<1>4. CASE BookUnknown
  <2>1. /\ unbooked # <<>> /\ unbooked' = Tail(unbooked)
        /\ UNCHANGED <<engine, complete, stops, tracked, stopTwice>>
    BY <1>4 DEF BookUnknown, market
  <2> QED BY <2>1, Booked DEF StopsInv, StopsKnown, StopsProtect, OneStopPerLot
<1>5. ASSUME NEW l \in Lots, EntryFills(l) \/ CloseFills(l) PROVE StopsInv'
  <2>1. /\ \E q : Report(l, Executes[l[1]], q)
        /\ UNCHANGED <<engine, complete, stops, tracked, stopTwice>>
    BY <1>5 DEF EntryFills, CloseFills
  <2>2. FillsNamed' BY <2>1, LotFacts, Reports DEF StopsInv
  <2> QED BY <2>1, <2>2 DEF StopsInv, StopsKnown, StopsProtect, OneStopPerLot
<1>6. ASSUME NEW l \in Lots, StopFills(l) PROVE StopsInv'
  <2>1. stops' = [stops EXCEPT ![l] = 0] /\ UNCHANGED <<engine, complete, tracked, stopTwice>>
    BY <1>6 DEF StopFills
  <2>2. \/ unbooked' = unbooked
        \/ \E m \in Lots \cup {NoLot} : \E q : Report(m, Executes[l[1]], q)
    BY <1>6 DEF StopFills
  <2>3. FillsNamed' BY <2>2, LotFacts, Reports DEF StopsInv, FillsNamed
  <2>4. DOMAIN stops' = Lots /\ \A m \in Lots : stops'[m] # 0 => stops[m] # 0
    BY <2>1 DEF StopsInv, StopsProtect
  <2> QED BY <2>1, <2>3, <2>4 DEF StopsInv, StopsKnown, StopsProtect, OneStopPerLot
<1>7. CASE World
  <2>1. CASE StartProcess
    BY <2>1, StopsAside DEF StartProcess, memory, market, history
  <2>2. CASE Crash BY <2>2, StopsDown DEF Crash, market
  <2>3. CASE ReviewOrders
    <3>1. /\ engine' = "down" /\ stops' = Nobody /\ UNCHANGED <<unbooked, stopTwice>>
      BY <2>3 DEF ReviewOrders, memory, history
    <3> QED
      BY <3>1 DEF StopsInv, StopsKnown, StopsProtect, FillsNamed, OneStopPerLot, Nobody
  <2>4. ASSUME NEW i, NEW q, ForeignTrade(i, q) PROVE StopsInv'
    BY <2>4, StopsAside DEF ForeignTrade, memory
  <2> QED BY <1>7, <2>1, <2>2, <2>3, <2>4 DEF World
<1>8. CASE UNCHANGED vars BY <1>8, StopsAside DEF vars, memory, market, history
<1> QED BY <1>1, <1>2, <1>3, <1>4, <1>5, <1>6, <1>7, <1>8 DEF Next, Run

LEMMA StopsStart == Init => StopsInv
BY DEF Init, StopsInv, StopsKnown, StopsProtect, FillsNamed, OneStopPerLot, Nobody

(* A stop left working by an earlier process is never doubled while the     *)
(* broker answers in full, however often the process restarts, if every     *)
(* protected strategy trades an instrument that the open-order check looks  *)
(* at; it looks at the data instruments only.                               *)
THEOREM NeverASecondStop == ASSUME ExecutionWatched PROVE Spec => []OneStopPerLot
<1>1. StopsInv /\ [Next]_vars => StopsInv' BY StopSteps
<1>2. StopsInv => OneStopPerLot BY DEF StopsInv
<1> QED BY <1>1, <1>2, StopsStart, PTL DEF Spec

(* Under the same condition the engine does not start beside an order at    *)
(* work for one of its instruments.                                         *)
THEOREM NeverStartsBesideOpenOrders ==
  ASSUME ExecutionWatched PROVE Spec => NoStartWithOpenOrders
<1>1. StopsInv /\ [Next]_vars => StopsInv' BY StopSteps
<1>2. StopsInv /\ [Next]_vars =>
        [engine = "persisted" /\ engine' = "seeding" /\ complete' => WorkingStops = {}]_vars
  <2> SUFFICES ASSUME StopsInv, Next, engine = "persisted", engine' = "seeding", complete'
               PROVE  WorkingStops = {}
    OBVIOUS
  <2>1. \A all \in BOOLEAN : CheckOpenOrders(all) => WorkingStops = {}
    BY ChecksFindNothing DEF Exit
  <2>2. CASE Startup
    BY <2>1, <2>2 DEF Startup, GateStep, GateFails, MarkClear, PersistStart, ReadPositions,
       Refresh, SeedRaises, StartRunning, AdoptAllocations, AdoptRaises, SeedStop
  <2>3. CASE OperatorStep \/ Run \/ World
    BY <2>3 DEF OperatorStep, Run, World, Book, BookUnknown, EntryFills, CloseFills, StopFills,
       StartProcess, Crash, Exit, ReviewOrders, ForeignTrade
  <2> QED BY <2>2, <2>3 DEF Next
<1> QED BY <1>1, <1>2, StopsStart, PTL DEF Spec, NoStartWithOpenOrders

-----------------------------------------------------------------------------
(* Lots and their sums. *)

OwnLots(s) == {l \in Lots : l[1] = s}
LotsOn(i) == {l \in Lots : Executes[l[1]] = i}

LEMMA LotPairs ==
  /\ \A l \in Lots : /\ l = <<l[1], l[2]>> /\ l[1] \in Strategies
                     /\ l[2] \in Trades \cup {NoTrade} /\ Executes[l[1]] \in Instruments
  /\ \A s \in Strategies : <<s, NoTrade>> \in Lots
BY GateConstants DEF Lots

LEMMA LotsFinite ==
  /\ IsFiniteSet(Lots)
  /\ \A T \in SUBSET Lots : IsFiniteSet(T)
  /\ \A s : OwnLots(s) \in SUBSET Lots
  /\ \A i : LotsOn(i) \in SUBSET Lots
<1> DEFINE names == Trades \cup {NoTrade}
           all == Strategies \X names
<1>1. IsFiniteSet(names) BY GateConstants, FS_AddElement
<1>2. IsFiniteSet(all)
  <2> HIDE DEF names
  <2> QED BY <1>1, GateConstants, FS_Product
<1>3. Lots \in SUBSET all BY LotPairs
<1> HIDE DEF all
<1>4. IsFiniteSet(Lots) BY <1>2, <1>3, FS_Subset
<1> QED BY <1>4, FS_Subset DEF OwnLots, LotsOn

LEMMA SumsAre ==
  ASSUME NEW f \in [Lots -> Int]
  PROVE  /\ \A s : OwnerSum(f, s) = Total(f, OwnLots(s)) /\ OwnerSum(f, s) \in Int
         /\ \A i : InstrumentSum(f, i) = Total(f, LotsOn(i)) /\ InstrumentSum(f, i) \in Int
<1>1. ASSUME NEW T \in SUBSET Lots PROVE Total(f, T) \in Int
  <2>1. IsFiniteSet(T) /\ \A l \in T : f[l] \in Int BY LotsFinite
  <2> QED BY <2>1, TotalSplit
<1>2. \A s : OwnerSum(f, s) = Total(f, OwnLots(s)) BY DEF OwnerSum, Total, OwnLots
<1>3. \A i : InstrumentSum(f, i) = Total(f, LotsOn(i)) BY DEF InstrumentSum, Total, LotsOn
<1> QED BY <1>1, <1>2, <1>3, LotsFinite

Bumped(f, l, q) == [f EXCEPT ![l] = @ + q]

(* A trade of one lot moves the sum of its instrument.                      *)
LEMMA SumsMove ==
  ASSUME NEW f \in [Lots -> Int], NEW l \in Lots, NEW q \in Int, NEW i
  PROVE  InstrumentSum(Bumped(f, l, q), i) =
           InstrumentSum(f, i) + IF i = Executes[l[1]] THEN q ELSE 0
<1> DEFINE g == Bumped(f, l, q)
           on == LotsOn(i)
<1>1. g \in [Lots -> Int] /\ g[l] = f[l] + q /\ \A m \in Lots \ {l} : g[m] = f[m]
  BY DEF Bumped
<1>2. IsFiniteSet(on) /\ on \in SUBSET Lots BY LotsFinite
<1>3. /\ InstrumentSum(g, i) = Total(g, on) /\ InstrumentSum(f, i) = Total(f, on)
      /\ InstrumentSum(f, i) \in Int
  BY <1>1, SumsAre
<1>4. l \in on <=> i = Executes[l[1]] BY DEF LotsOn
<1> HIDE DEF g, on
<1>5. CASE l \in on
  <2>1. \A m \in on : f[m] \in Int /\ g[m] \in Int BY <1>1, <1>2
  <2>2. \A m \in on \ {l} : f[m] = g[m] BY <1>1, <1>2
  <2>3. Total(g, on) = Total(f, on) - f[l] + g[l] BY <1>2, <1>5, <2>1, <2>2, TotalChange
  <2>4. InstrumentSum(g, i) = InstrumentSum(f, i) + q BY <1>1, <1>3, <2>3
  <2> QED BY <1>4, <1>5, <2>4 DEF g
<1>6. CASE l \notin on
  <2>1. \A m \in on : g[m] = f[m] BY <1>1, <1>2, <1>6
  <2>2. Total(g, on) = Total(f, on) BY <1>2, <2>1, TotalSame
  <2>3. InstrumentSum(g, i) = InstrumentSum(f, i) + 0 BY <1>3, <2>2
  <2> QED BY <1>4, <1>6, <2>3 DEF g
<1> QED BY <1>5, <1>6

-----------------------------------------------------------------------------
(* How far a book of lots is from the truth, as far as the gate can tell:   *)
(* not at all and the broker's positions are explained, or by one trade, of *)
(* somebody else or of one lot.                                             *)
Near(f, gap, t, positions) ==
  /\ gap \in Nat
  /\ gap = 0 => f = t /\ Explains(t, positions)
  /\ gap = 1 => \/ f = t
                \/ /\ Explains(t, positions)
                   /\ \E l \in Lots : \A m \in Lots \ {l} : f[m] = t[m]

LEMMA Explained ==
  ASSUME NEW t \in [Lots -> Int], NEW l \in Lots, NEW q \in Int,
         NEW positions \in [Instruments -> Int], Explains(t, positions)
  PROVE  Explains(Bumped(t, l, q), [positions EXCEPT ![Executes[l[1]]] = @ + q])
<1>1. \A i \in Instruments : Exact(i) # {} => InstrumentSum(t, i) = positions[i]
  BY DEF Explains
<1> SUFFICES ASSUME NEW i \in Instruments, Exact(i) # {}
             PROVE  InstrumentSum(Bumped(t, l, q), i)
                      = [positions EXCEPT ![Executes[l[1]]] = @ + q][i]
  BY DEF Explains
<1> DEFINE more == IF i = Executes[l[1]] THEN q ELSE 0
<1>2. InstrumentSum(Bumped(t, l, q), i) = InstrumentSum(t, i) + more
  BY SumsMove
<1>3. Executes[l[1]] \in Instruments BY LotPairs
<1>4. positions[i] \in Int /\ InstrumentSum(t, i) = positions[i] BY <1>1
<1> QED BY <1>2, <1>3, <1>4

(* A trade of a lot keeps the distance of a book that hears of it and makes *)
(* that of another one more; any other trade makes it one more.             *)
LEMMA NearTrade ==
  ASSUME NEW f \in [Lots -> Int], NEW t \in [Lots -> Int], NEW gap,
         NEW positions \in [Instruments -> Int], NEW l \in Lots, NEW q \in Int,
         Near(f, gap, t, positions)
  PROVE  LET after == [positions EXCEPT ![Executes[l[1]]] = @ + q] IN
         /\ Near(Bumped(f, l, q), gap, Bumped(t, l, q), after)
         /\ Near(f, gap + 1, Bumped(t, l, q), after)
<1> DEFINE after == [positions EXCEPT ![Executes[l[1]]] = @ + q]
           g == Bumped(f, l, q)
           u == Bumped(t, l, q)
<1>1. Explains(t, positions) => Explains(u, after) BY Explained
<1>2. /\ f = t => g = u
      /\ \A m \in Lots : f[m] = t[m] => g[m] = u[m]
      /\ \A m \in Lots \ {l} : u[m] = t[m]
  BY DEF Bumped
<1>3. gap \in Nat BY DEF Near
<1> HIDE DEF after, g, u
<1>4. Near(g, gap, u, after)
  <2>1. CASE gap = 0 BY <1>1, <1>2, <1>3, <2>1 DEF Near
  <2>2. CASE gap = 1
    <3>1. CASE f = t BY <1>2, <1>3, <2>2, <3>1 DEF Near
    <3>2. CASE Explains(t, positions) /\ \E k \in Lots : \A m \in Lots \ {k} : f[m] = t[m]
      BY <1>1, <1>2, <1>3, <2>2, <3>2 DEF Near
    <3> QED BY <2>2, <3>1, <3>2 DEF Near
  <2> QED BY <1>3, <2>1, <2>2 DEF Near
<1>5. Near(f, gap + 1, u, after)
  <2>1. CASE gap = 0
    <3>1. f = t /\ Explains(u, after) BY <1>1, <2>1 DEF Near
    <3>2. \A m \in Lots \ {l} : f[m] = u[m] BY <1>2, <3>1
    <3> QED BY <1>3, <2>1, <3>1, <3>2 DEF Near
  <2>2. CASE gap # 0 BY <1>3, <2>2 DEF Near
  <2> QED BY <2>1, <2>2
<1> QED BY <1>4, <1>5 DEF after, g, u

LEMMA NearForeign ==
  ASSUME NEW f, NEW t, NEW gap, NEW positions, NEW after, Near(f, gap, t, positions)
  PROVE  Near(f, gap + 1, t, after)
<1>1. gap \in Nat /\ (gap = 0 => f = t) BY DEF Near
<1>2. gap + 1 \in Nat /\ gap + 1 # 0 /\ (gap + 1 = 1 => gap = 0) BY <1>1
<1> QED BY <1>1, <1>2 DEF Near

LEMMA FarIsNear ==
  ASSUME NEW f, NEW t, NEW gap \in Nat, gap > 1, NEW positions
  PROVE  Near(f, gap, t, positions)
<1>1. gap # 0 /\ gap # 1 OBVIOUS
<1> QED BY <1>1 DEF Near

-----------------------------------------------------------------------------
(* The fills on the way to the books. *)

Fill == [lot : Lots \cup {NoLot}, instrument : Instruments, quantity : Int]
OfKnown(q) == [n \in 1..Len(q) |-> IF q[n].lot = NoLot THEN 0 ELSE 1]
OfLot(q, l) == [n \in 1..Len(q) |-> IF q[n].lot = l THEN q[n].quantity ELSE 0]
Known(q) == Total(OfKnown(q), 1..Len(q))
Pending(q, l) == Total(OfLot(q, l), 1..Len(q))
Plus(f, q) == [l \in Lots |-> f[l] + Pending(q, l)]

LEMMA QueueTyped ==
  ASSUME NEW q \in Seq(Fill)
  PROVE  /\ Len(q) \in Nat /\ IsFiniteSet(1..Len(q))
         /\ \A n \in 1..Len(q) : q[n] \in Fill /\ OfKnown(q)[n] \in {0, 1}
                                 /\ \A l : OfLot(q, l)[n] \in Int
         /\ Known(q) \in Nat /\ \A l : Pending(q, l) \in Int
<1>1. Len(q) \in Nat /\ \A n \in 1..Len(q) : q[n] \in Fill OBVIOUS
<1>2. IsFiniteSet(1..Len(q)) BY <1>1, FS_Interval
<1>3. \A n \in 1..Len(q) : OfKnown(q)[n] \in {0, 1} BY DEF OfKnown
<1>4. \A n \in 1..Len(q) : \A l : OfLot(q, l)[n] \in Int BY <1>1 DEF OfLot, Fill
<1>5. \A n \in 1..Len(q) : OfKnown(q)[n] \in Nat BY <1>3
<1>6. Known(q) \in Nat BY <1>2, <1>5, TotalNat DEF Known
<1>7. ASSUME NEW l PROVE Pending(q, l) \in Int
  <2>1. \A n \in 1..Len(q) : OfLot(q, l)[n] \in Int BY <1>4
  <2> QED BY <1>2, <2>1, TotalSplit DEF Pending
<1> QED BY <1>1, <1>2, <1>3, <1>4, <1>6, <1>7

LEMMA QueueEmpty == Known(<<>>) = 0 /\ \A l : Pending(<<>>, l) = 0
<1>1. 1..Len(<<>>) = {} OBVIOUS
<1> QED BY <1>1, TotalEmpty DEF Known, Pending

LEMMA QueueGrows ==
  ASSUME NEW q \in Seq(Fill), NEW fill \in Fill
  PROVE  /\ Known(Append(q, fill)) = Known(q) + IF fill.lot = NoLot THEN 0 ELSE 1
         /\ \A l : Pending(Append(q, fill), l)
                    = Pending(q, l) + IF fill.lot = l THEN fill.quantity ELSE 0
<1> DEFINE n == Len(q)
           r == Append(q, fill)
<1>1. n \in Nat /\ Len(r) = n + 1 /\ r[n + 1] = fill /\ \A k \in 1..n : r[k] = q[k]
  OBVIOUS
<1>2. n + 1 \in 1..Len(r) /\ \A k \in 1..n : k \in 1..Len(r) BY <1>1
<1>3. Known(r) = Known(q) + IF fill.lot = NoLot THEN 0 ELSE 1
  <2> DEFINE f == OfKnown(q)
             g == OfKnown(r)
  <2>1. \A k \in 1..n : f[k] \in Int /\ g[k] = f[k] BY <1>1, <1>2, QueueTyped DEF OfKnown
  <2>2. g[n + 1] = (IF fill.lot = NoLot THEN 0 ELSE 1) /\ g[n + 1] \in Int
    BY <1>1, <1>2 DEF OfKnown
  <2> HIDE DEF f, g
  <2>3. Total(g, 1..(n + 1)) = Total(f, 1..n) + g[n + 1] BY <1>1, <2>1, <2>2, TotalAppend
  <2> QED BY <1>1, <2>2, <2>3 DEF Known, f, g
<1>4. ASSUME NEW l
      PROVE  Pending(r, l) = Pending(q, l) + IF fill.lot = l THEN fill.quantity ELSE 0
  <2> DEFINE f == OfLot(q, l)
             g == OfLot(r, l)
  <2>1. \A k \in 1..n : f[k] \in Int /\ g[k] = f[k] BY <1>1, <1>2, QueueTyped DEF OfLot
  <2>2. g[n + 1] = (IF fill.lot = l THEN fill.quantity ELSE 0) /\ g[n + 1] \in Int
    BY <1>1, <1>2 DEF OfLot, Fill
  <2> HIDE DEF f, g
  <2>3. Total(g, 1..(n + 1)) = Total(f, 1..n) + g[n + 1] BY <1>1, <2>1, <2>2, TotalAppend
  <2> QED BY <1>1, <2>2, <2>3 DEF Pending, f, g
<1> QED BY <1>3, <1>4

LEMMA QueueShrinks ==
  ASSUME NEW q \in Seq(Fill), q # <<>>
  PROVE  /\ Tail(q) \in Seq(Fill) /\ Head(q) \in Fill
         /\ Known(Tail(q)) = Known(q) - IF Head(q).lot = NoLot THEN 0 ELSE 1
         /\ \A l : Pending(Tail(q), l)
                    = Pending(q, l) - IF Head(q).lot = l THEN Head(q).quantity ELSE 0
<1> DEFINE n == Len(q) - 1
           r == Tail(q)
<1>1. /\ n \in Nat /\ Len(q) = n + 1 /\ Len(r) = n /\ r \in Seq(Fill) /\ Head(q) = q[1]
      /\ \A k \in 1..n : r[k] = q[k + 1]
  OBVIOUS
<1>2. 1 \in 1..Len(q) /\ \A k \in 1..n : k + 1 \in 1..Len(q) /\ k \in 1..Len(r)
  BY <1>1
<1> HIDE DEF r, n
<1>3. Known(r) = Known(q) - IF Head(q).lot = NoLot THEN 0 ELSE 1
  <2> DEFINE f == OfKnown(q)
             g == OfKnown(r)
  <2>1. \A k \in 1..(n + 1) : f[k] \in Int BY <1>1, QueueTyped
  <2>2. \A k \in 1..n : g[k] = f[k + 1] BY <1>1, <1>2 DEF OfKnown
  <2>3. f[1] = IF Head(q).lot = NoLot THEN 0 ELSE 1 BY <1>1, <1>2 DEF OfKnown
  <2> HIDE DEF f, g
  <2>4. Total(g, 1..n) = Total(f, 1..(n + 1)) - f[1] BY <1>1, <2>1, <2>2, TotalTail
  <2> QED BY <1>1, <2>3, <2>4 DEF Known, f, g
<1>4. ASSUME NEW l
      PROVE  Pending(r, l) = Pending(q, l) - IF Head(q).lot = l THEN Head(q).quantity ELSE 0
  <2> DEFINE f == OfLot(q, l)
             g == OfLot(r, l)
  <2>1. \A k \in 1..(n + 1) : f[k] \in Int BY <1>1, QueueTyped
  <2>2. \A k \in 1..n : g[k] = f[k + 1] BY <1>1, <1>2 DEF OfLot
  <2>3. f[1] = IF Head(q).lot = l THEN Head(q).quantity ELSE 0 BY <1>1, <1>2 DEF OfLot
  <2> HIDE DEF f, g
  <2>4. Total(g, 1..n) = Total(f, 1..(n + 1)) - f[1] BY <1>1, <2>1, <2>2, TotalTail
  <2> QED BY <1>1, <2>3, <2>4 DEF Pending, f, g
<1>5. Head(q) \in Fill BY <1>1, <1>2
<1> QED BY <1>1, <1>3, <1>4, <1>5 DEF r

(* With no owned fill on the way nothing is pending; with one, one lot.     *)
LEMMA QueueFew ==
  ASSUME NEW q \in Seq(Fill)
  PROVE  /\ Known(q) = 0 => \A l \in Lots : Pending(q, l) = 0
         /\ Known(q) = 1 => \E l \in Lots : \A m \in Lots \ {l} : Pending(q, m) = 0
<1> DEFINE f == OfKnown(q)
           D == 1..Len(q)
<1>1. IsFiniteSet(D) /\ \A n \in D : q[n] \in Fill /\ f[n] \in Nat BY QueueTyped
<1>2. ASSUME NEW l \in Lots, \A n \in D : q[n].lot # l PROVE Pending(q, l) = 0
  <2>1. \A n \in D : OfLot(q, l)[n] = 0 BY <1>2 DEF OfLot
  <2> QED BY <1>1, <2>1, TotalZero DEF Pending
<1>3. \A n \in D : f[n] = 0 <=> q[n].lot = NoLot BY DEF OfKnown
<1>4. NoLot \notin Lots BY LotFacts
<1>5. Known(q) = Total(f, D) BY DEF Known
<1> HIDE DEF f, D
<1>6. CASE Known(q) = 0
  <2>1. \A n \in D : f[n] = 0 BY <1>1, <1>5, <1>6, TotalNone
  <2> QED BY <1>2, <1>3, <1>4, <1>6, <2>1
<1>7. CASE Known(q) = 1
  <2>1. \A n, k \in D : f[n] # 0 /\ f[k] # 0 => n = k BY <1>1, <1>5, <1>7, TotalOne
  <2>2. CASE \A n \in D : f[n] = 0
    <3>1. Total(f, D) = 0 BY <1>1, <2>2, TotalZero
    <3>2. Known(q) = 0 BY <1>5, <3>1
    <3>3. Known(q) # 0 BY <1>7
    <3> QED BY <3>2, <3>3
  <2>3. CASE \E n \in D : f[n] # 0
    <3>1. PICK n \in D : f[n] # 0 BY <2>3
    <3>2. q[n].lot \in Lots BY <1>1, <1>3, <3>1 DEF Fill
    <3>3. \A m \in Lots \ {q[n].lot} : \A k \in D : q[k].lot # m BY <1>3, <1>4, <2>1, <3>1
    <3> QED BY <1>2, <1>7, <3>2, <3>3
  <2> QED BY <2>2, <2>3
<1> QED BY <1>6, <1>7

(* A book that hears of no fill on the way is as near as one that has heard *)
(* of them, if each counts as a trade it misses.                            *)
LEMMA NearWithout ==
  ASSUME NEW f \in [Lots -> Int], NEW t, NEW gap \in Int, NEW positions,
         NEW q \in Seq(Fill), Near(Plus(f, q), gap - Known(q), t, positions)
  PROVE  Near(f, gap, t, positions)
<1>1. Known(q) \in Nat /\ gap - Known(q) \in Nat BY QueueTyped DEF Near
<1>2. gap \in Nat BY <1>1
<1>3. CASE Known(q) = 0
  <2>1. \A l \in Lots : f[l] + Pending(q, l) = f[l] BY <1>3, QueueFew
  <2>2. Plus(f, q) = f BY <2>1 DEF Plus
  <2>3. gap - Known(q) = gap BY <1>3
  <2> QED BY <2>2, <2>3
<1>4. CASE Known(q) = 1 /\ gap = 1
  <2>1. gap - Known(q) = 0 BY <1>4
  <2>2. Plus(f, q) = t /\ Explains(t, positions) BY <2>1 DEF Near
  <2>3. PICK l \in Lots : \A m \in Lots \ {l} : Pending(q, m) = 0 BY <1>4, QueueFew
  <2>4. \A m \in Lots \ {l} : f[m] = t[m] BY <2>2, <2>3 DEF Plus
  <2> QED BY <1>4, <2>2, <2>4 DEF Near
<1>5. CASE gap > 1 BY <1>2, <1>5, FarIsNear
<1> QED BY <1>1, <1>2, <1>3, <1>4, <1>5

-----------------------------------------------------------------------------
(* What memory says of the lots, and what a file keeps of it.               *)

TradeLots(s) == {m \in Lots : m[1] = s /\ m[2] # NoTrade}

LEMMA OwnLotsSplit ==
  ASSUME NEW s \in Strategies
  PROVE  /\ <<s, NoTrade>> \in OwnLots(s) /\ OwnLots(s) \ {<<s, NoTrade>>} = TradeLots(s)
         /\ IsFiniteSet(OwnLots(s)) /\ IsFiniteSet(TradeLots(s))
         /\ OwnLots(s) \in SUBSET Lots /\ TradeLots(s) \in SUBSET Lots
<1>1. OwnLots(s) \in SUBSET Lots /\ TradeLots(s) \in SUBSET Lots BY DEF OwnLots, TradeLots
<1>2. IsFiniteSet(OwnLots(s)) /\ IsFiniteSet(TradeLots(s)) BY <1>1, LotsFinite
<1>3. <<s, NoTrade>> \in OwnLots(s) BY LotPairs DEF OwnLots
<1>4. \A l \in Lots : l[1] = s => (l # <<s, NoTrade>> <=> l[2] # NoTrade)
  <2> SUFFICES ASSUME NEW l \in Lots, l[1] = s PROVE l # <<s, NoTrade>> <=> l[2] # NoTrade
    OBVIOUS
  <2>1. l = <<s, l[2]>> BY LotPairs
  <2> QED BY <2>1
<1>5. OwnLots(s) \ {<<s, NoTrade>>} = TradeLots(s) BY <1>4 DEF OwnLots, TradeLots
<1> QED BY <1>1, <1>2, <1>3, <1>5

LEMMA BooksAre ==
  ASSUME NEW o \in [Strategies -> Int], NEW v \in [Lots -> Int]
  PROVE  /\ Books(o, v) \in [Lots -> Int]
         /\ \A l \in Lots : l[2] # NoTrade => Books(o, v)[l] = v[l]
         /\ \A s \in Strategies : /\ Total(v, TradeLots(s)) \in Int
                                  /\ Books(o, v)[<<s, NoTrade>>] = o[s] - Total(v, TradeLots(s))
                                  /\ OwnerSum(Books(o, v), s) = o[s]
<1> DEFINE b == Books(o, v)
<1>1. ASSUME NEW s \in Strategies PROVE Total(v, TradeLots(s)) \in Int
  <2>1. \A l \in TradeLots(s) : v[l] \in Int BY OwnLotsSplit
  <2> QED BY <2>1, OwnLotsSplit, TotalSplit
<1>2. b = [l \in Lots |-> IF l[2] # NoTrade THEN v[l]
                          ELSE o[l[1]] - Total(v, TradeLots(l[1]))]
  BY DEF Books, Total, TradeLots
<1>3. b \in [Lots -> Int] BY <1>1, <1>2, LotPairs
<1>4. \A l \in Lots : l[2] # NoTrade => b[l] = v[l] BY <1>2
<1>5. \A s \in Strategies : b[<<s, NoTrade>>] = o[s] - Total(v, TradeLots(s))
  BY <1>2, LotPairs
<1> HIDE DEF b
<1>6. ASSUME NEW s \in Strategies PROVE OwnerSum(b, s) = o[s]
  <2> DEFINE l == <<s, NoTrade>>
             all == OwnLots(s)
  <2>1. \A m \in all : b[m] \in Int BY <1>3, OwnLotsSplit
  <2>2. IsFiniteSet(all) /\ l \in all BY OwnLotsSplit
  <2> HIDE DEF all, l
  <2>3. Total(b, all) = b[l] + Total(b, all \ {l}) BY <2>1, <2>2, TotalSplit
  <2>4. all \ {l} = TradeLots(s) BY OwnLotsSplit DEF all, l
  <2>5. \A m \in TradeLots(s) : b[m] = v[m] BY <1>4 DEF TradeLots
  <2>6. Total(b, TradeLots(s)) = Total(v, TradeLots(s)) BY <2>5, OwnLotsSplit, TotalSame
  <2>7. OwnerSum(b, s) = Total(b, all) BY <1>3, SumsAre DEF all
  <2>8. b[l] = o[s] - Total(v, TradeLots(s)) BY <1>5 DEF l
  <2>9. o[s] \in Int /\ Total(v, TradeLots(s)) \in Int BY <1>1
  <2> QED BY <2>3, <2>4, <2>6, <2>7, <2>8, <2>9
<1> QED BY <1>1, <1>3, <1>4, <1>5, <1>6 DEF b

(* A fill booked moves its lot, whichever of the two records it reaches.    *)
LEMMA BooksMove ==
  ASSUME NEW o \in [Strategies -> Int], NEW v \in [Lots -> Int], NEW l \in Lots, NEW q \in Int,
         NEW p \in [Strategies -> Int], p[l[1]] = o[l[1]] + q,
         \A s \in Strategies \ {l[1]} : p[s] = o[s],
         NEW w \in [Lots -> Int], \A m \in Lots \ {l} : w[m] = v[m],
         l[2] = NoTrade => w[l] = v[l], l[2] # NoTrade => w[l] = v[l] + q
  PROVE  Books(p, w) = Bumped(Books(o, v), l, q)
<1> DEFINE b == Books(o, v)
           c == Books(p, w)
<1>1. l[1] \in Strategies BY LotPairs
<1>2. ASSUME NEW s \in Strategies
      PROVE  Total(w, TradeLots(s)) = Total(v, TradeLots(s))
                                        + IF l \in TradeLots(s) THEN q ELSE 0
  <2> DEFINE T == TradeLots(s)
  <2>1. /\ IsFiniteSet(T) /\ \A m \in T : v[m] \in Int /\ w[m] \in Int
        /\ Total(v, T) \in Int
    BY <1>1, OwnLotsSplit, BooksAre
  <2>2. CASE l \in T
    <3>1. l[2] # NoTrade BY <2>2 DEF TradeLots
    <3>2. w[l] = v[l] + q /\ v[l] \in Int BY <1>1, <3>1
    <3>3. \A m \in T \ {l} : v[m] = w[m] BY <1>1, OwnLotsSplit
    <3> HIDE DEF T
    <3>4. Total(w, T) = Total(v, T) - v[l] + w[l] BY <2>1, <2>2, <3>3, TotalChange
    <3> QED BY <2>1, <2>2, <3>2, <3>4 DEF T
  <2>3. CASE l \notin T
    <3>1. \A m \in T : w[m] = v[m] BY <1>1, <2>3, OwnLotsSplit
    <3> HIDE DEF T
    <3>2. Total(w, T) = Total(v, T) BY <2>1, <3>1, TotalSame
    <3> QED BY <2>1, <2>3, <3>2 DEF T
  <2> QED BY <2>2, <2>3
<1>3. /\ b \in [Lots -> Int] /\ c \in [Lots -> Int]
      /\ \A m \in Lots : m[2] # NoTrade => b[m] = v[m] /\ c[m] = w[m]
      /\ \A s \in Strategies : /\ b[<<s, NoTrade>>] = o[s] - Total(v, TradeLots(s))
                               /\ c[<<s, NoTrade>>] = p[s] - Total(w, TradeLots(s))
                               /\ Total(v, TradeLots(s)) \in Int
  <2>1. /\ b \in [Lots -> Int] /\ \A m \in Lots : m[2] # NoTrade => b[m] = v[m]
        /\ \A s \in Strategies : /\ b[<<s, NoTrade>>] = o[s] - Total(v, TradeLots(s))
                                 /\ Total(v, TradeLots(s)) \in Int
    BY BooksAre
  <2>2. /\ c \in [Lots -> Int] /\ \A m \in Lots : m[2] # NoTrade => c[m] = w[m]
        /\ \A s \in Strategies : c[<<s, NoTrade>>] = p[s] - Total(w, TradeLots(s))
    BY <1>1, BooksAre
  <2> QED BY <2>1, <2>2
<1> HIDE DEF b, c
<1>4. ASSUME NEW m \in Lots PROVE c[m] = Bumped(b, l, q)[m]
  <2>1. Bumped(b, l, q)[m] = IF m = l THEN b[m] + q ELSE b[m] BY <1>3 DEF Bumped
  <2>2. CASE m[2] # NoTrade
    BY <1>1, <1>3, <2>1, <2>2
  <2>3. CASE m[2] = NoTrade
    <3>1. PICK s \in Strategies : m = <<s, NoTrade>> BY <2>3, LotPairs
    <3>2. b[m] = o[s] - Total(v, TradeLots(s)) /\ c[m] = p[s] - Total(w, TradeLots(s))
          /\ Total(v, TradeLots(s)) \in Int /\ o[s] \in Int
      BY <1>3, <3>1
    <3>3. l \in TradeLots(s) <=> l[1] = s /\ l[2] # NoTrade BY DEF TradeLots
    <3>4. l = m <=> l[1] = s /\ l[2] = NoTrade BY <3>1, LotPairs
    <3>5. CASE l[1] # s BY <1>1, <1>2, <2>1, <3>2, <3>3, <3>4, <3>5
    <3>6. CASE l[1] = s /\ l[2] = NoTrade BY <1>1, <1>2, <2>1, <3>2, <3>3, <3>4, <3>6
    <3>7. CASE l[1] = s /\ l[2] # NoTrade
      <4>1. Total(w, TradeLots(s)) = Total(v, TradeLots(s)) + q BY <1>2, <3>3, <3>7
      <4>2. p[s] = o[s] + q BY <1>1, <3>7
      <4> QED BY <2>1, <3>2, <3>4, <3>7, <4>1, <4>2
    <3> QED BY <3>5, <3>6, <3>7
  <2> QED BY <2>2, <2>3
<1>5. Bumped(b, l, q) \in [Lots -> Int] BY <1>3 DEF Bumped
<1>6. c = Bumped(b, l, q) BY <1>3, <1>4, <1>5
<1> QED BY <1>6 DEF b, c

NoneUntraded(v) == \A s \in Strategies : v[<<s, NoTrade>>] = 0

(* The file keeps all but what a strategy holds beside its lots.            *)
LEMMA SavedAre ==
  ASSUME NEW o \in [Strategies -> Int], NEW v \in [Lots -> Int], NoneUntraded(v)
  PROVE  /\ Saved(o, v) \in [Lots -> Int]
         /\ \A l \in Lots : l[2] # NoTrade \/ l[1] \notin Unsaved(o, v)
                              => Saved(o, v)[l] = Books(o, v)[l]
<1> DEFINE b == Books(o, v)
           f == Saved(o, v)
<1>1. f = [l \in Lots |-> IF l[2] # NoTrade THEN v[l]
                          ELSE IF \E m \in Lots : m[1] = l[1] /\ v[m] # 0 THEN 0 ELSE o[l[1]]]
  BY DEF Saved
<1>2. f \in [Lots -> Int] BY <1>1, LotPairs
<1> SUFFICES ASSUME NEW l \in Lots, l[2] # NoTrade \/ l[1] \notin Unsaved(o, v)
             PROVE  f[l] = b[l]
  BY <1>2
<1>3. CASE l[2] # NoTrade BY <1>1, <1>3, BooksAre
<1>4. CASE l[2] = NoTrade /\ l[1] \notin Unsaved(o, v)
  <2>1. PICK s \in Strategies : l = <<s, NoTrade>> BY <1>4, LotPairs
  <2>2. b[l] = o[s] - Total(v, TradeLots(s)) BY <2>1, BooksAre
  <2>3. CASE \E m \in Lots : m[1] = s /\ v[m] # 0
    <3>1. PICK m \in Lots : m[1] = s /\ v[m] # 0 BY <2>3
    <3>2. m[2] # NoTrade BY <3>1, LotPairs DEF NoneUntraded
    <3>3. l[1] = s BY <2>1
    <3>4. ~(b[<<s, NoTrade>>] # 0)
      <4>1. s \notin Unsaved(o, v) BY <1>4, <3>3
      <4> QED BY <3>1, <3>2, <4>1 DEF Unsaved
    <3>5. f[l] = 0 BY <1>1, <1>4, <3>1, <3>3
    <3> QED BY <2>1, <3>4, <3>5
  <2>4. CASE ~ \E m \in Lots : m[1] = s /\ v[m] # 0
    <3>1. \A m \in TradeLots(s) : v[m] = 0 BY <2>4 DEF TradeLots
    <3>2. Total(v, TradeLots(s)) = 0 BY <3>1, OwnLotsSplit, TotalZero
    <3>3. l[1] = s BY <2>1
    <3>4. f[l] = o[s] BY <1>1, <1>4, <2>4, <3>3
    <3> QED BY <2>2, <3>2, <3>4
  <2> QED BY <2>3, <2>4
<1> QED BY <1>3, <1>4

LEMMA PersistNear ==
  ASSUME NEW o \in [Strategies -> Int], NEW v \in [Lots -> Int], NoneUntraded(v),
         NEW gap, NEW t, NEW positions, Near(Books(o, v), gap, t, positions)
  PROVE  /\ Cardinality(Unsaved(o, v)) \in Nat
         /\ Near(Saved(o, v), gap + Cardinality(Unsaved(o, v)), t, positions)
<1> DEFINE b == Books(o, v)
           f == Saved(o, v)
           U == Unsaved(o, v)
           n == Cardinality(U)
<1>1. U \in SUBSET Strategies BY DEF Unsaved
<1>2. IsFiniteSet(U) /\ n \in Nat BY <1>1, GateConstants, FS_Subset, FS_CardinalityType
<1>3. /\ f \in [Lots -> Int] /\ b \in [Lots -> Int]
      /\ \A l \in Lots : l[2] # NoTrade \/ l[1] \notin U => f[l] = b[l]
  BY SavedAre, BooksAre
<1>4. gap \in Nat BY DEF Near
<1>5. n = 0 <=> U = {} BY <1>2, FS_EmptySet
<1>6. n = 1 <=> \E s : U = {s} BY <1>2, FS_Singleton
<1> HIDE DEF b, f, U, n
<1>7. CASE n = 0
  <2>1. \A l \in Lots : f[l] = b[l] BY <1>3, <1>5, <1>7
  <2>2. f = b BY <1>3, <2>1
  <2>3. gap + n = gap BY <1>4, <1>7
  <2> QED BY <1>2, <2>2, <2>3 DEF b, f, U, n
<1>8. CASE n = 1 /\ gap = 0
  <2>1. PICK s : U = {s} BY <1>6, <1>8
  <2>2. s \in Strategies /\ <<s, NoTrade>> \in Lots BY <1>1, <2>1, LotPairs DEF U
  <2>3. \A l \in Lots \ {<<s, NoTrade>>} : l[2] # NoTrade \/ l[1] \notin U BY <2>1, LotPairs
  <2>4. b = t /\ Explains(t, positions) BY <1>8 DEF Near, b
  <2>5. \A l \in Lots \ {<<s, NoTrade>>} : f[l] = t[l] BY <1>3, <2>3, <2>4
  <2>6. gap + n = 1 BY <1>8
  <2>7. Near(f, gap + n, t, positions) BY <2>2, <2>4, <2>5, <2>6 DEF Near
  <2> QED BY <1>2, <2>7 DEF f, U, n
<1>9. CASE gap + n > 1
  <2>1. Near(f, gap + n, t, positions) BY <1>2, <1>4, <1>9, FarIsNear
  <2> QED BY <1>2, <2>1 DEF f, U, n
<1> QED BY <1>2, <1>4, <1>7, <1>8, <1>9

-----------------------------------------------------------------------------
(* What allocations say.                                                    *)

LotOf(a) == <<a.strategy, a.trade>>
SignedOf(allocs) == [k \in DOMAIN allocs |-> Signed(allocs[k])]
QuantityOf(allocs) == [k \in DOMAIN allocs |-> allocs[k].quantity]

LEMMA AllocsTyped ==
  ASSUME NEW allocs \in Seq(Allocation(Sources))
  PROVE  /\ DOMAIN allocs = 1..Len(allocs) /\ Len(allocs) \in Nat
         /\ \A K \in SUBSET DOMAIN allocs : IsFiniteSet(K)
         /\ \A k \in DOMAIN allocs :
              /\ allocs[k] \in Allocation(Sources) /\ allocs[k].strategy \in Strategies
              /\ LotOf(allocs[k]) \in Lots
              /\ LotOf(allocs[k])[1] = allocs[k].strategy
              /\ LotOf(allocs[k])[2] = allocs[k].trade
              /\ allocs[k].quantity \in Int /\ Signed(allocs[k]) \in Int
<1>1. /\ DOMAIN allocs = 1..Len(allocs) /\ Len(allocs) \in Nat
      /\ \A k \in DOMAIN allocs : allocs[k] \in Allocation(Sources)
  OBVIOUS
<1>2. IsFiniteSet(DOMAIN allocs) BY <1>1, FS_Interval
<1>3. \A K \in SUBSET DOMAIN allocs : IsFiniteSet(K) BY <1>2, FS_Subset
<1>4. \A a \in Allocation(Sources) : /\ a.strategy \in Strategies /\ LotOf(a) \in Lots
                                     /\ LotOf(a)[1] = a.strategy /\ LotOf(a)[2] = a.trade
                                     /\ a.quantity \in Int /\ Signed(a) \in Int
  BY DEF Allocation, LotOf, Signed
<1> QED BY <1>1, <1>3, <1>4

LEMMA MaxIn ==
  ASSUME NEW n \in Nat, NEW S \in SUBSET (1..n), S # {}
  PROVE  Max(S) \in S
<1> DEFINE R == OpToRel(<, Nat)
           back == {m \in Nat : m <= n /\ n - m \in S}
<1>1. PICK k \in S : TRUE OBVIOUS
<1>2. k \in Nat /\ k <= n BY <1>1
<1>3. n - k \in Nat /\ n - (n - k) = k /\ n - k <= n BY <1>2
<1>4. n - k \in back BY <1>1, <1>3
<1>5. PICK m \in back : \A j \in back : ~ (<<j, m>> \in R)
  <2>1. IsWellFoundedOn(R, Nat) BY NatLessThanWellFounded
  <2>2. back \in SUBSET Nat /\ back # {} BY <1>4
  <2> HIDE DEF back, R
  <2> QED BY <2>1, <2>2, WFMin
<1>6. m \in Nat /\ m <= n /\ n - m \in S BY <1>5
<1>7. \A x \in S : x \in Nat /\ x <= n OBVIOUS
<1>8. \A x \in S : n - m >= x
  <2> SUFFICES ASSUME NEW x \in S, x > n - m PROVE FALSE BY <1>6, <1>7
  <2>1. x \in Nat /\ x <= n BY <1>7
  <2>2. n - x \in Nat /\ n - (n - x) = x /\ n - x <= n /\ n - x < m BY <1>6, <2>1
  <2>3. n - x \in back BY <2>2
  <2>4. <<n - x, m>> \in R BY <1>5, <2>2 DEF OpToRel
  <2> QED BY <1>5, <2>3, <2>4
<1> QED BY <1>8, <1>6 DEF Max

LEMMA LastForIs ==
  ASSUME NEW allocs \in Seq(Allocation(Sources)), NEW l
  PROVE  \/ LastFor(allocs, l) = 0 /\ \A k \in DOMAIN allocs : LotOf(allocs[k]) # l
         \/ LastFor(allocs, l) \in DOMAIN allocs /\ LotOf(allocs[LastFor(allocs, l)]) = l
<1> DEFINE of == {k \in DOMAIN allocs : LotOf(allocs[k]) = l}
<1>1. LastFor(allocs, l) = IF of = {} THEN 0 ELSE Max(of) BY DEF LastFor, LotOf
<1>2. of \in SUBSET (1..Len(allocs)) /\ Len(allocs) \in Nat BY AllocsTyped
<1>3. CASE of = {} BY <1>1, <1>3
<1>4. CASE of # {}
  <2>1. Max(of) \in of
    <3> HIDE DEF of
    <3> QED BY <1>2, <1>4, MaxIn
  <2> QED BY <1>1, <1>4, <2>1
<1> QED BY <1>3, <1>4

LEMMA LastNotZero ==
  ASSUME NEW allocs \in Seq(Allocation(Sources)), NEW k \in DOMAIN allocs PROVE k # 0
BY AllocsTyped

LEMMA SaidTyped ==
  ASSUME NEW allocs \in Seq(Allocation(Sources))
  PROVE  /\ Said(allocs) \in [Lots -> Int] /\ AdoptedLots(allocs) \in [Lots -> Int]
         /\ NoneUntraded(AdoptedLots(allocs))
         /\ \A l \in Lots : l[2] # NoTrade => AdoptedLots(allocs)[l] = Said(allocs)[l]
<1>1. ASSUME NEW l \in Lots PROVE Said(allocs)[l] \in Int
  <2>1. CASE LastFor(allocs, l) = 0 BY <2>1 DEF Said
  <2>2. CASE LastFor(allocs, l) \in DOMAIN allocs BY <2>2, AllocsTyped, LastNotZero DEF Said
  <2> QED BY <2>1, <2>2, LastForIs
<1>2. Said(allocs) \in [Lots -> Int] BY <1>1 DEF Said
<1> QED BY <1>2, LotPairs DEF AdoptedLots, NoneUntraded

LEMMA RecordedTyped ==
  ASSUME NEW allocs \in Seq(Allocation(Sources)), NEW failed, file \in [Lots -> Int]
  PROVE  Recorded(allocs, failed) \in [Lots -> Int]
<1>1. ASSUME NEW l \in Lots PROVE Recorded(allocs, failed)[l] \in Int
  <2>1. CASE LastFor(allocs, l) = 0 BY <2>1 DEF Recorded
  <2>2. CASE LastFor(allocs, l) \in DOMAIN allocs BY <2>2, AllocsTyped DEF Recorded
  <2> QED BY <2>1, <2>2, LastForIs
<1> QED BY <1>1 DEF Recorded

(* Of a lot named once the allocation says all.                             *)
LEMMA SaidOnce ==
  ASSUME NEW allocs \in Seq(Allocation(Sources)), ~NamedTwice(allocs)
  PROVE  /\ \A k \in DOMAIN allocs : Said(allocs)[LotOf(allocs[k])] = Signed(allocs[k])
         /\ \A j, k \in DOMAIN allocs : LotOf(allocs[j]) = LotOf(allocs[k]) => j = k
         /\ \A l \in Lots : (\A k \in DOMAIN allocs : LotOf(allocs[k]) # l)
                              => Said(allocs)[l] = 0
<1>1. \A j, k \in DOMAIN allocs : LotOf(allocs[j]) = LotOf(allocs[k]) => j = k
  BY DEF NamedTwice, LotOf
<1>2. ASSUME NEW k \in DOMAIN allocs PROVE Said(allocs)[LotOf(allocs[k])] = Signed(allocs[k])
  <2> DEFINE l == LotOf(allocs[k])
  <2>1. l \in Lots /\ k # 0 BY AllocsTyped, LastNotZero
  <2>2. LastFor(allocs, l) = k BY <1>1, LastForIs
  <2> QED BY <2>1, <2>2 DEF Said
<1>3. ASSUME NEW l \in Lots, \A k \in DOMAIN allocs : LotOf(allocs[k]) # l
      PROVE  Said(allocs)[l] = 0
  <2>1. LastFor(allocs, l) = 0 BY <1>3, LastForIs
  <2> QED BY <2>1 DEF Said
<1> QED BY <1>1, <1>2, <1>3

(* A function that adds up a finite set by the values of f is its fold.     *)
LEMMA FoldIsTotal ==
  ASSUME NEW f, NEW S, IsFiniteSet(S), NEW c, Adds(c, f, S)
  PROVE  c[S] = Total(f, S)
BY TotalPart

LEMMA SignedSum ==
  ASSUME NEW allocs \in Seq(Allocation(Sources)), NEW K \in SUBSET DOMAIN allocs
  PROVE  MapThenSumSet(LAMBDA k : Signed(allocs[k]), K) = Total(SignedOf(allocs), K)
<1> DEFINE f == SignedOf(allocs)
           Sum(h) == [T \in SUBSET K |-> IF T = {} THEN 0
                        ELSE LET x == CHOOSE x \in T : TRUE IN Signed(allocs[x]) + h[T \ {x}]]
           Folded(h) == [T \in SUBSET K |-> IF T = {} THEN 0
                        ELSE LET x == CHOOSE x \in T : TRUE IN f[x] + h[T \ {x}]]
           c == CHOOSE h : h = Sum(h)
<1>1. IsFiniteSet(K) BY AllocsTyped
<1>2. ASSUME NEW h PROVE Sum(h) = Folded(h)
  <2>1. ASSUME NEW T \in SUBSET K PROVE Sum(h)[T] = Folded(h)[T]
    <3>1. CASE T = {} BY <3>1
    <3>2. CASE T # {}
      <4> DEFINE x == CHOOSE x \in T : TRUE
      <4>1. x \in DOMAIN allocs BY <3>2
      <4>2. f[x] = Signed(allocs[x]) BY <4>1 DEF SignedOf
      <4> QED BY <3>2, <4>2
    <3> QED BY <3>1, <3>2
  <2> DEFINE a == Sum(h)  b == Folded(h)
  <2>2. a = [T \in SUBSET K |-> a[T]] /\ b = [T \in SUBSET K |-> b[T]] OBVIOUS
  <2>3. a = b
    <3>1. \A T \in SUBSET K : a[T] = b[T] BY <2>1
    <3> HIDE DEF a, b
    <3> QED BY <2>2, <3>1, SameFunction
  <2> QED BY <2>3
<1>3. PICK g : Adds(g, f, K) BY <1>1, AddsExists
<1>4. g = Sum(g)
  <2>1. g = Folded(g) BY <1>3 DEF Adds
  <2>2. Sum(g) = Folded(g) BY <1>2
  <2> HIDE DEF Sum, Folded
  <2> QED BY <2>1, <2>2
<1>5. c = Sum(c) BY <1>4
<1>6. Adds(c, f, K)
  <2>1. c = Folded(c)
    <3>1. Sum(c) = Folded(c) BY <1>2
    <3> HIDE DEF Sum, Folded, c
    <3> QED BY <1>5, <3>1
  <2> HIDE DEF c
  <2> QED BY <2>1 DEF Adds
<1>7. c[K] = Total(f, K)
  <2> HIDE DEF c, f
  <2> QED BY <1>1, <1>6, FoldIsTotal
<1>8. MapThenSumSet(LAMBDA k : Signed(allocs[k]), K) = c[K]
  BY DEF MapThenSumSet, MapThenFoldSet
<1> QED BY <1>7, <1>8

LEMMA QuantitySum ==
  ASSUME NEW allocs \in Seq(Allocation(Sources)), NEW K \in SUBSET DOMAIN allocs
  PROVE  MapThenSumSet(LAMBDA k : allocs[k].quantity, K) = Total(QuantityOf(allocs), K)
<1> DEFINE f == QuantityOf(allocs)
           Sum(h) == [T \in SUBSET K |-> IF T = {} THEN 0
                        ELSE LET x == CHOOSE x \in T : TRUE IN allocs[x].quantity + h[T \ {x}]]
           Folded(h) == [T \in SUBSET K |-> IF T = {} THEN 0
                        ELSE LET x == CHOOSE x \in T : TRUE IN f[x] + h[T \ {x}]]
           c == CHOOSE h : h = Sum(h)
<1>1. IsFiniteSet(K) BY AllocsTyped
<1>2. ASSUME NEW h PROVE Sum(h) = Folded(h)
  <2>1. ASSUME NEW T \in SUBSET K PROVE Sum(h)[T] = Folded(h)[T]
    <3>1. CASE T = {} BY <3>1
    <3>2. CASE T # {}
      <4> DEFINE x == CHOOSE x \in T : TRUE
      <4>1. x \in DOMAIN allocs BY <3>2
      <4>2. f[x] = allocs[x].quantity BY <4>1 DEF QuantityOf
      <4> QED BY <3>2, <4>2
    <3> QED BY <3>1, <3>2
  <2> DEFINE a == Sum(h)  b == Folded(h)
  <2>2. a = [T \in SUBSET K |-> a[T]] /\ b = [T \in SUBSET K |-> b[T]] OBVIOUS
  <2>3. a = b
    <3>1. \A T \in SUBSET K : a[T] = b[T] BY <2>1
    <3> HIDE DEF a, b
    <3> QED BY <2>2, <3>1, SameFunction
  <2> QED BY <2>3
<1>3. PICK g : Adds(g, f, K) BY <1>1, AddsExists
<1>4. g = Sum(g)
  <2>1. g = Folded(g) BY <1>3 DEF Adds
  <2>2. Sum(g) = Folded(g) BY <1>2
  <2> HIDE DEF Sum, Folded
  <2> QED BY <2>1, <2>2
<1>5. c = Sum(c) BY <1>4
<1>6. Adds(c, f, K)
  <2>1. c = Folded(c)
    <3>1. Sum(c) = Folded(c) BY <1>2
    <3> HIDE DEF Sum, Folded, c
    <3> QED BY <1>5, <3>1
  <2> HIDE DEF c
  <2> QED BY <2>1 DEF Adds
<1>7. c[K] = Total(f, K)
  <2> HIDE DEF c, f
  <2> QED BY <1>1, <1>6, FoldIsTotal
<1>8. MapThenSumSet(LAMBDA k : allocs[k].quantity, K) = c[K]
  BY DEF MapThenSumSet, MapThenFoldSet
<1> QED BY <1>7, <1>8

(* The aggregate a strategy adopts is the sum of what it is told.           *)
LEMMA OwnedTyped ==
  ASSUME NEW allocs \in Seq(Allocation(Sources))
  PROVE  /\ OwnedBy(allocs) \in [Strategies -> Int]
         /\ \A s \in Strategies :
              OwnedBy(allocs)[s]
                = Total(SignedOf(allocs), {k \in DOMAIN allocs : allocs[k].strategy = s})
<1>1. ASSUME NEW s \in Strategies
      PROVE  LET K == {k \in DOMAIN allocs : allocs[k].strategy = s}
             IN  OwnedBy(allocs)[s] = Total(SignedOf(allocs), K) /\ OwnedBy(allocs)[s] \in Int
  <2> DEFINE K == {k \in DOMAIN allocs : allocs[k].strategy = s}
  <2>1. K \in SUBSET DOMAIN allocs /\ IsFiniteSet(K) BY AllocsTyped
  <2>2. OwnedBy(allocs)[s] = MapThenSumSet(LAMBDA k : Signed(allocs[k]), K) BY DEF OwnedBy
  <2>3. \A k \in K : SignedOf(allocs)[k] \in Int BY AllocsTyped DEF SignedOf
  <2> HIDE DEF K
  <2>4. OwnedBy(allocs)[s] = Total(SignedOf(allocs), K) BY <2>1, <2>2, SignedSum
  <2>5. Total(SignedOf(allocs), K) \in Int BY <2>1, <2>3, TotalSplit
  <2> QED BY <2>4, <2>5 DEF K
<1>2. OwnedBy(allocs) = [s \in Strategies |-> OwnedBy(allocs)[s]] BY DEF OwnedBy
<1> QED BY <1>1, <1>2

LEMMA BooksSaid ==
  ASSUME NEW allocs \in Seq(Allocation(Sources)), ~NamedTwice(allocs)
  PROVE  Books(OwnedBy(allocs), AdoptedLots(allocs)) = Said(allocs)
<1> DEFINE o == OwnedBy(allocs)
           v == AdoptedLots(allocs)
           said == Said(allocs)
           b == Books(o, v)
           f == SignedOf(allocs)
<1>1. o \in [Strategies -> Int] /\ v \in [Lots -> Int] /\ said \in [Lots -> Int]
  BY OwnedTyped, SaidTyped
<1>2. /\ b \in [Lots -> Int] /\ \A l \in Lots : l[2] # NoTrade => b[l] = v[l]
      /\ \A s \in Strategies : b[<<s, NoTrade>>] = o[s] - Total(v, TradeLots(s))
  <2> HIDE DEF o, v
  <2> QED BY <1>1, BooksAre
<1>3. ASSUME NEW s \in Strategies PROVE b[<<s, NoTrade>>] = said[<<s, NoTrade>>]
  <2> DEFINE K == {k \in DOMAIN allocs : allocs[k].strategy = s}
             L == OwnLots(s)
             place == [k \in DOMAIN allocs |-> LotOf(allocs[k])]
  <2>1. o[s] = Total(f, K) BY OwnedTyped
  <2>2. /\ IsFiniteSet(K) /\ IsFiniteSet(L)
        /\ \A k \in K : place[k] \in L /\ f[k] \in Int /\ said[place[k]] = f[k]
    BY AllocsTyped, SaidOnce, OwnLotsSplit DEF OwnLots, SignedOf
  <2>3. \A j, k \in K : place[j] = place[k] => j = k BY SaidOnce
  <2>4. \A l \in L : (\A k \in K : place[k] # l) => said[l] = 0
    <3> SUFFICES ASSUME NEW l \in L, \A k \in K : place[k] # l PROVE said[l] = 0 OBVIOUS
    <3>1. l \in Lots /\ l[1] = s BY DEF OwnLots
    <3>2. \A k \in DOMAIN allocs : LotOf(allocs[k]) # l BY <3>1, AllocsTyped
    <3> QED BY <3>1, <3>2, SaidOnce
  <2>5. Total(f, K) = Total(said, L)
    <3> HIDE DEF f, K, said, L, place
    <3> QED BY <2>2, <2>3, <2>4, TotalMoved
  <2>6. Total(said, L) = said[<<s, NoTrade>>] + Total(said, TradeLots(s))
    <3>1. \A l \in L : said[l] \in Int BY <1>1, OwnLotsSplit
    <3>2. <<s, NoTrade>> \in L /\ L \ {<<s, NoTrade>>} = TradeLots(s) BY OwnLotsSplit
    <3> HIDE DEF said, L
    <3>3. Total(said, L) = said[<<s, NoTrade>>] + Total(said, L \ {<<s, NoTrade>>})
      BY <2>2, <3>1, <3>2, TotalSplit
    <3> QED BY <3>2, <3>3
  <2>7. Total(v, TradeLots(s)) = Total(said, TradeLots(s))
    <3>1. \A l \in TradeLots(s) : v[l] = said[l] BY SaidTyped DEF TradeLots
    <3> HIDE DEF v, said
    <3> QED BY <3>1, OwnLotsSplit, TotalSame
  <2>8. said[<<s, NoTrade>>] \in Int /\ Total(said, TradeLots(s)) \in Int
    BY <1>1, BooksAre, LotPairs, OwnedTyped
  <2>9. b[<<s, NoTrade>>] = o[s] - Total(v, TradeLots(s)) BY <1>2
  <2> HIDE DEF b, o, v, said, f, K, L
  <2> QED BY <2>1, <2>5, <2>6, <2>7, <2>8, <2>9
<1>4. ASSUME NEW l \in Lots PROVE b[l] = said[l]
  <2>1. CASE l[2] # NoTrade BY <1>2, <2>1, SaidTyped
  <2>2. CASE l[2] = NoTrade
    <3>1. PICK s \in Strategies : l = <<s, NoTrade>> BY <2>2, LotPairs
    <3> QED BY <1>3, <3>1
  <2> QED BY <2>1, <2>2
<1> HIDE DEF b, said
<1>5. b = said BY <1>1, <1>2, <1>4
<1> QED BY <1>5 DEF b, said

-----------------------------------------------------------------------------
(* What a file proposes, and what it restores.                              *)

FileTyped == file \in [Lots -> Int] /\ store \in {"state", "ledger"}
PositionsTyped == gate.positions \in [Instruments -> Int]
FileSources == {"strategy_state", "ownership_ledger"}
StoredLots == {l \in Lots : file[l] # 0 /\ Relevant(gate.positions, StoredAllocation(l))}

LEMMA StoredAllocationIs ==
  ASSUME FileTyped, NEW l \in Lots
  PROVE  /\ StoredAllocation(l) \in Allocation(FileSources)
         /\ LotOf(StoredAllocation(l)) = l
         /\ StoredAllocation(l).position = <<Executes[l[1]], SideOf(file[l])>>
         /\ StoredAllocation(l).quantity = Magnitude(file[l])
         /\ StoredAllocation(l).source \in FileSources
<1>1. /\ l = <<l[1], l[2]>> /\ l[1] \in Strategies /\ l[2] \in Trades \cup {NoTrade}
      /\ Executes[l[1]] \in Instruments /\ file[l] \in Int
  BY LotPairs DEF FileTyped
<1>2. Magnitude(file[l]) \in Int /\ SideOf(file[l]) \in {"long", "short"}
  BY <1>1 DEF Magnitude, SideOf
<1>3. (IF store = "state" THEN "strategy_state" ELSE "ownership_ledger") \in FileSources
  BY DEF FileSources
<1>4. <<Executes[l[1]], SideOf(file[l])>> \in Instruments \X {"long", "short"} BY <1>1, <1>2
<1> QED BY <1>1, <1>2, <1>3, <1>4 DEF StoredAllocation, Allocation, LotOf

LEMMA SequenceOfSet ==
  ASSUME NEW S, IsFiniteSet(S)
  PROVE  /\ SetToSeq(S) \in Seq(S)
         /\ \A j, k \in DOMAIN SetToSeq(S) : SetToSeq(S)[j] = SetToSeq(S)[k] => j = k
         /\ \A x \in S : \E k \in DOMAIN SetToSeq(S) : SetToSeq(S)[k] = x
<1> DEFINE n == Cardinality(S)
           q == SetToSeq(S)
<1>1. n \in Nat /\ ExistsBijection(1..n, S) BY FS_CardinalityType
<1>2. \E f \in [1..n -> S] : IsInjective(f) BY <1>1 DEF ExistsBijection, Bijection, Injection
<1>3. q \in [1..n -> S] /\ IsInjective(q) BY <1>2 DEF SetToSeq
<1>4. q \in Injection(1..n, S) BY <1>3 DEF Injection
<1>5. IsFiniteSet(1..n) /\ Cardinality(1..n) = n
  <2>1. 1 \in Int /\ n \in Int BY <1>1
  <2>2. Cardinality(1..n) = IF 1 > n THEN 0 ELSE n - 1 + 1 BY <2>1, FS_Interval
  <2> HIDE DEF n
  <2> QED BY <1>1, <2>1, <2>2, FS_Interval
<1>6. q \in Surjection(1..n, S)
  <2>1. Cardinality(1..n) = Cardinality(S) BY <1>5
  <2> QED BY <1>4, <2>1, FS_Injection
<1>7. DOMAIN q = 1..n /\ q \in Seq(S) BY <1>1, <1>3
<1> QED BY <1>3, <1>6, <1>7 DEF IsInjective, Surjection

LEMMA StoredAre ==
  ASSUME FileTyped
  PROVE  /\ Stored \in Seq(Allocation(FileSources)) /\ Stored \in Seq(Allocation(Sources))
         /\ \A k \in DOMAIN Stored : \E l \in StoredLots : Stored[k] = StoredAllocation(l)
         /\ \A l \in StoredLots : \E k \in DOMAIN Stored : Stored[k] = StoredAllocation(l)
         /\ ~NamedTwice(Stored)
<1> DEFINE of == [l \in StoredLots |-> StoredAllocation(l)]
           all == {StoredAllocation(l) : l \in StoredLots}
           q == SetToSeq(all)
<1>1. Stored = q
  <2>1. {a \in {StoredAllocation(l) : l \in {m \in Lots : file[m] # 0}} :
            Relevant(gate.positions, a)} = all
    BY DEF StoredLots
  <2> QED BY <2>1 DEF Stored
<1>2. IsFiniteSet(all)
  <2>1. of \in Surjection(StoredLots, all) BY DEF Surjection
  <2>2. StoredLots \in SUBSET Lots BY DEF StoredLots
  <2>3. IsFiniteSet(StoredLots) BY <2>2, LotsFinite
  <2> HIDE DEF of, all
  <2> QED BY <2>1, <2>3, FS_Surjection
<1>3. /\ q \in Seq(all) /\ \A j, k \in DOMAIN q : q[j] = q[k] => j = k
      /\ \A a \in all : \E k \in DOMAIN q : q[k] = a
  <2> HIDE DEF all
  <2> QED BY <1>2, SequenceOfSet
<1>4. all \subseteq Allocation(FileSources) BY StoredAllocationIs DEF StoredLots
<1>5. Allocation(FileSources) \subseteq Allocation(Sources)
  BY DEF Allocation, FileSources, Sources
<1>6. \A k \in DOMAIN q : q[k] \in all
  <2> HIDE DEF all
  <2> QED BY <1>3
<1>7. \A k \in DOMAIN q : \E l \in StoredLots : q[k] = StoredAllocation(l) BY <1>6
<1>8. \A l \in StoredLots : StoredAllocation(l) \in all OBVIOUS
<1>9. q \in Seq(Allocation(FileSources)) /\ q \in Seq(Allocation(Sources))
  <2> HIDE DEF all, q
  <2>1. q \in Seq(Allocation(FileSources)) BY <1>3, <1>4, WiderSeq
  <2> QED BY <1>5, <2>1, WiderSeq
<1>10. ~NamedTwice(q)
  <2> SUFFICES ASSUME NEW j \in DOMAIN q, NEW k \in DOMAIN q, LotOf(q[j]) = LotOf(q[k])
               PROVE  j = k
    BY DEF NamedTwice, LotOf
  <2>1. PICK l \in StoredLots : q[j] = StoredAllocation(l) BY <1>7
  <2>2. PICK m \in StoredLots : q[k] = StoredAllocation(m) BY <1>7
  <2>3. l \in Lots /\ m \in Lots BY DEF StoredLots
  <2>4. l = m BY <2>1, <2>2, <2>3, StoredAllocationIs
  <2>5. q[j] = q[k] BY <2>1, <2>2, <2>4
  <2> QED BY <1>3, <2>5
<1> HIDE DEF q, all
<1> QED BY <1>1, <1>3, <1>7, <1>8, <1>9, <1>10

LEMMA OnItsSide ==
  ASSUME PositionsTyped, FileTyped, NEW l \in Lots, file[l] # 0
  PROVE  LET i == Executes[l[1]] IN
         /\ l \in StoredLots <=> /\ i \in Held(gate.positions)
                                 /\ SideOf(file[l]) = SideOf(gate.positions[i])
         /\ l \in StoredLots => Signed(StoredAllocation(l)) = file[l]
<1> DEFINE i == Executes[l[1]]
           P == gate.positions
<1>1. l[1] \in Strategies /\ i \in Instruments /\ P[i] \in Int /\ file[l] \in Int
  BY LotPairs DEF PositionsTyped, FileTyped
<1>2. i \in Held(P) <=> i \in Required(P) BY <1>1 DEF Required, Matching, Held
<1>3. l \in StoredLots <=> <<i, SideOf(file[l])>> \in RequiredIds(P)
  BY StoredAllocationIs DEF StoredLots, Relevant
<1>4. <<i, SideOf(file[l])>> \in RequiredIds(P)
        <=> i \in Required(P) /\ SideOf(file[l]) = SideOf(P[i])
  BY DEF RequiredIds, PositionId
<1>5. ASSUME l \in StoredLots PROVE Signed(StoredAllocation(l)) = file[l]
  <2>1. SideOf(file[l]) = SideOf(P[i]) BY <1>3, <1>4, <1>5
  <2>2. P[i] > 0 <=> file[l] > 0 BY <2>1 DEF SideOf
  <2>3. Signed(StoredAllocation(l)) = IF P[i] > 0 THEN Magnitude(file[l]) ELSE -Magnitude(file[l])
    BY StoredAllocationIs DEF Signed
  <2> QED BY <1>1, <2>2, <2>3 DEF Magnitude
<1> QED BY <1>2, <1>3, <1>4, <1>5

LEMMA SaidStored ==
  ASSUME PositionsTyped, FileTyped, NEW l \in Lots
  PROVE  Said(Stored)[l] = IF l \in StoredLots THEN file[l] ELSE 0
<1>1. Stored \in Seq(Allocation(Sources)) /\ ~NamedTwice(Stored) BY StoredAre
<1>2. CASE l \in StoredLots
  <2>1. PICK k \in DOMAIN Stored : Stored[k] = StoredAllocation(l) BY <1>2, StoredAre
  <2>2. LotOf(Stored[k]) = l BY <2>1, StoredAllocationIs
  <2>3. Said(Stored)[l] = Signed(Stored[k]) BY <1>1, <2>2, SaidOnce
  <2>4. file[l] # 0 BY <1>2 DEF StoredLots
  <2> QED BY <1>2, <2>1, <2>3, <2>4, OnItsSide
<1>3. CASE l \notin StoredLots
  <2>1. ASSUME NEW k \in DOMAIN Stored PROVE LotOf(Stored[k]) # l
    <3>1. PICK m \in StoredLots : Stored[k] = StoredAllocation(m) BY StoredAre
    <3>2. m \in Lots BY DEF StoredLots
    <3> QED BY <1>3, <3>1, <3>2, StoredAllocationIs
  <2> QED BY <1>1, <1>3, <2>1, SaidOnce
<1> QED BY <1>2, <1>3

(* Recording what the file said changes nothing in it.                      *)
LEMMA RecordedStored ==
  ASSUME PositionsTyped, FileTyped, NEW failed PROVE Recorded(Stored, failed) = file
<1>1. Stored \in Seq(Allocation(Sources)) /\ ~NamedTwice(Stored) BY StoredAre
<1>2. ASSUME NEW l \in Lots, LastFor(Stored, l) # 0
      PROVE  Signed(Stored[LastFor(Stored, l)]) = file[l]
  <2> DEFINE k == LastFor(Stored, l)
  <2>1. k \in DOMAIN Stored /\ LotOf(Stored[k]) = l BY <1>1, <1>2, LastForIs
  <2>2. PICK m \in StoredLots : Stored[k] = StoredAllocation(m) BY <2>1, StoredAre
  <2>3. m \in Lots /\ file[m] # 0 BY DEF StoredLots
  <2>4. m = l BY <2>1, <2>2, <2>3, StoredAllocationIs
  <2> QED BY <2>2, <2>3, <2>4, OnItsSide
<1>3. Recorded(Stored, failed) = [l \in Lots |-> file[l]]
  <2>1. \A l \in Lots : Recorded(Stored, failed)[l] = file[l] BY <1>2 DEF Recorded
  <2>2. Recorded(Stored, failed) = [l \in Lots |-> Recorded(Stored, failed)[l]] BY DEF Recorded
  <2> QED BY <2>1, <2>2
<1> QED BY <1>3 DEF FileTyped

(* What is adopted of a held instrument is all that is held.                *)
LEMMA HeldIsSaid ==
  ASSUME PositionsTyped, FileTyped, Fits(gate.positions, Stored),
         Covers(gate.positions, Stored), NEW i \in Held(gate.positions), Exact(i) # {}
  PROVE  InstrumentSum(Said(Stored), i) = gate.positions[i]
<1> DEFINE P == gate.positions
           id == PositionId(P, i)
           K == {k \in DOMAIN Stored : Stored[k].position = id}
           f == QuantityOf(Stored)
           g == SignedOf(Stored)
           said == Said(Stored)
           L == LotsOn(i)
           place == [k \in DOMAIN Stored |-> LotOf(Stored[k])]
<1>1. i \in Instruments /\ P[i] \in Int /\ P[i] # 0 BY DEF Held, PositionsTyped
<1>2. Stored \in Seq(Allocation(Sources)) /\ ~NamedTwice(Stored) BY StoredAre
<1>3. /\ K \in SUBSET DOMAIN Stored /\ IsFiniteSet(K)
      /\ \A k \in K : f[k] \in Int /\ g[k] \in Int
                      /\ f[k] = Stored[k].quantity /\ g[k] = Signed(Stored[k])
  BY <1>2, AllocsTyped DEF QuantityOf, SignedOf
<1>4. Total(f, K) = Magnitude(P[i])
  <2>1. id \in RequiredIds(P)
    <3>1. i \in Required(P) BY DEF Required, Matching, Exact
    <3> QED BY <3>1 DEF RequiredIds
  <2>2. Allocated(Stored, id) = Total(f, K) BY <1>2, <1>3, QuantitySum DEF Allocated
  <2>3. Total(f, K) \in Int
    <3> HIDE DEF f, K
    <3> QED BY <1>3, TotalSplit
  <2>4. id[1] = i BY DEF PositionId
  <2>5. Allocated(Stored, id) <= Magnitude(P[i]) BY <2>1, <2>4 DEF Fits, WithinPositions
  <2>6. ~(Magnitude(P[i]) - Allocated(Stored, id) > 0)
    <3> SUFFICES ASSUME Magnitude(P[i]) - Allocated(Stored, id) > 0 PROVE FALSE OBVIOUS
    <3>1. id \in DOMAIN Remainders(P, Stored) BY <2>1, <2>4 DEF Remainders
    <3>2. DOMAIN Remainders(P, Stored) = {} BY DEF Covers
    <3> QED BY <3>1, <3>2
  <2>7. Magnitude(P[i]) \in Int BY <1>1 DEF Magnitude
  <2> QED BY <2>2, <2>3, <2>5, <2>6, <2>7
<1>5. Total(g, K) = P[i]
  <2>1. \A k \in K : Stored[k].position[1] = i BY DEF PositionId
  <2>2. CASE P[i] > 0
    <3>1. \A k \in K : g[k] = f[k] BY <1>3, <2>1, <2>2 DEF Signed
    <3>2. Total(g, K) = Total(f, K)
      <4> HIDE DEF f, g, K
      <4> QED BY <1>3, <3>1, TotalSame
    <3> QED BY <1>1, <1>4, <2>2, <3>2 DEF Magnitude
  <2>3. CASE ~(P[i] > 0)
    <3>1. \A k \in K : g[k] = -f[k] BY <1>3, <2>1, <2>3 DEF Signed
    <3>2. Total(g, K) = -Total(f, K)
      <4> HIDE DEF f, g, K
      <4> QED BY <1>3, <3>1, TotalNegated
    <3>3. Magnitude(P[i]) = -P[i] BY <1>1, <2>3 DEF Magnitude
    <3> QED BY <1>1, <1>4, <3>2, <3>3
  <2> QED BY <2>2, <2>3
<1>6. \A k \in DOMAIN Stored : \E l \in StoredLots :
         /\ Stored[k] = StoredAllocation(l) /\ LotOf(Stored[k]) = l /\ l \in Lots /\ file[l] # 0
         /\ Stored[k].position = <<Executes[l[1]], SideOf(file[l])>>
  <2> SUFFICES ASSUME NEW k \in DOMAIN Stored
               PROVE  \E l \in StoredLots :
                        /\ Stored[k] = StoredAllocation(l) /\ LotOf(Stored[k]) = l
                        /\ l \in Lots /\ file[l] # 0
                        /\ Stored[k].position = <<Executes[l[1]], SideOf(file[l])>>
    OBVIOUS
  <2>1. PICK l \in StoredLots : Stored[k] = StoredAllocation(l) BY StoredAre
  <2>2. l \in Lots /\ file[l] # 0 BY DEF StoredLots
  <2> QED BY <2>1, <2>2, StoredAllocationIs
<1>7. \A k \in K : place[k] \in L /\ said[place[k]] = g[k]
  <2> SUFFICES ASSUME NEW k \in K PROVE place[k] \in L /\ said[place[k]] = g[k] OBVIOUS
  <2>1. PICK l \in Lots : /\ LotOf(Stored[k]) = l
                          /\ Stored[k].position = <<Executes[l[1]], SideOf(file[l])>>
    BY <1>6
  <2>2. l \in L BY <2>1 DEF LotsOn, PositionId
  <2>3. said[LotOf(Stored[k])] = Signed(Stored[k]) BY <1>2, SaidOnce
  <2> QED BY <1>3, <2>1, <2>2, <2>3
<1>8. \A j, k \in K : place[j] = place[k] => j = k BY <1>2, SaidOnce
<1>9. \A l \in L : (\A k \in K : place[k] # l) => said[l] = 0
  <2> SUFFICES ASSUME NEW l \in L, \A k \in K : place[k] # l PROVE said[l] = 0 OBVIOUS
  <2>1. l \in Lots /\ Executes[l[1]] = i BY DEF LotsOn
  <2>2. l \notin StoredLots
    <3> SUFFICES ASSUME l \in StoredLots PROVE FALSE OBVIOUS
    <3>1. PICK k \in DOMAIN Stored : Stored[k] = StoredAllocation(l) BY StoredAre
    <3>2. file[l] # 0 BY DEF StoredLots
    <3>3. SideOf(file[l]) = SideOf(P[i]) BY <2>1, <3>2, OnItsSide
    <3>4. Stored[k].position = id BY <2>1, <3>1, <3>3, StoredAllocationIs DEF PositionId
    <3>5. LotOf(Stored[k]) = l BY <2>1, <3>1, StoredAllocationIs
    <3> QED BY <3>4, <3>5
  <2> QED BY <2>1, <2>2, SaidStored
<1>10. IsFiniteSet(L) BY LotsFinite
<1>11. Total(g, K) = Total(said, L)
  <2> HIDE DEF g, K, said, L, place
  <2> QED BY <1>3, <1>7, <1>8, <1>9, <1>10, TotalMoved
<1>12. InstrumentSum(said, i) = Total(said, L) BY <1>2, SaidTyped, SumsAre
<1> QED BY <1>5, <1>11, <1>12

(* The lots of one side of an instrument are on the side of their sum.      *)
LEMMA SideOfSum ==
  ASSUME NEW t \in [Lots -> Int], NEW i, OneSided(t, i), InstrumentSum(t, i) # 0
  PROVE  \A l \in LotsOn(i) : t[l] # 0 => SideOf(t[l]) = SideOf(InstrumentSum(t, i))
<1> DEFINE L == LotsOn(i)
           u == [l \in Lots |-> -t[l]]
           sum == InstrumentSum(t, i)
<1>1. IsFiniteSet(L) /\ \A l \in L : l \in Lots /\ t[l] \in Int /\ Executes[l[1]] = i
  BY LotsFinite DEF LotsOn
<1>2. sum \in Int /\ sum = Total(t, L) BY SumsAre
<1>3. \A l, m \in L : ~(t[l] > 0 /\ t[m] < 0) BY <1>1 DEF OneSided
<1> HIDE DEF L, sum
<1>4. CASE \A l \in L : t[l] >= 0
  <2>1. \A l \in L : t[l] \in Nat BY <1>1, <1>4
  <2>2. sum \in Nat BY <1>1, <1>2, <2>1, TotalNat
  <2>3. sum > 0 BY <2>2 DEF sum
  <2>4. \A l \in L : t[l] # 0 => t[l] > 0 BY <1>1, <1>4
  <2> QED BY <2>3, <2>4 DEF SideOf, L, sum
<1>5. CASE \A l \in L : t[l] <= 0
  <2>1. \A l \in L : u[l] \in Nat /\ u[l] = -t[l] BY <1>1, <1>5
  <2> HIDE DEF u
  <2>2. Total(u, L) \in Nat /\ Total(u, L) = -Total(t, L)
    <3>1. \A l \in L : t[l] \in Int /\ u[l] = -t[l] BY <1>1, <2>1
    <3> QED BY <1>1, <2>1, <3>1, TotalNat, TotalNegated
  <2>3. ~(sum > 0) BY <1>2, <2>2
  <2>4. \A l \in L : ~(t[l] > 0) BY <1>1, <1>5
  <2> QED BY <2>3, <2>4 DEF SideOf, L, sum
<1>6. (\A l \in L : t[l] >= 0) \/ (\A l \in L : t[l] <= 0) BY <1>1, <1>3
<1> QED BY <1>4, <1>5, <1>6

(* A file that misses at most one trade, and whose lots cover what is held, *)
(* restores the lots of what is held as they are.                           *)
LEMMA Restores ==
  ASSUME PositionsTyped, FileTyped, Fits(gate.positions, Stored),
         Covers(gate.positions, Stored), NEW t \in [Lots -> Int], NEW gap, gap <= 1,
         Near(file, gap, t, gate.positions), NEW l \in Lots,
         Executes[l[1]] \in Held(gate.positions), OneSided(t, Executes[l[1]])
  PROVE  Said(Stored)[l] = t[l]
<1> DEFINE i == Executes[l[1]]
           P == gate.positions
           L == LotsOn(i)
           said == Said(Stored)
<1>1. /\ i \in Instruments /\ P[i] \in Int /\ P[i] # 0 /\ Exact(i) # {}
      /\ l \in L /\ IsFiniteSet(L) /\ L \in SUBSET Lots
  BY LotPairs, LotsFinite DEF Held, PositionsTyped, Exact, LotsOn
<1>2. InstrumentSum(said, i) = P[i] BY <1>1, HeldIsSaid
<1>3. said \in [Lots -> Int] BY StoredAre, SaidTyped
<1>4. InstrumentSum(said, i) = Total(said, L) BY <1>3, SumsAre
<1>5. \A m \in L : file[m] \in Int /\ t[m] \in Int /\ said[m] \in Int /\ Executes[m[1]] = i
  BY <1>1, <1>3 DEF FileTyped, LotsOn
<1>6. \A m \in L : said[m] = IF file[m] # 0 /\ SideOf(file[m]) = SideOf(P[i]) THEN file[m] ELSE 0
  <2> SUFFICES ASSUME NEW m \in L
               PROVE  said[m] = IF file[m] # 0 /\ SideOf(file[m]) = SideOf(P[i])
                                THEN file[m] ELSE 0
    OBVIOUS
  <2>1. m \in Lots /\ Executes[m[1]] = i BY <1>1, <1>5
  <2>2. CASE file[m] = 0 BY <2>1, <2>2, SaidStored DEF StoredLots
  <2>3. CASE file[m] # 0 BY <2>1, <2>3, SaidStored, OnItsSide
  <2> QED BY <2>2, <2>3
<1>7. gap \in Nat /\ (gap = 0 \/ gap = 1) BY DEF Near
<1> HIDE DEF said, L
<1>8. CASE \A m \in L : file[m] = t[m]
  <2>1. CASE file[l] = 0 BY <1>1, <1>6, <1>8, <2>1 DEF said
  <2>2. CASE file[l] # 0 /\ SideOf(file[l]) = SideOf(P[i]) BY <1>1, <1>6, <1>8, <2>2 DEF said
  <2>3. CASE file[l] # 0 /\ SideOf(file[l]) # SideOf(P[i])
    <3>1. \A m \in L : t[m] # 0 => SideOf(t[m]) = SideOf(t[l])
      <4>1. \A j, m \in L : ~(t[j] > 0 /\ t[m] < 0) BY <1>1, <1>5 DEF OneSided
      <4>2. t[l] # 0 BY <1>1, <1>8, <2>3
      <4> QED BY <1>1, <1>5, <4>1, <4>2 DEF SideOf
    <3>2. \A m \in L : said[m] = 0 BY <1>1, <1>6, <1>8, <2>3, <3>1
    <3>3. Total(said, L) = 0 BY <1>1, <3>2, TotalZero
    <3> QED BY <1>1, <1>2, <1>4, <3>3
  <2> QED BY <2>1, <2>2, <2>3
<1>9. CASE Explains(t, P) /\ \E k \in L : \A m \in L \ {k} : file[m] = t[m]
  <2>1. PICK k \in L : \A m \in L \ {k} : file[m] = t[m] BY <1>9
  <2>2. InstrumentSum(t, i) = P[i] BY <1>1, <1>9 DEF Explains
  <2>3. \A m \in L : t[m] # 0 => SideOf(t[m]) = SideOf(P[i])
    <3>1. OneSided(t, i) /\ InstrumentSum(t, i) # 0 BY <1>1, <2>2
    <3> QED BY <2>2, <3>1, SideOfSum DEF L
  <2>4. \A m \in L \ {k} : said[m] = t[m] BY <1>6, <2>1, <2>3
  <2>5. Total(t, L) = P[i] BY <2>2, SumsAre DEF L
  <2>6. Total(said, L) = Total(t, L) - t[k] + said[k]
    <3>1. \A m \in L : t[m] \in Int /\ said[m] \in Int BY <1>5
    <3>2. \A m \in L \ {k} : t[m] = said[m] BY <2>4
    <3> QED BY <1>1, <3>1, <3>2, TotalChange
  <2>7. said[k] = t[k]
    <3>1. said[k] \in Int /\ t[k] \in Int BY <1>5, <2>1
    <3>2. P[i] = P[i] - t[k] + said[k] BY <1>2, <1>4, <2>5, <2>6
    <3>3. P[i] \in Int BY <1>1
    <3> HIDE DEF P, i
    <3> QED BY <3>1, <3>2, <3>3
  <2> QED BY <1>1, <2>4, <2>7 DEF said
<1>10. \/ \A m \in L : file[m] = t[m]
       \/ Explains(t, P) /\ \E k \in L : \A m \in L \ {k} : file[m] = t[m]
  <2>1. CASE file = t BY <2>1
  <2>2. CASE Explains(t, P) /\ \E k \in Lots : \A m \in Lots \ {k} : file[m] = t[m]
    <3>1. PICK k \in Lots : \A m \in Lots \ {k} : file[m] = t[m] BY <2>2
    <3>2. CASE k \in L BY <1>1, <2>2, <3>1, <3>2
    <3>3. CASE k \notin L BY <1>1, <3>1, <3>3
    <3> QED BY <3>2, <3>3
  <2> QED BY <1>7, <2>1, <2>2 DEF Near
<1> QED BY <1>8, <1>9, <1>10

-----------------------------------------------------------------------------
(* A book that hears of the fills in q is near, once it has heard them.     *)
Follows(f, gap, q, t, positions) ==
  Near(Plus(f, q), gap - Known(q), t, positions)

LEMMA PlusTyped ==
  ASSUME NEW f \in [Lots -> Int], NEW q \in Seq(Fill)
  PROVE  Plus(f, q) \in [Lots -> Int] /\ Known(q) \in Int
         /\ Plus(f, <<>>) = f /\ Known(<<>>) = 0
<1>1. \A l \in Lots : Pending(q, l) \in Int BY QueueTyped
<1>2. \A l \in Lots : f[l] + Pending(<<>>, l) = f[l] BY QueueEmpty
<1> QED BY <1>1, <1>2, QueueTyped, QueueEmpty DEF Plus

LEMMA FollowsNothing ==
  ASSUME NEW f \in [Lots -> Int], NEW gap \in Int, NEW t, NEW positions
  PROVE  Follows(f, gap, <<>>, t, positions) <=> Near(f, gap, t, positions)
<1>1. <<>> \in Seq(Fill) /\ gap - 0 = gap OBVIOUS
<1>2. Plus(f, <<>>) = f /\ Known(<<>>) = 0 BY <1>1, PlusTyped
<1> QED BY <1>1, <1>2 DEF Follows

(* One that hears of the fill stays as near; one that does not is a trade   *)
(* farther.                                                                 *)
LEMMA FollowsHeard ==
  ASSUME NEW f \in [Lots -> Int], NEW gap \in Int, NEW q \in Seq(Fill), NEW t \in [Lots -> Int],
         NEW positions \in [Instruments -> Int], Follows(f, gap, q, t, positions),
         NEW fill \in Fill, fill.lot # NoLot
  PROVE  Follows(f, gap + 1, Append(q, fill), Bumped(t, fill.lot, fill.quantity),
                 [positions EXCEPT ![Executes[fill.lot[1]]] = @ + fill.quantity])
<1> DEFINE l == fill.lot
           r == Append(q, fill)
<1>1. l \in Lots /\ fill.quantity \in Int BY DEF Fill
<1>2. Known(r) = Known(q) + 1 BY QueueGrows
<1>3. \A m \in Lots : Pending(r, m) = Pending(q, m) + IF l = m THEN fill.quantity ELSE 0
  BY QueueGrows
<1>4. \A m \in Lots : Pending(q, m) \in Int BY QueueTyped
<1> HIDE DEF r
<1>6. Plus(f, r) = Bumped(Plus(f, q), l, fill.quantity)
  <2>1. \A m \in Lots : f[m] + Pending(r, m)
           = IF m = l THEN (f[l] + Pending(q, l)) + fill.quantity ELSE f[m] + Pending(q, m)
    BY <1>1, <1>3, <1>4
  <2> QED BY <1>1, <2>1 DEF Plus, Bumped
<1>7. (gap + 1) - Known(r) = gap - Known(q)
  <2>1. Known(q) \in Int BY PlusTyped
  <2> QED BY <1>2, <2>1
<1>8. Near(Bumped(Plus(f, q), l, fill.quantity), gap - Known(q), Bumped(t, l, fill.quantity),
           [positions EXCEPT ![Executes[l[1]]] = @ + fill.quantity])
  BY <1>1, PlusTyped, NearTrade DEF Follows
<1> QED BY <1>6, <1>7, <1>8 DEF Follows, r

LEMMA FollowsMissed ==
  ASSUME NEW f \in [Lots -> Int], NEW gap \in Int, NEW q \in Seq(Fill), NEW t \in [Lots -> Int],
         NEW positions \in [Instruments -> Int], Follows(f, gap, q, t, positions),
         NEW l \in Lots, NEW d \in Int
  PROVE  Follows(f, gap + 1, q, Bumped(t, l, d), [positions EXCEPT ![Executes[l[1]]] = @ + d])
<1>1. (gap + 1) - Known(q) = (gap - Known(q)) + 1
  <2>1. Known(q) \in Int BY PlusTyped
  <2> QED BY <2>1
<1>2. Near(Plus(f, q), (gap - Known(q)) + 1, Bumped(t, l, d),
           [positions EXCEPT ![Executes[l[1]]] = @ + d])
  BY PlusTyped, NearTrade DEF Follows
<1> QED BY <1>1, <1>2 DEF Follows

LEMMA FollowsForeign ==
  ASSUME NEW f \in [Lots -> Int], NEW gap \in Int, NEW q \in Seq(Fill), NEW t, NEW positions,
         Follows(f, gap, q, t, positions), NEW after
  PROVE  Follows(f, gap + 1, q, t, after)
<1>1. (gap + 1) - Known(q) = (gap - Known(q)) + 1
  <2>1. Known(q) \in Int BY PlusTyped
  <2> QED BY <2>1
<1>2. Near(Plus(f, q), (gap - Known(q)) + 1, t, after) BY NearForeign DEF Follows
<1> QED BY <1>1, <1>2 DEF Follows

(* A fill of an unknown order is nothing to a book.                         *)
LEMMA FollowsNoted ==
  ASSUME NEW f \in [Lots -> Int], NEW gap \in Int, NEW q \in Seq(Fill), NEW t, NEW positions,
         Follows(f, gap, q, t, positions), NEW fill \in Fill, fill.lot = NoLot
  PROVE  Follows(f, gap, Append(q, fill), t, positions)
<1> DEFINE r == Append(q, fill)
<1>1. Known(r) = Known(q) + 0 BY QueueGrows
<1>2. \A m \in Lots : Pending(r, m) = Pending(q, m) + 0 BY QueueGrows, LotFacts
<1>3. \A m \in Lots : Pending(q, m) \in Int /\ Known(q) \in Int BY QueueTyped
<1> HIDE DEF r
<1>4. \A m \in Lots : Pending(r, m) = Pending(q, m) BY <1>2, <1>3
<1>5. Plus(f, r) = Plus(f, q) /\ Known(r) = Known(q)
  <2>1. Known(r) = Known(q) BY <1>1, QueueTyped
  <2> QED BY <1>4, <2>1 DEF Plus
<1> QED BY <1>5 DEF Follows, r

LEMMA FollowsIgnored ==
  ASSUME NEW f \in [Lots -> Int], NEW gap \in Int, NEW q \in Seq(Fill), q # <<>>, NEW t,
         NEW positions, Follows(f, gap, q, t, positions), Head(q).lot = NoLot
  PROVE  Follows(f, gap, Tail(q), t, positions)
<1> DEFINE r == Tail(q)
<1>1. Known(r) = Known(q) - 0 BY QueueShrinks
<1>2. \A m \in Lots : Pending(r, m) = Pending(q, m) - 0 BY QueueShrinks, LotFacts
<1>3. \A m \in Lots : Pending(q, m) \in Int BY QueueTyped
<1> HIDE DEF r
<1>4. \A m \in Lots : Pending(r, m) = Pending(q, m) BY <1>2, <1>3
<1>5. Plus(f, r) = Plus(f, q) /\ Known(r) = Known(q)
  <2>1. Known(r) = Known(q) BY <1>1, QueueTyped
  <2> QED BY <1>4, <2>1 DEF Plus
<1> QED BY <1>5 DEF Follows, r

(* Booking a fill moves it from the queue to the book; losing one leaves    *)
(* the book a trade behind.                                                 *)
LEMMA NearOneLess ==
  ASSUME NEW f, NEW g, NEW t, NEW gap, NEW positions, Near(f, gap, t, positions),
         NEW l \in Lots, \A m \in Lots \ {l} : g[m] = f[m]
  PROVE  Near(g, gap + 1, t, positions)
<1>1. gap \in Nat BY DEF Near
<1>2. CASE gap = 0
  <2>1. f = t /\ Explains(t, positions) BY <1>2 DEF Near
  <2>2. \A m \in Lots \ {l} : g[m] = t[m] BY <2>1
  <2> QED BY <1>2, <2>1, <2>2 DEF Near
<1>3. CASE gap # 0 BY <1>1, <1>3 DEF Near
<1> QED BY <1>2, <1>3

LEMMA FollowsTold ==
  ASSUME NEW f \in [Lots -> Int], NEW gap \in Int, NEW q \in Seq(Fill), q # <<>>, NEW t,
         NEW positions, Follows(f, gap, q, t, positions), Head(q).lot # NoLot
  PROVE  /\ Follows(Bumped(f, Head(q).lot, Head(q).quantity), gap - 1, Tail(q), t, positions)
         /\ Follows(f, gap, Tail(q), t, positions)
<1> DEFINE l == Head(q).lot
           d == Head(q).quantity
           r == Tail(q)
<1>1. Head(q) \in Fill BY QueueShrinks
<1>2. l \in Lots /\ d \in Int BY <1>1 DEF Fill
<1>3. Known(r) = Known(q) - 1 BY QueueShrinks
<1>4. \A m \in Lots : Pending(r, m) = Pending(q, m) - IF l = m THEN d ELSE 0 BY QueueShrinks
<1>5. \A m \in Lots : Pending(q, m) \in Int BY QueueTyped
<1>6. Known(q) \in Int BY PlusTyped
<1> HIDE DEF l, d, r
<1>7. Plus(Bumped(f, l, d), r) = Plus(f, q)
  <2>1. \A m \in Lots : Bumped(f, l, d)[m] + Pending(r, m) = f[m] + Pending(q, m)
    BY <1>2, <1>4, <1>5 DEF Bumped
  <2> QED BY <2>1 DEF Plus
<1>8. \A m \in Lots \ {l} : Plus(f, r)[m] = Plus(f, q)[m] BY <1>4, <1>5 DEF Plus
<1>9. (gap - 1) - Known(r) = gap - Known(q) /\ gap - Known(r) = (gap - Known(q)) + 1
  BY <1>3, <1>6
<1>10. Near(Plus(f, r), (gap - Known(q)) + 1, t, positions) BY <1>2, <1>8, NearOneLess DEF Follows
<1> QED BY <1>7, <1>9, <1>10 DEF Follows, l, d, r

-----------------------------------------------------------------------------
(* What the books of the process and its file are to the truth.             *)

Zeros == [s \in Strategies |-> 0]
BooksTyped ==
  /\ FileTyped /\ owned \in [Strategies -> Int] /\ lots \in [Lots -> Int] /\ NoneUntraded(lots)
  /\ truth \in [Lots -> Int] /\ stops \in [Lots -> Int] /\ broker \in [Instruments -> Int]
  /\ memoryGap \in Int /\ fileGap \in Int /\ unbooked \in Seq(Fill)

(* Before stops are seeded the order manager knows no order, and before     *)
(* positions are adopted the portfolio has none of a strategy.              *)
Trading(e) == e \in {"seeding", "running"}
Informed(e) == e \in {"adopted", "persisted", "seeding", "running"}
Idle == ~Trading(engine) => tracked = {} /\ Known(unbooked) = 0
Forgotten == ~Informed(engine) => owned = Zeros /\ lots = Nobody

MemoryNear ==
  Informed(engine) => Follows(Books(owned, lots), memoryGap, unbooked, truth, broker)
(* The ledger is told of the fills, the state is written as memory is.      *)
Due == IF store = "ledger" THEN unbooked ELSE <<>>
FileNear == Follows(file, fileGap, Due, truth, broker)

BooksInv == BooksTyped /\ Idle /\ Forgotten /\ MemoryNear /\ FileNear

LEMMA NothingBooked ==
  /\ Zeros \in [Strategies -> Int] /\ Nobody \in [Lots -> Int] /\ NoneUntraded(Nobody)
  /\ Flat \in [Instruments -> Int] /\ Books(Zeros, Nobody) = Nobody
  /\ <<>> \in Seq(Fill) /\ Known(<<>>) = 0
<1>1. /\ Zeros \in [Strategies -> Int] /\ Nobody \in [Lots -> Int] /\ NoneUntraded(Nobody)
      /\ Flat \in [Instruments -> Int] /\ <<>> \in Seq(Fill)
  BY LotPairs DEF Zeros, Nobody, NoneUntraded, Flat
<1>2. ASSUME NEW l \in Lots PROVE Books(Zeros, Nobody)[l] = 0
  <2>1. CASE l[2] # NoTrade BY <1>1, <2>1, BooksAre DEF Nobody
  <2>2. CASE l[2] = NoTrade
    <3>1. l[1] \in Strategies /\ l = <<l[1], NoTrade>> BY <2>2, LotPairs
    <3>2. Books(Zeros, Nobody)[l] = Zeros[l[1]] - Total(Nobody, TradeLots(l[1]))
      BY <1>1, <3>1, BooksAre
    <3>3. IsFiniteSet(TradeLots(l[1])) /\ \A m \in TradeLots(l[1]) : Nobody[m] = 0
      BY <3>1, OwnLotsSplit DEF Nobody
    <3>4. Total(Nobody, TradeLots(l[1])) = 0 BY <3>3, TotalZero
    <3> QED BY <3>1, <3>2, <3>4 DEF Zeros
  <2> QED BY <2>1, <2>2
<1>3. Books(Zeros, Nobody) \in [Lots -> Int] BY <1>1, BooksAre
<1>4. Books(Zeros, Nobody) = Nobody BY <1>2, <1>3 DEF Nobody
<1> QED BY <1>1, <1>4, QueueEmpty

LEMMA FileIsNear == BooksInv => Near(file, fileGap, truth, broker)
<1> SUFFICES ASSUME BooksInv PROVE Near(file, fileGap, truth, broker) OBVIOUS
<1>1. file \in [Lots -> Int] /\ fileGap \in Int /\ unbooked \in Seq(Fill) /\ Due \in Seq(Fill)
  BY DEF BooksInv, BooksTyped, FileTyped, Due
<1> QED BY <1>1, NearWithout DEF BooksInv, FileNear, Follows

LEMMA FollowsIdle ==
  ASSUME NEW f \in [Lots -> Int], NEW gap \in Int, NEW q \in Seq(Fill), Known(q) = 0,
         NEW t, NEW positions
  PROVE  Follows(f, gap, q, t, positions) <=> Near(f, gap, t, positions)
<1>1. \A l \in Lots : f[l] + Pending(q, l) = f[l] BY QueueFew
<1>2. Plus(f, q) = f BY <1>1 DEF Plus
<1>3. gap - Known(q) = gap OBVIOUS
<1> QED BY <1>2, <1>3 DEF Follows

LEMMA BooksStart == Init => BooksInv
<1> SUFFICES ASSUME Init PROVE BooksInv OBVIOUS
<1>1. /\ engine = "down" /\ store \in {"state", "ledger"} /\ file = Nobody
      /\ owned = Zeros /\ lots = Nobody /\ unbooked = <<>> /\ tracked = {} /\ broker = Flat
      /\ stops = Nobody /\ truth = Nobody /\ memoryGap = 0 /\ fileGap = 0
  BY DEF Init, Zeros
<1>2. BooksTyped BY <1>1, NothingBooked DEF BooksTyped, FileTyped
<1>3. Idle /\ Forgotten /\ MemoryNear
  BY <1>1, NothingBooked DEF Idle, Forgotten, MemoryNear, Trading, Informed
<1>4. Near(Nobody, 0, Nobody, Flat)
  <2>1. ASSUME NEW i \in Instruments PROVE InstrumentSum(Nobody, i) = 0
    <3>1. InstrumentSum(Nobody, i) = Total(Nobody, LotsOn(i)) BY NothingBooked, SumsAre
    <3>2. IsFiniteSet(LotsOn(i)) /\ \A l \in LotsOn(i) : Nobody[l] = 0
      BY LotsFinite DEF Nobody, LotsOn
    <3> QED BY <3>1, <3>2, TotalZero
  <2>2. Explains(Nobody, Flat) BY <2>1 DEF Explains, Flat
  <2> QED BY <2>2 DEF Near
<1>5. Due = <<>> /\ Follows(Nobody, 0, <<>>, Nobody, Flat)
  BY <1>1, <1>4, NothingBooked, FollowsNothing DEF Due
<1>6. FileNear BY <1>1, <1>5 DEF FileNear
<1> QED BY <1>2, <1>3, <1>6 DEF BooksInv

(* The steps that leave the books, the file and the market alone.           *)
books == <<store, file, owned, lots, unbooked, broker, truth, memoryGap, fileGap>>

LEMMA BooksRest ==
  ASSUME BooksInv, UNCHANGED books, stops' \in [Lots -> Int],
         Informed(engine') <=> Informed(engine),
         ~Trading(engine') => ~Trading(engine) /\ tracked' = tracked
  PROVE  BooksInv'
<1>1. BooksTyped' BY DEF BooksInv, BooksTyped, FileTyped, books
<1>2. Idle' /\ Forgotten' BY DEF BooksInv, Idle, Forgotten, books
<1>3. MemoryNear' /\ FileNear' BY DEF BooksInv, MemoryNear, FileNear, Due, books
<1> QED BY <1>1, <1>2, <1>3 DEF BooksInv

LEMMA BooksLost ==
  ASSUME BooksInv, Exit, UNCHANGED <<store, broker, truth>>, stops' \in [Lots -> Int],
         file' \in [Lots -> Int], fileGap' \in Int, Near(file', fileGap', truth, broker)
  PROVE  BooksInv'
<1>1. /\ engine' = "down" /\ owned' = Zeros /\ lots' = Nobody /\ unbooked' = <<>>
      /\ tracked' = {} /\ memoryGap' = 0
  BY DEF Exit, Zeros
<1>2. BooksTyped' BY <1>1, NothingBooked DEF BooksInv, BooksTyped, FileTyped
<1>3. Idle' /\ Forgotten' /\ MemoryNear'
  BY <1>1, NothingBooked DEF Idle, Forgotten, MemoryNear, Trading, Informed
<1>4. Due' = <<>> BY <1>1 DEF Due
<1>5. Follows(file', fileGap', <<>>, truth', broker') BY FollowsNothing
<1>6. FileNear' BY <1>4, <1>5 DEF FileNear
<1> QED BY <1>2, <1>3, <1>6 DEF BooksInv

(* Trades. *)

LEMMA TradeTyped ==
  ASSUME BooksTyped, NEW l \in Lots, NEW d \in Int, Trade(Executes[l[1]], d)
  PROVE  /\ broker' = [broker EXCEPT ![Executes[l[1]]] = @ + d]
         /\ broker' \in [Instruments -> Int] /\ memoryGap' \in Int /\ fileGap' \in Int
         /\ fileGap' = fileGap + 1 /\ (engine # "down" => memoryGap' = memoryGap + 1)
BY LotFacts DEF BooksTyped, Trade

(* An owned trade that is reported: memory will hear of it, and the ledger. *)
LEMMA BooksTrade ==
  ASSUME BooksInv, Trading(engine), NEW l \in Lots, NEW d \in Int,
         Trade(Executes[l[1]], d), Report(l, Executes[l[1]], d), truth' = Bumped(truth, l, d),
         stops' \in [Lots -> Int], UNCHANGED <<engine, store, file, owned, lots>>
  PROVE  BooksInv'
<1> DEFINE fill == [lot |-> l, instrument |-> Executes[l[1]], quantity |-> d]
<1>1. /\ fill \in Fill /\ fill.lot = l /\ fill.lot # NoLot /\ fill.quantity = d
      /\ unbooked' = Append(unbooked, fill)
  BY LotFacts DEF Fill, Report
<1>2. /\ BooksTyped /\ engine # "down" /\ Informed(engine) BY DEF BooksInv, Trading, Informed
<1>3. /\ broker' = [broker EXCEPT ![Executes[l[1]]] = @ + d] /\ broker' \in [Instruments -> Int]
      /\ memoryGap' = memoryGap + 1 /\ fileGap' = fileGap + 1
      /\ memoryGap' \in Int /\ fileGap' \in Int
  BY <1>2, TradeTyped
<1> HIDE DEF fill
<1>4. BooksTyped'
  <2>1. truth' \in [Lots -> Int] BY <1>2 DEF Bumped, BooksTyped
  <2>2. unbooked' \in Seq(Fill) BY <1>1, <1>2 DEF BooksTyped
  <2> QED BY <1>2, <1>3, <2>1, <2>2 DEF BooksTyped, FileTyped
<1>5. Idle' /\ Forgotten' BY <1>2 DEF Idle, Forgotten
<1>6. MemoryNear'
  <2>1. Books(owned, lots) \in [Lots -> Int] BY <1>2, BooksAre DEF BooksTyped
  <2>2. Follows(Books(owned, lots), memoryGap, unbooked, truth, broker)
    BY <1>2 DEF BooksInv, MemoryNear
  <2>3. Follows(Books(owned, lots), memoryGap', unbooked', truth', broker')
    BY <1>1, <1>2, <1>3, <2>1, <2>2, FollowsHeard DEF BooksTyped
  <2> QED BY <2>3 DEF MemoryNear
<1>7. FileNear'
  <2>1. file \in [Lots -> Int] /\ Follows(file, fileGap, Due, truth, broker)
    BY <1>2 DEF BooksInv, FileNear, BooksTyped, FileTyped
  <2>2. CASE store = "ledger"
    <3>1. Due = unbooked /\ Due' = unbooked' BY <2>2 DEF Due
    <3>2. Follows(file, fileGap', unbooked', truth', broker')
      BY <1>1, <1>2, <1>3, <2>1, <3>1, FollowsHeard DEF BooksTyped
    <3> QED BY <3>1, <3>2 DEF FileNear
  <2>3. CASE store # "ledger"
    <3>1. Due = <<>> /\ Due' = <<>> BY <2>3 DEF Due
    <3>2. Follows(file, fileGap', <<>>, truth', broker')
      BY <1>2, <1>3, <2>1, <3>1, NothingBooked, FollowsMissed DEF BooksTyped
    <3> QED BY <3>1, <3>2 DEF FileNear
  <2> QED BY <2>2, <2>3
<1> QED BY <1>4, <1>5, <1>6, <1>7 DEF BooksInv

(* One that no book hears of: a stop of an earlier process, reported as an  *)
(* unknown order's or not at all.                                           *)
LEMMA BooksMissed ==
  ASSUME BooksInv, NEW l \in Lots, NEW d \in Int, Trade(Executes[l[1]], d),
         truth' = Bumped(truth, l, d), stops' \in [Lots -> Int],
         engine = "down" => unbooked' = unbooked,
         unbooked' = unbooked \/ Report(NoLot, Executes[l[1]], d),
         UNCHANGED <<engine, store, file, owned, lots, tracked>>
  PROVE  BooksInv'
<1>1. BooksTyped BY DEF BooksInv
<1>2. /\ broker' = [broker EXCEPT ![Executes[l[1]]] = @ + d] /\ broker' \in [Instruments -> Int]
      /\ memoryGap' \in Int /\ fileGap' \in Int
      /\ fileGap' = fileGap + 1 /\ (engine # "down" => memoryGap' = memoryGap + 1)
  BY <1>1, TradeTyped
<1>3. \/ unbooked' = unbooked
      \/ \E fill \in Fill : fill.lot = NoLot /\ unbooked' = Append(unbooked, fill)
  <2>1. [lot |-> NoLot, instrument |-> Executes[l[1]], quantity |-> d] \in Fill
    BY LotFacts DEF Fill
  <2> QED BY <2>1 DEF Report
<1>4. truth' \in [Lots -> Int] BY <1>1 DEF Bumped, BooksTyped
<1>5. unbooked' \in Seq(Fill) /\ Known(unbooked') = Known(unbooked)
  <2>1. CASE unbooked' = unbooked BY <1>1, <2>1 DEF BooksTyped
  <2>2. ASSUME NEW fill \in Fill, fill.lot = NoLot, unbooked' = Append(unbooked, fill)
        PROVE  unbooked' \in Seq(Fill) /\ Known(unbooked') = Known(unbooked)
    <3>1. unbooked \in Seq(Fill) /\ Known(unbooked) \in Int BY <1>1, QueueTyped DEF BooksTyped
    <3>2. Known(unbooked') = Known(unbooked) + 0 BY <2>2, <3>1, QueueGrows
    <3> QED BY <2>2, <3>1, <3>2
  <2> QED BY <1>3, <2>1, <2>2
<1>6. ASSUME NEW f \in [Lots -> Int], NEW gap \in Int, Follows(f, gap, unbooked, truth, broker)
      PROVE  Follows(f, gap + 1, unbooked', truth', broker')
  <2>1. Follows(f, gap + 1, unbooked, truth', broker')
    BY <1>1, <1>2, <1>6, FollowsMissed DEF BooksTyped
  <2>2. CASE unbooked' = unbooked BY <2>1, <2>2
  <2>3. ASSUME NEW fill \in Fill, fill.lot = NoLot, unbooked' = Append(unbooked, fill)
        PROVE  Follows(f, gap + 1, unbooked', truth', broker')
    <3>1. gap + 1 \in Int /\ unbooked \in Seq(Fill) BY <1>1 DEF BooksTyped
    <3> QED BY <2>1, <2>3, <3>1, FollowsNoted
  <2> QED BY <1>3, <2>2, <2>3
<1>7. BooksTyped' BY <1>1, <1>2, <1>4, <1>5 DEF BooksTyped, FileTyped
<1>8. Idle' /\ Forgotten' BY <1>5 DEF BooksInv, Idle, Forgotten
<1>9. MemoryNear'
  <2>1. Books(owned, lots) \in [Lots -> Int] BY <1>1, BooksAre DEF BooksTyped
  <2>2. CASE Informed(engine)
    <3>1. memoryGap' = memoryGap + 1 /\ memoryGap \in Int
      BY <1>1, <1>2, <2>2 DEF Informed, BooksTyped
    <3>2. Follows(Books(owned, lots), memoryGap, unbooked, truth, broker)
      BY <2>2 DEF BooksInv, MemoryNear
    <3>3. Follows(Books(owned, lots), memoryGap', unbooked', truth', broker')
      BY <1>6, <2>1, <3>1, <3>2
    <3> QED BY <3>3 DEF MemoryNear
  <2> QED BY <2>2 DEF MemoryNear
<1>10. FileNear'
  <2>1. /\ file \in [Lots -> Int] /\ fileGap \in Int
        /\ Follows(file, fileGap, Due, truth, broker)
    BY <1>1 DEF BooksInv, FileNear, BooksTyped, FileTyped
  <2>2. CASE store = "ledger"
    <3>1. Due = unbooked /\ Due' = unbooked' BY <2>2 DEF Due
    <3>2. Follows(file, fileGap', unbooked', truth', broker')
      BY <1>2, <1>6, <2>1, <3>1
    <3> QED BY <3>1, <3>2 DEF FileNear
  <2>3. CASE store # "ledger"
    <3>1. Due = <<>> /\ Due' = <<>> BY <2>3 DEF Due
    <3>2. Follows(file, fileGap', <<>>, truth', broker')
      BY <1>1, <1>2, <2>1, <3>1, NothingBooked, FollowsMissed DEF BooksTyped
    <3> QED BY <3>1, <3>2 DEF FileNear
  <2> QED BY <2>2, <2>3
<1> QED BY <1>7, <1>8, <1>9, <1>10 DEF BooksInv

LEMMA BooksForeign ==
  ASSUME BooksInv, NEW i \in Instruments, NEW d \in Int, ForeignTrade(i, d)
  PROVE  BooksInv'
<1>1. /\ UNCHANGED <<engine, store, file, owned, lots, unbooked, tracked, stops, truth>>
      /\ broker' = [broker EXCEPT ![i] = @ + d] /\ fileGap' = fileGap + 1
      /\ memoryGap' = IF engine = "down" THEN 0 ELSE memoryGap + 1
  BY DEF ForeignTrade, Trade, memory
<1>2. BooksTyped BY DEF BooksInv
<1>3. BooksTyped' BY <1>1, <1>2 DEF BooksTyped, FileTyped
<1>4. Idle' /\ Forgotten' BY <1>1 DEF BooksInv, Idle, Forgotten
<1>5. MemoryNear'
  <2>1. Books(owned, lots) \in [Lots -> Int] BY <1>2, BooksAre DEF BooksTyped
  <2>2. CASE Informed(engine)
    <3>1. memoryGap' = memoryGap + 1 BY <1>1, <2>2 DEF Informed
    <3>2. Follows(Books(owned, lots), memoryGap, unbooked, truth, broker)
      BY <2>2 DEF BooksInv, MemoryNear
    <3>3. Follows(Books(owned, lots), memoryGap + 1, unbooked, truth, broker')
      BY <1>2, <2>1, <3>2, FollowsForeign DEF BooksTyped
    <3> QED BY <1>1, <3>1, <3>3 DEF MemoryNear
  <2> QED BY <1>1, <2>2 DEF MemoryNear
<1>6. FileNear'
  <2>1. /\ file \in [Lots -> Int] /\ fileGap \in Int /\ Due \in Seq(Fill) /\ Due' = Due
        /\ Follows(file, fileGap, Due, truth, broker)
    BY <1>1, <1>2 DEF BooksInv, FileNear, BooksTyped, FileTyped, Due
  <2>2. Follows(file, fileGap + 1, Due, truth, broker') BY <2>1, FollowsForeign
  <2> QED BY <1>1, <2>1, <2>2 DEF FileNear
<1> QED BY <1>3, <1>4, <1>5, <1>6 DEF BooksInv

(* Fills booked and positions written. *)

LEMMA Persisted ==
  ASSUME FileTyped, fileGap \in Int, NEW o \in [Strategies -> Int], NEW v \in [Lots -> Int],
         NoneUntraded(v), NEW gap \in Int, NEW q \in Seq(Fill), NEW t, NEW positions,
         Follows(Books(o, v), gap, q, t, positions), Persist(o, v, gap), store' = store,
         store = "ledger" => Follows(file, fileGap, q, t, positions)
  PROVE  /\ file' \in [Lots -> Int] /\ fileGap' \in Int
         /\ Follows(file', fileGap', IF store = "ledger" THEN q ELSE <<>>, t, positions)
<1> DEFINE n == Cardinality(Unsaved(o, v))
           f == Saved(o, v)
<1>1. Books(o, v) \in [Lots -> Int] /\ f \in [Lots -> Int] BY BooksAre, SavedAre
<1>2. Near(Books(o, v), gap, t, positions) BY <1>1, NearWithout DEF Follows
<1>3. n \in Nat /\ Near(f, gap + n, t, positions) BY <1>2, PersistNear
<1>4. Unknown \in Nat /\ Unknown > 1 BY RestartConstants DEF Unknown
<1>5. CASE store = "ledger" BY <1>5 DEF Persist, FileTyped
<1>6. CASE store # "ledger"
  <2>1. \/ file' = f /\ fileGap' = gap + n
        \/ file' = file /\ fileGap' = IF file = f THEN gap + n ELSE Unknown
    BY <1>6 DEF Persist
  <2> HIDE DEF n, f
  <2>2. file' \in [Lots -> Int] /\ fileGap' \in Int BY <1>1, <1>3, <1>4, <2>1 DEF FileTyped
  <2>3. Near(file', fileGap', t, positions)
    <3>1. CASE file' = f /\ fileGap' = gap + n BY <1>3, <3>1
    <3>2. CASE fileGap' = Unknown BY <1>4, <3>2, FarIsNear
    <3> QED BY <2>1, <3>1, <3>2
  <2> QED BY <1>6, <2>2, <2>3, FollowsNothing
<1> QED BY <1>5, <1>6

LEMMA BooksBook == ASSUME BooksInv, Book, stops' \in [Lots -> Int] PROVE BooksInv'
<1> DEFINE fill == Head(unbooked)
           l == fill.lot
           d == fill.quantity
           rest == Tail(unbooked)
           o == [owned EXCEPT ![l[1]] = @ + d]
           v == IF l[2] = NoTrade THEN lots ELSE [lots EXCEPT ![l] = @ + d]
<1>1. BooksTyped BY DEF BooksInv
<1>2. /\ engine = "running" /\ engine' = engine /\ unbooked # <<>> /\ l # NoLot
      /\ unbooked' = rest /\ owned' = o /\ lots' = v /\ memoryGap' = memoryGap - 1
      /\ UNCHANGED <<store, broker, truth>>
      /\ \/ store = "state" /\ Persist(o, v, memoryGap - 1)
         \/ store = "ledger" /\ file' = [file EXCEPT ![l] = @ + d] /\ fileGap' = fileGap - 1
         \/ store = "ledger" /\ UNCHANGED <<file, fileGap>>
  BY DEF Book
<1>3. unbooked \in Seq(Fill) /\ fill \in Fill /\ rest \in Seq(Fill)
  BY <1>1, <1>2, QueueShrinks DEF BooksTyped
<1>4. l \in Lots /\ d \in Int BY <1>2, <1>3 DEF Fill
<1>5. o \in [Strategies -> Int] /\ v \in [Lots -> Int] /\ NoneUntraded(v)
  <2>1. l[1] \in Strategies BY <1>4, LotFacts
  <2>2. o \in [Strategies -> Int] /\ v \in [Lots -> Int] BY <1>1, <1>4, <2>1 DEF BooksTyped
  <2>3. ASSUME NEW s \in Strategies PROVE v[<<s, NoTrade>>] = 0
    <3>1. <<s, NoTrade>> \in Lots /\ lots[<<s, NoTrade>>] = 0
      BY <1>1, LotPairs DEF BooksTyped, NoneUntraded
    <3>2. l[2] # NoTrade => l # <<s, NoTrade>> OBVIOUS
    <3> QED BY <1>1, <3>1, <3>2 DEF BooksTyped
  <2> QED BY <2>2, <2>3 DEF NoneUntraded
<1>6. Books(o, v) = Bumped(Books(owned, lots), l, d)
  <2>1. owned \in [Strategies -> Int] /\ lots \in [Lots -> Int] BY <1>1 DEF BooksTyped
  <2>2. /\ l[1] \in Strategies /\ o[l[1]] = owned[l[1]] + d
        /\ \A s \in Strategies \ {l[1]} : o[s] = owned[s]
        /\ \A m \in Lots \ {l} : v[m] = lots[m]
        /\ l[2] = NoTrade => v[l] = lots[l]
        /\ l[2] # NoTrade => v[l] = lots[l] + d
    BY <1>4, <2>1, LotFacts
  <2> HIDE DEF l, d, o, v
  <2>3. Books(o, v) = Bumped(Books(owned, lots), l, d) 
    BY ONLY <1>4, <1>5, <2>1, <2>2, BooksMove, SMTT(30)
  <2> QED BY <2>3
<1>7. Follows(Books(o, v), memoryGap - 1, rest, truth, broker)
  <2>1. Books(owned, lots) \in [Lots -> Int] BY <1>1, BooksAre DEF BooksTyped
  <2>2. Follows(Books(owned, lots), memoryGap, unbooked, truth, broker)
    BY <1>2 DEF BooksInv, MemoryNear, Informed
  <2> QED BY <1>1, <1>2, <1>3, <1>6, <2>1, <2>2, FollowsTold DEF BooksTyped
<1>8. memoryGap - 1 \in Int BY <1>1 DEF BooksTyped
<1>9. /\ file' \in [Lots -> Int] /\ fileGap' \in Int
      /\ Follows(file', fileGap', IF store = "ledger" THEN rest ELSE <<>>, truth, broker)
  <2>1. file \in [Lots -> Int] /\ fileGap \in Int BY <1>1 DEF BooksTyped, FileTyped
  <2> HIDE DEF fill, l, d, o, v, rest
  <2>2. CASE store = "state" /\ Persist(o, v, memoryGap - 1)
    <3>1. FileTyped BY <1>1 DEF BooksTyped
    <3> QED BY <1>2, <1>3, <1>5, <1>7, <1>8, <2>1, <2>2, <3>1, Persisted
  <2>3. CASE store = "ledger"
    <3>1. Follows(file, fileGap, unbooked, truth, broker) BY <2>3 DEF BooksInv, FileNear, Due
    <3>2. /\ Follows(Bumped(file, l, d), fileGap - 1, rest, truth, broker)
          /\ Follows(file, fileGap, rest, truth, broker)
      BY <1>2, <1>3, <2>1, <3>1, FollowsTold DEF l, d, rest, fill
    <3>3. Bumped(file, l, d) = [file EXCEPT ![l] = @ + d] BY DEF Bumped
    <3>4. Bumped(file, l, d) \in [Lots -> Int] BY <1>4, <2>1 DEF Bumped
    <3>5. \/ file' = Bumped(file, l, d) /\ fileGap' = fileGap - 1
          \/ file' = file /\ fileGap' = fileGap
      BY <1>2, <2>3, <3>3
    <3>6. fileGap - 1 \in Int BY <2>1
    <3> QED BY <2>1, <2>3, <3>2, <3>4, <3>5, <3>6
  <2> QED BY <1>2, <2>2, <2>3
<1> HIDE DEF fill, l, d, o, v, rest
<1>10. BooksTyped' BY <1>1, <1>2, <1>3, <1>5, <1>8, <1>9 DEF BooksTyped, FileTyped
<1>11. Idle' /\ Forgotten' /\ MemoryNear'
  BY <1>2, <1>7 DEF Idle, Forgotten, MemoryNear, Trading, Informed
<1>12. FileNear' BY <1>2, <1>9 DEF FileNear, Due
<1> QED BY <1>10, <1>11, <1>12 DEF BooksInv

LEMMA BooksBookUnknown == ASSUME BooksInv, BookUnknown PROVE BooksInv'
<1>1. BooksTyped BY DEF BooksInv
<1>2. /\ engine = "running" /\ engine' = engine /\ unbooked # <<>> /\ Head(unbooked).lot = NoLot
      /\ unbooked' = Tail(unbooked) /\ Persist(owned, lots, memoryGap)
      /\ UNCHANGED <<store, owned, lots, broker, stops, truth, memoryGap>>
  BY DEF BookUnknown, market
<1>3. unbooked \in Seq(Fill) /\ unbooked' \in Seq(Fill) BY <1>1, <1>2, QueueShrinks DEF BooksTyped
<1>4. Books(owned, lots) \in [Lots -> Int] BY <1>1, BooksAre DEF BooksTyped
<1>5. Follows(Books(owned, lots), memoryGap, unbooked', truth, broker)
  <2>1. Follows(Books(owned, lots), memoryGap, unbooked, truth, broker)
    BY <1>2 DEF BooksInv, MemoryNear, Informed
  <2> QED BY <1>1, <1>2, <1>3, <1>4, <2>1, FollowsIgnored DEF BooksTyped
<1>6. store = "ledger" => Follows(file, fileGap, unbooked', truth, broker)
  <2> SUFFICES ASSUME store = "ledger" PROVE Follows(file, fileGap, unbooked', truth, broker)
    OBVIOUS
  <2>1. Follows(file, fileGap, unbooked, truth, broker) BY DEF BooksInv, FileNear, Due
  <2> QED BY <1>1, <1>2, <1>3, <2>1, FollowsIgnored DEF BooksTyped, FileTyped
<1>7. /\ file' \in [Lots -> Int] /\ fileGap' \in Int
      /\ Follows(file', fileGap', IF store = "ledger" THEN unbooked' ELSE <<>>, truth, broker)
  BY <1>1, <1>2, <1>3, <1>5, <1>6, Persisted DEF BooksTyped
<1>8. BooksTyped' BY <1>1, <1>2, <1>3, <1>7 DEF BooksTyped, FileTyped
<1>9. Idle' /\ Forgotten' /\ MemoryNear'
  BY <1>2, <1>5 DEF Idle, Forgotten, MemoryNear, Trading, Informed
<1>10. FileNear' BY <1>2, <1>7 DEF FileNear, Due
<1> QED BY <1>8, <1>9, <1>10 DEF BooksInv

LEMMA BooksPersistStart == ASSUME BooksInv, PersistStart PROVE BooksInv'
<1>1. BooksTyped BY DEF BooksInv
<1>2. /\ engine = "adopted" /\ engine' = "persisted" /\ Persist(owned, lots, memoryGap)
      /\ UNCHANGED <<store, owned, lots, unbooked, tracked, broker, stops, truth, memoryGap>>
  BY DEF PersistStart, memory, market
<1>3. Follows(Books(owned, lots), memoryGap, unbooked, truth, broker)
  BY <1>2 DEF BooksInv, MemoryNear, Informed
<1>4. store = "ledger" => Follows(file, fileGap, unbooked, truth, broker)
  BY DEF BooksInv, FileNear, Due
<1>5. /\ file' \in [Lots -> Int] /\ fileGap' \in Int
      /\ Follows(file', fileGap', IF store = "ledger" THEN unbooked ELSE <<>>, truth, broker)
  BY <1>1, <1>2, <1>3, <1>4, Persisted DEF BooksTyped
<1>6. BooksTyped' BY <1>1, <1>2, <1>5 DEF BooksTyped, FileTyped
<1>7. Idle' BY <1>2 DEF BooksInv, Idle, Trading
<1>8. Forgotten' /\ MemoryNear' BY <1>2, <1>3 DEF Forgotten, MemoryNear, Informed
<1>9. FileNear' BY <1>2, <1>5 DEF FileNear, Due
<1> QED BY <1>6, <1>7, <1>8, <1>9 DEF BooksInv

-----------------------------------------------------------------------------
(* Adoption. *)

LEMMA BooksAdopt ==
  ASSUME BooksInv, ~Informed(engine), engine' = "adopted",
         UNCHANGED <<store, unbooked, tracked, broker, stops>>,
         owned' \in [Strategies -> Int], lots' \in [Lots -> Int], NoneUntraded(lots'),
         truth' \in [Lots -> Int], file' \in [Lots -> Int], memoryGap' \in Int, fileGap' \in Int,
         Near(Books(owned', lots'), memoryGap', truth', broker),
         Near(file', fileGap', truth', broker)
  PROVE  BooksInv'
<1>1. BooksTyped' BY DEF BooksInv, BooksTyped, FileTyped
<1>2. tracked = {} /\ Known(unbooked) = 0 /\ unbooked \in Seq(Fill) /\ Known(<<>>) = 0
  BY NothingBooked DEF BooksInv, Idle, BooksTyped, Trading, Informed
<1>3. Idle' /\ Forgotten' BY <1>2 DEF Idle, Forgotten, Informed
<1>4. Books(owned', lots') \in [Lots -> Int] BY BooksAre
<1>5. Follows(Books(owned', lots'), memoryGap', unbooked, truth', broker)
  BY <1>2, <1>4, FollowsIdle
<1>6. Follows(file', fileGap', unbooked, truth', broker) BY <1>2, FollowsIdle
<1>7. Follows(file', fileGap', <<>>, truth', broker) BY FollowsNothing
<1>8. MemoryNear' BY <1>5 DEF MemoryNear
<1>9. FileNear' BY <1>6, <1>7 DEF FileNear, Due
<1> QED BY <1>1, <1>3, <1>8, <1>9 DEF BooksInv

LEMMA GapFromFileNear ==
  ASSUME BooksInv, NEW f \in [Lots -> Int]
  PROVE  GapFromFile(f) \in Int /\ Near(f, GapFromFile(f), truth, broker)
<1>1. Unknown \in Nat /\ Unknown > 1 BY RestartConstants DEF Unknown
<1>2. fileGap \in Int /\ Near(file, fileGap, truth, broker)
  BY FileIsNear DEF BooksInv, BooksTyped
<1>3. CASE f = truth /\ Explains(f, broker) BY <1>3 DEF GapFromFile, Near
<1>4. CASE ~(f = truth /\ Explains(f, broker)) /\ f = file BY <1>2, <1>4 DEF GapFromFile
<1>5. CASE ~(f = truth /\ Explains(f, broker)) /\ f # file
  BY <1>1, <1>5, FarIsNear DEF GapFromFile
<1> QED BY <1>3, <1>4, <1>5

LEMMA GapFromOperatorNear ==
  ASSUME NEW allocs, NEW f, NamedTwice(allocs) \/ f = Said(allocs)
  PROVE  /\ GapFromOperator(allocs) \in Int
         /\ Near(f, GapFromOperator(allocs), Said(allocs), broker)
<1>1. Unknown \in Nat /\ Unknown > 1 BY RestartConstants DEF Unknown
<1>2. CASE NamedTwice(allocs) BY <1>1, <1>2, FarIsNear DEF GapFromOperator
<1>3. CASE ~NamedTwice(allocs) BY <1>3 DEF GapFromOperator, Near
<1> QED BY <1>2, <1>3

-----------------------------------------------------------------------------
(* What the gate shows, and what a start restores.                          *)

ShownTyped ==
  /\ PositionsTyped /\ status.allocs \in Seq(Allocation(Sources)) /\ seen.truth \in [Lots -> Int]
(* The file is as near the truth as when the positions were read.           *)
SeenNear ==
  engine = "gate" /\ complete => Near(file, seen.gap, seen.truth, gate.positions)
ShownTrue ==
  engine = "gate" /\ gate.pc = "clear"
    => status = GateStatus(gate.positions, Stored, configured) /\ status.phase = "clear"
ShownInv == ShownTyped /\ SeenNear /\ ShownTrue /\ RestartTrue

LEMMA WiderAllocation ==
  ASSUME NEW A, A \subseteq Sources PROVE Allocation(A) \subseteq Allocation(Sources)
BY DEF Allocation

LEMMA SubmissionTyped ==
  /\ \A sub \in Submissions : sub.allocs \in Seq(Allocation(Sources))
  /\ \A conf \in Configurations : conf \in Seq(Allocation({"config"}))
                                  /\ conf \in Seq(Allocation(Sources))
<1>1. /\ Allocation({"operator"}) \subseteq Allocation(Sources)
      /\ Allocation({"config"}) \subseteq Allocation(Sources)
  BY WiderAllocation DEF Sources
<1>2. ASSUME NEW sub \in Submissions PROVE sub.allocs \in Seq(Allocation(Sources))
  BY <1>1, SubmissionConstants, WiderSeq
<1>3. ASSUME NEW conf \in Configurations
      PROVE  conf \in Seq(Allocation({"config"})) /\ conf \in Seq(Allocation(Sources))
  BY <1>1, SubmissionConstants, WiderSeq
<1> QED BY <1>2, <1>3

(* A status that needs no operator has nothing to allocate, or all that is  *)
(* held.                                                                    *)
LEMMA GateStatusIs ==
  ASSUME NEW positions, NEW stored, NEW conf
  PROVE  LET shown == GateStatus(positions, stored, conf) IN
         /\ shown.allocs \in {<<>>, stored \o conf}
         /\ shown.phase = "clear"
              => \/ Required(positions) = {} /\ shown.allocs = <<>>
                 \/ /\ Fits(positions, stored \o conf) /\ Covers(positions, stored \o conf)
                    /\ shown.allocs = stored \o conf
<1> DEFINE auto == stored \o conf
           shown == GateStatus(positions, stored, conf)
<1>1. CASE Unadoptable(positions) # {}
  <2>1. Required(positions) # {} BY <1>1 DEF Unadoptable
  <2>2. shown = Shown("blocked", positions, <<>>) BY <1>1, <2>1, Zenon DEF GateStatus
  <2> QED BY <2>2 DEF Shown
<1>2. CASE Unadoptable(positions) = {} /\ Required(positions) = {}
  <2>1. shown = Shown("clear", positions, <<>>) BY <1>2, Zenon DEF GateStatus
  <2> QED BY <1>2, <2>1 DEF Shown
<1>3. CASE Unadoptable(positions) = {} /\ Required(positions) # {}
  <2>1. \/ \E phase \in {"blocked", "awaiting_mapping"} :
              \E allocs \in {<<>>, auto} : shown = Shown(phase, positions, allocs)
        \/ /\ Fits(positions, auto) /\ Covers(positions, auto)
           /\ shown = Shown("clear", positions, auto)
    BY <1>3, Zenon DEF GateStatus
  <2> QED BY <2>1 DEF Shown
<1> QED BY <1>1, <1>2, <1>3

LEMMA AllocationsTyped ==
  ASSUME StartInv, ShownTyped, gate.pc \in {"clear", "released"}
  PROVE  Allocations \in Seq(Allocation(Sources))
<1>1. gate.pc = "released" => gate.taken \in Submissions BY DEF StartInv, GateInv, GateType
<1> QED BY <1>1, SubmissionTyped DEF Allocations, ShownTyped

LEMMA AllocationsFromFile ==
  ASSUME StartInv, ShownInv, engine = "gate", FromFile, FileTyped
  PROVE  \/ Allocations = <<>> /\ Required(gate.positions) = {}
         \/ /\ Allocations = Stored
            /\ Fits(gate.positions, Stored) /\ Covers(gate.positions, Stored)
<1> DEFINE auto == Stored \o configured
<1>1. gate.pc = "clear" /\ Allocations = status.allocs BY DEF FromFile, Allocations
<1>2. status = GateStatus(gate.positions, Stored, configured) /\ status.phase = "clear"
  BY <1>1 DEF ShownInv, ShownTrue
<1>3. \/ Required(gate.positions) = {} /\ Allocations = <<>>
      \/ /\ Fits(gate.positions, auto) /\ Covers(gate.positions, auto)
         /\ Allocations = auto
  BY <1>1, <1>2, GateStatusIs
<1>4. configured \in Configurations BY DEF StartInv, GateInv, GateType
<1>5. configured \in Seq(Allocation({"config"})) /\ Stored \in Seq(Allocation(FileSources))
  BY <1>4, SubmissionTyped, StoredAre
<1>6. CASE configured = <<>>
  <2>1. auto = Stored BY <1>5, <1>6
  <2> QED BY <1>3, <2>1
<1>7. CASE configured # <<>> /\ Allocations = auto
  <2> DEFINE n == Len(Stored) + 1
  <2>1. /\ n \in DOMAIN auto /\ auto[n] = configured[1]
        /\ configured[1] \in Allocation({"config"})
    <3>1. Len(configured) \in Nat /\ Len(configured) # 0 /\ Len(Stored) \in Nat BY <1>5, <1>7
    <3> QED BY <1>5, <3>1
  <2>2. auto[n].source = "config" BY <2>1 DEF Allocation
  <2> QED BY <1>7, <2>1, <2>2 DEF FromFile
<1> QED BY <1>3, <1>6, <1>7

LEMMA SaidNothing ==
  ASSUME FileTyped, NEW failed
  PROVE  <<>> \in Seq(Allocation(Sources)) /\ Said(<<>>) = Nobody /\ Recorded(<<>>, failed) = file
         /\ ~NamedTwice(<<>>)
<1>1. <<>> \in Seq(Allocation(Sources)) /\ DOMAIN <<>> = {} OBVIOUS
<1>2. \A l : LastFor(<<>>, l) = 0 BY <1>1, LastForIs
<1> QED BY <1>1, <1>2 DEF Said, Nobody, Recorded, NamedTwice, FileTyped

(* What the file proposed is what is adopted, and it is left as it was.     *)
LEMMA AdoptsFile ==
  ASSUME StartInv, ShownInv, engine = "gate", FromFile, FileTyped, NEW failed
  PROVE  /\ ~NamedTwice(Allocations) /\ Recorded(Allocations, failed) = file
<1>1. CASE Allocations = <<>> BY <1>1, SaidNothing
<1>2. CASE Allocations = Stored
  BY <1>2, StoredAre, RecordedStored DEF ShownInv, ShownTyped
<1> QED BY <1>1, <1>2, AllocationsFromFile

LEMMA BooksAdopted ==
  ASSUME BooksInv, StartInv, ShownInv, NEW failed, AdoptAllocations(failed)
  PROVE  BooksInv'
<1> DEFINE allocs == Allocations
           said == Said(allocs)
           written == Recorded(allocs, failed)
<1>1. /\ engine = "gate" /\ gate.pc \in {"clear", "released"} /\ engine' = "adopted"
      /\ owned' = OwnedBy(allocs) /\ lots' = AdoptedLots(allocs)
      /\ truth' = IF FromFile THEN truth ELSE said
      /\ memoryGap' = IF FromFile THEN GapFromFile(said) ELSE GapFromOperator(allocs)
      /\ file' = written
      /\ fileGap' = IF FromFile THEN fileGap
                    ELSE IF written = said THEN GapFromOperator(allocs) ELSE Unknown
      /\ UNCHANGED <<store, unbooked, tracked, broker, stops>>
  BY DEF AdoptAllocations, market
<1>2. BooksTyped /\ FileTyped /\ file \in [Lots -> Int] /\ ~Informed(engine) /\ ShownTyped
  BY <1>1 DEF BooksInv, BooksTyped, FileTyped, Informed, ShownInv
<1>3. allocs \in Seq(Allocation(Sources)) BY <1>1, <1>2, AllocationsTyped
<1>4. /\ owned' \in [Strategies -> Int] /\ lots' \in [Lots -> Int] /\ NoneUntraded(lots')
      /\ said \in [Lots -> Int] /\ file' \in [Lots -> Int]
  BY <1>1, <1>2, <1>3, OwnedTyped, SaidTyped, RecordedTyped
<1>5. ~NamedTwice(allocs) => Books(owned', lots') = said BY <1>1, <1>3, BooksSaid
<1>6. Unknown \in Nat /\ Unknown > 1 BY RestartConstants DEF Unknown
<1> HIDE DEF allocs, said, written
<1>7. CASE FromFile
  <2>1. ~NamedTwice(allocs) /\ file' = file BY <1>1, <1>2, <1>7, AdoptsFile DEF allocs, written
  <2>2. memoryGap' \in Int /\ Near(said, memoryGap', truth, broker)
    BY <1>1, <1>4, <1>7, GapFromFileNear
  <2>3. fileGap' \in Int /\ Near(file', fileGap', truth, broker)
    BY <1>1, <1>2, <1>7, <2>1, FileIsNear DEF BooksTyped
  <2>4. truth' = truth /\ truth' \in [Lots -> Int] BY <1>1, <1>2, <1>7 DEF BooksTyped
  <2> QED BY <1>1, <1>2, <1>4, <1>5, <2>1, <2>2, <2>3, <2>4, BooksAdopt
<1>8. CASE ~FromFile
  <2>1. memoryGap' = GapFromOperator(allocs) /\ truth' = said BY <1>1, <1>8
  <2>2. memoryGap' \in Int /\ Near(Books(owned', lots'), memoryGap', truth', broker)
    BY <1>5, <2>1, GapFromOperatorNear DEF said
  <2>3. fileGap' \in Int /\ Near(file', fileGap', truth', broker)
    <3>1. CASE written = said
      <4>1. fileGap' = GapFromOperator(allocs) /\ file' = said BY <1>1, <1>8, <3>1
      <4> QED BY <2>1, <4>1, GapFromOperatorNear DEF said
    <3>2. CASE written # said
      <4>1. fileGap' = Unknown BY <1>1, <1>8, <3>2
      <4> QED BY <1>6, <4>1, FarIsNear
    <3> QED BY <3>1, <3>2
  <2> QED BY <1>1, <1>2, <1>4, <2>1, <2>2, <2>3, BooksAdopt
<1> QED BY <1>7, <1>8

LEMMA BooksAdoptRaises ==
  ASSUME BooksInv, StartInv, ShownInv, NEW n \in Nat, AdoptRaises(n)
  PROVE  BooksInv'
<1> DEFINE some == SubSeq(Allocations, 1, n - 1)
<1>1. /\ gate.pc \in {"clear", "released"} /\ n \in DOMAIN Allocations /\ Exit
      /\ file' = Recorded(some, {}) /\ fileGap' = IF file' = file THEN fileGap ELSE Unknown
      /\ UNCHANGED <<store, broker, stops, truth>>
  BY DEF AdoptRaises, market
<1>2. Allocations \in Seq(Allocation(Sources)) BY <1>1, AllocationsTyped DEF ShownInv
<1>3. some \in Seq(Allocation(Sources))
  <2>1. n - 1 <= Len(Allocations) /\ n - 1 \in Nat BY <1>1, <1>2
  <2> QED BY <1>2, <2>1
<1>4. file' \in [Lots -> Int] /\ stops' \in [Lots -> Int]
  BY <1>1, <1>3, RecordedTyped DEF BooksInv, BooksTyped, FileTyped
<1>5. Unknown \in Nat /\ Unknown > 1 BY RestartConstants DEF Unknown
<1>6. fileGap' \in Int /\ Near(file', fileGap', truth, broker)
  <2>1. CASE file' = file BY <1>1, <2>1, FileIsNear DEF BooksInv, BooksTyped
  <2>2. CASE file' # file BY <1>1, <1>5, <2>2, FarIsNear
  <2> QED BY <2>1, <2>2
<1> QED BY <1>1, <1>4, <1>6, BooksLost

LEMMA BooksMarkClear == ASSUME BooksInv, MarkClear PROVE BooksInv'
<1>1. /\ engine = "cleared" /\ engine' = "adopted" /\ memoryGap' = GapFromFile(Nobody)
      /\ UNCHANGED <<store, file, owned, lots, unbooked, tracked, broker, stops, truth, fileGap>>
  BY DEF MarkClear, memory, market
<1>2. owned = Zeros /\ lots = Nobody /\ BooksTyped
  BY <1>1 DEF BooksInv, Forgotten, Informed
<1>3. memoryGap' \in Int /\ Near(Books(owned', lots'), memoryGap', truth, broker)
  BY <1>1, <1>2, NothingBooked, GapFromFileNear
<1> QED BY <1>1, <1>2, <1>3, FileIsNear, BooksAdopt DEF BooksTyped, FileTyped, Informed

LEMMA BooksExit ==
  ASSUME BooksInv, Exit, UNCHANGED <<store, file, market, truth, fileGap>>
  PROVE  BooksInv'
BY FileIsNear, BooksLost DEF BooksInv, BooksTyped, FileTyped, market

LEMMA BooksSteps ==
  ASSUME BooksInv, StartInv, ShownInv, [Next]_vars PROVE BooksInv'
<1> USE DEF memory, market, history, bounds
<1>1. stops \in [Lots -> Int] /\ BooksTyped BY DEF BooksInv, BooksTyped
<1>2. CASE Startup
  <2>1. CASE GateStep BY <1>1, <2>1, BooksRest DEF GateStep, books
  <2>2. CASE GateFails BY <2>2, BooksExit DEF GateFails
  <2>3. CASE MarkClear BY <2>3, BooksMarkClear
  <2>4. CASE PersistStart BY <2>4, BooksPersistStart
  <2>5. ASSUME NEW all \in BOOLEAN, ReadPositions(all) PROVE BooksInv'
    BY <1>1, <2>5, BooksRest DEF ReadPositions, books, Trading, Informed
  <2>6. ASSUME NEW all \in BOOLEAN, Refresh(all) PROVE BooksInv'
    BY <1>1, <2>6, BooksRest DEF Refresh, books, Trading, Informed
  <2>7. ASSUME NEW all \in BOOLEAN, CheckOpenOrders(all) PROVE BooksInv'
    <3>1. CASE Exit BY <2>7, <3>1, BooksExit DEF CheckOpenOrders
    <3>2. CASE engine' = "seeding" /\ UNCHANGED <<memory, memoryGap>>
      BY <1>1, <2>7, <3>2, BooksRest DEF CheckOpenOrders, books, Trading, Informed
    <3> QED BY <2>7, <3>1, <3>2 DEF CheckOpenOrders
  <2>8. CASE SeedRaises BY <2>8, BooksExit DEF SeedRaises
  <2>9. CASE StartRunning BY <1>1, <2>9, BooksRest DEF StartRunning, books, Trading, Informed
  <2>10. ASSUME NEW failed, AdoptAllocations(failed) PROVE BooksInv' BY <2>10, BooksAdopted
  <2>11. ASSUME NEW n \in 1..Cardinality(Lots), AdoptRaises(n) PROVE BooksInv'
    <3>1. n \in Nat BY LotsFinite, FS_CardinalityType
    <3> QED BY <2>11, <3>1, BooksAdoptRaises
  <2>12. ASSUME NEW l \in Lots, SeedStop(l) PROVE BooksInv'
    <3>1. /\ engine = "seeding" /\ engine' = engine /\ UNCHANGED books
          /\ stops' = [stops EXCEPT ![l] = Saved(owned, lots)[l]]
      BY <2>12 DEF SeedStop, PlaceStop, books
    <3>2. Saved(owned, lots) \in [Lots -> Int] BY <1>1, SavedAre DEF BooksTyped
    <3>3. stops' \in [Lots -> Int] BY <1>1, <3>1, <3>2
    <3> QED BY <3>1, <3>3, BooksRest DEF Trading, Informed
  <2> QED
    BY <1>2, <2>1, <2>2, <2>3, <2>4, <2>5, <2>6, <2>7, <2>8, <2>9, <2>10, <2>11, <2>12
    DEF Startup
<1>3. CASE OperatorStep BY <1>1, <1>3, BooksRest DEF OperatorStep, books
<1>4. CASE Book
  <2> DEFINE l == Head(unbooked).lot
  <2>1. l \in Lots
    <3>1. unbooked \in Seq(Fill) /\ unbooked # <<>> /\ l # NoLot BY <1>1, <1>4 DEF Book, BooksTyped
    <3>2. Head(unbooked) \in Fill BY <3>1, QueueShrinks
    <3> QED BY <3>1, <3>2 DEF Fill
  <2>2. Saved(owned', lots')[l] \in Int
    <3> DEFINE d == Head(unbooked).quantity
    <3>1. /\ owned' = [owned EXCEPT ![l[1]] = @ + d]
          /\ lots' = IF l[2] = NoTrade THEN lots ELSE [lots EXCEPT ![l] = @ + d]
      BY <1>4 DEF Book
    <3>2. d \in Int
      <4>1. unbooked \in Seq(Fill) /\ unbooked # <<>> BY <1>1, <1>4 DEF Book, BooksTyped
      <4>2. Head(unbooked) \in Fill BY <4>1, QueueShrinks
      <4> QED BY <4>2 DEF Fill
    <3> HIDE DEF l, d
    <3>3. owned' \in [Strategies -> Int] /\ lots' \in [Lots -> Int]
      BY <1>1, <2>1, <3>1, <3>2, LotFacts DEF BooksTyped
    <3>4. lots'[l] \in Int /\ owned'[l[1]] \in Int BY <2>1, <3>3, LotFacts
    <3> QED BY <2>1, <3>4 DEF Saved
  <2>3. \/ stops' = stops \/ stops' = [stops EXCEPT ![l] = 0]
        \/ stops' = [stops EXCEPT ![l] = Saved(owned', lots')[l]]
    BY <1>4 DEF Book, PlaceStop
  <2> HIDE DEF l
  <2>4. stops' \in [Lots -> Int] BY <1>1, <2>1, <2>2, <2>3
  <2> QED BY <1>4, <2>4, BooksBook
<1>5. CASE BookUnknown BY <1>5, BooksBookUnknown
<1>6. ASSUME NEW l \in Lots, EntryFills(l) PROVE BooksInv'
  <2>1. truth' = Bumped(truth, l, 1) BY <1>6 DEF EntryFills, Bumped
  <2> QED BY <1>1, <1>6, <2>1, BooksTrade DEF EntryFills, Trading
<1>7. ASSUME NEW l \in Lots, CloseFills(l) PROVE BooksInv'
  <2> DEFINE d == -Saved(owned, lots)[l]
  <2>1. Saved(owned, lots) \in [Lots -> Int] BY <1>1, SavedAre DEF BooksTyped
  <2>2. Saved(owned, lots)[l] \in Int /\ d \in Int BY <2>1
  <2>3. /\ engine = "running" /\ Trade(Executes[l[1]], d) /\ Report(l, Executes[l[1]], d)
        /\ truth' = [truth EXCEPT ![l] = @ - Saved(owned, lots)[l]]
        /\ UNCHANGED <<engine, store, file, owned, lots, stops>>
    BY <1>7 DEF CloseFills
  <2>4. truth[l] - Saved(owned, lots)[l] = truth[l] + d
    <3>1. truth[l] \in Int BY <1>1 DEF BooksTyped
    <3> QED BY <2>2, <3>1
  <2>5. truth' = Bumped(truth, l, d) BY <2>3, <2>4 DEF Bumped
  <2> HIDE DEF d
  <2> QED BY <1>1, <2>2, <2>3, <2>5, BooksTrade DEF Trading
<1>8. ASSUME NEW l \in Lots, StopFills(l) PROVE BooksInv'
  <2> DEFINE d == -stops[l]
  <2>1. stops[l] \in Int /\ d \in Int /\ truth[l] \in Int BY <1>1 DEF BooksTyped
  <2>2. /\ Trade(Executes[l[1]], d) /\ truth' = [truth EXCEPT ![l] = @ - stops[l]]
        /\ stops' = [stops EXCEPT ![l] = 0]
        /\ IF engine = "down" THEN UNCHANGED unbooked
           ELSE Report(IF l \in tracked THEN l ELSE NoLot, Executes[l[1]], d)
        /\ UNCHANGED <<engine, store, file, owned, lots, tracked>>
    BY <1>8 DEF StopFills
  <2>3. truth[l] - stops[l] = truth[l] + d BY <2>1
  <2>4. truth' = Bumped(truth, l, d) BY <2>2, <2>3 DEF Bumped
  <2>5. stops' \in [Lots -> Int] BY <1>1, <2>2
  <2> HIDE DEF d
  <2>6. CASE engine # "down" /\ l \in tracked
    <3>1. Trading(engine) BY <2>6 DEF BooksInv, Idle
    <3>2. Report(l, Executes[l[1]], d) BY <2>2, <2>6
    <3> QED BY <2>1, <2>2, <2>4, <2>5, <3>1, <3>2, BooksTrade
  <2>7. CASE engine = "down" \/ l \notin tracked
    <3>1. unbooked' = unbooked \/ Report(NoLot, Executes[l[1]], d) BY <2>2, <2>7
    <3>2. engine = "down" => unbooked' = unbooked BY <2>2
    <3> QED BY <2>1, <2>2, <2>4, <2>5, <3>1, <3>2, BooksMissed
  <2> QED BY <2>6, <2>7
<1>9. CASE World
  <2>1. CASE StartProcess BY <1>1, <2>1, BooksRest DEF StartProcess, books, Trading, Informed
  <2>2. CASE Crash BY <2>2, BooksExit DEF Crash
  <2>3. CASE ReviewOrders
    BY <1>1, <2>3, NothingBooked, BooksRest DEF ReviewOrders, books, Trading, Informed
  <2>4. ASSUME NEW f \in Foreign, ForeignTrade(f[1], f[2]) PROVE BooksInv'
    <3>1. f[1] \in Instruments /\ f[2] \in Int BY RestartConstants
    <3> QED BY <2>4, <3>1, BooksForeign
  <2> QED BY <1>9, <2>1, <2>2, <2>3, <2>4 DEF World
<1>10. CASE UNCHANGED vars BY <1>1, <1>10, BooksRest DEF vars, books
<1> QED BY <1>2, <1>3, <1>4, <1>5, <1>6, <1>7, <1>8, <1>9, <1>10 DEF Next, Run

-----------------------------------------------------------------------------

LEMMA ShownStart == Init => ShownInv
<1> SUFFICES ASSUME Init PROVE ShownInv OBVIOUS
<1>1. /\ engine = "down" /\ gate.positions = Flat /\ status.allocs = <<>> /\ seen.truth = Nobody
  BY DEF Init, GateInit, NotRun, Inactive, Shown, NothingSeen
<1>2. ShownTyped BY <1>1, NothingBooked DEF ShownTyped, PositionsTyped
<1> QED BY <1>1, <1>2 DEF ShownInv, SeenNear, ShownTrue, RestartTrue

LEMMA ShownLost == ASSUME ShownInv, Exit PROVE ShownInv'
<1>1. /\ engine' = "down" /\ gate'.positions = Flat /\ status'.allocs = <<>>
      /\ seen'.truth = Nobody
  BY DEF Exit, NewController, NotRun, Inactive, Shown, NothingSeen
<1>2. ShownTyped' BY <1>1, NothingBooked DEF ShownTyped, PositionsTyped
<1> QED BY <1>1, <1>2 DEF ShownInv, SeenNear, ShownTrue, RestartTrue

(* The steps of a process that is neither at the gate nor has just adopted. *)
LEMMA ShownPast ==
  ASSUME ShownInv, engine' \notin {"gate", "adopted"}, UNCHANGED <<gate, status>>,
         seen'.truth \in [Lots -> Int]
  PROVE  ShownInv'
<1>1. ShownTyped' BY DEF ShownInv, ShownTyped, PositionsTyped
<1> QED BY <1>1 DEF ShownInv, SeenNear, ShownTrue, RestartTrue

LEMMA StoredSame ==
  ASSUME UNCHANGED <<store, file>>, gate'.positions = gate.positions PROVE Stored' = Stored
<1>1. \A l : StoredAllocation(l)' = StoredAllocation(l) BY DEF StoredAllocation
<1> QED BY <1>1 DEF Stored

(* At the gate, with the books as they were.                                *)
LEMMA ShownRest ==
  ASSUME ShownInv, UNCHANGED <<engine, gate, status, configured, store, file, complete, seen>>,
         engine = "adopted" => UNCHANGED <<owned, lots>>
  PROVE  ShownInv'
<1>1. ShownTyped' /\ SeenNear' BY DEF ShownInv, ShownTyped, PositionsTyped, SeenNear
<1>2. ShownTrue' BY StoredSame DEF ShownInv, ShownTrue
<1>3. RestartTrue' BY DEF ShownInv, RestartTrue, FromFile, Allocations
<1> QED BY <1>1, <1>2, <1>3 DEF ShownInv

LEMMA ShownRead ==
  ASSUME ShownInv, BooksInv, NEW all \in BOOLEAN,
         gate'.positions = IF all THEN broker ELSE Flat,
         engine' = "gate" /\ gate'.pc = "build", complete' = all, UNCHANGED <<status, file>>,
         seen' = [truth |-> truth, gap |-> fileGap]
  PROVE  ShownInv'
<1>1. ShownTyped'
  BY NothingBooked DEF ShownInv, ShownTyped, PositionsTyped, BooksInv, BooksTyped
<1>2. SeenNear' BY FileIsNear DEF SeenNear
<1> QED BY <1>1, <1>2 DEF ShownInv, ShownTrue, RestartTrue

LEMMA ShownGateStep == ASSUME BooksInv, ShownInv, StartInv, GateStep PROVE ShownInv'
<1>1. /\ engine = "gate" /\ UNCHANGED <<engine, store, file, complete, seen>>
      /\ configured' = configured
      /\ DOMAIN gate = {"pc", "positions", "taken", "early"}
      /\ DOMAIN status = {"phase", "positions", "allocs", "acks"}
      /\ configured \in Configurations
  BY DEF GateStep, StartInv, GateInv, GateType, BuildStatus, TakeAction, Release,
     RefreshRaises, history
<1>2. gate'.positions = gate.positions
  BY <1>1 DEF GateStep, BuildStatus, TakeAction, Release, RefreshRaises
<1>3. SeenNear' /\ PositionsTyped' /\ RestartTrue'
  BY <1>1, <1>2 DEF ShownInv, ShownTyped, SeenNear, PositionsTyped, RestartTrue
<1>4. CASE BuildStatus(Stored)
  <2>1. /\ status' = GateStatus(gate.positions, Stored, configured)
        /\ gate'.pc = "clear" => status'.phase = "clear"
    <3>1. status' = GateStatus(gate.positions, Stored, configured) BY <1>4 DEF BuildStatus
    <3>2. gate'.pc = CASE status'.phase = "clear" -> "clear"
                        [] status'.phase = "blocked" -> "failed"
                        [] OTHER -> IF mappingEnabled THEN "waiting" ELSE "failed"
      BY <1>1, <1>4, <3>1, Zenon DEF BuildStatus
    <3>3. status'.phase \in {"clear", "blocked", "awaiting_mapping"} BY <3>1, StatusShown
    <3> QED BY <3>1, <3>2, <3>3
  <2>2. ShownTrue' BY <1>1, <1>2, <2>1, StoredSame DEF ShownTrue
  <2>3. status'.allocs \in Seq(Allocation(Sources))
    <3>1. status'.allocs \in {<<>>, Stored \o configured} BY <2>1, GateStatusIs
    <3>2. configured \in Seq(Allocation(Sources)) BY <1>1, SubmissionTyped
    <3>3. Stored \in Seq(Allocation(Sources)) BY StoredAre DEF BooksInv, BooksTyped
    <3>4. Stored \o configured \in Seq(Allocation(Sources)) BY <3>2, <3>3
    <3>5. <<>> \in Seq(Allocation(Sources)) OBVIOUS
    <3> QED BY <3>1, <3>4, <3>5
  <2> QED BY <1>1, <1>3, <2>2, <2>3 DEF ShownInv, ShownTyped
<1>5. CASE TakeAction \/ RefreshRaises
  <2>1. gate'.pc # "clear" /\ status' = status
    BY <1>1, <1>5 DEF TakeAction, RefreshRaises
  <2> QED BY <1>1, <1>3, <2>1 DEF ShownInv, ShownTyped, ShownTrue
<1>6. CASE Release
  <2>1. gate'.pc = "released" /\ status'.allocs = gate.taken.allocs /\ gate.pc = "releasing"
    BY <1>1, <1>6 DEF Release
  <2>2. gate.taken \in Submissions BY <2>1 DEF StartInv, GateInv, GateType
  <2>3. ShownTrue' BY <2>1 DEF ShownTrue
  <2> QED BY <1>1, <1>3, <2>1, <2>2, <2>3, SubmissionTyped DEF ShownInv, ShownTyped
<1> QED BY <1>4, <1>5, <1>6 DEF GateStep

LEMMA ShownOperator == ASSUME ShownInv, StartInv, OperatorStep PROVE ShownInv'
<1>1. /\ engine \in {"connected", "gate"}
      /\ UNCHANGED <<engine, store, file, complete, seen, owned, lots, gate, configured>>
      /\ DOMAIN status = {"phase", "positions", "allocs", "acks"}
  BY DEF OperatorStep, Operator, RequestRefresh, SubmitMappings, EventSet, StartInv, GateInv,
     GateType, history, memory
<1>2. CASE status' = status BY <1>1, <1>2, ShownRest
<1>3. ASSUME NEW sub \in Submissions, SubmitMappings(sub) PROVE ShownInv'
  <2>1. status.phase = "awaiting_mapping" /\ status'.allocs = sub.allocs
    BY <1>1, <1>3 DEF SubmitMappings
  <2>2. ~(engine = "gate" /\ gate.pc = "clear") BY <2>1 DEF ShownInv, ShownTrue
  <2>3. ShownTrue' BY <1>1, <2>2 DEF ShownTrue
  <2>4. ShownTyped' BY <1>1, <2>1, SubmissionTyped DEF ShownInv, ShownTyped, PositionsTyped
  <2>5. SeenNear' /\ RestartTrue' BY <1>1 DEF ShownInv, SeenNear, RestartTrue
  <2> QED BY <2>3, <2>4, <2>5 DEF ShownInv
<1>4. CASE RequestRefresh \/ EventSet BY <1>2, <1>4 DEF RequestRefresh, EventSet
<1> QED BY <1>3, <1>4 DEF OperatorStep, Operator

(* What is adopted from the file is what was true.                          *)
LEMMA ShownAdopts ==
  ASSUME ShownInv, StartInv, BooksInv, NEW failed, AdoptAllocations(failed)
  PROVE  ShownInv'
<1>1. /\ engine = "gate" /\ gate.pc \in {"clear", "released"} /\ engine' = "adopted"
      /\ owned' = OwnedBy(Allocations) /\ lots' = AdoptedLots(Allocations)
      /\ UNCHANGED <<gate, status, complete, seen>>
  BY DEF AdoptAllocations
<1>2. ShownTyped' /\ SeenNear' /\ ShownTrue'
  BY <1>1 DEF ShownInv, ShownTyped, PositionsTyped, SeenNear, ShownTrue
<1>3. FileTyped /\ ShownTyped BY DEF BooksInv, BooksTyped, ShownInv
<1>4. FromFile' = FromFile BY <1>1 DEF FromFile, Allocations
<1>5. RestartTrue'
  <2> SUFFICES ASSUME Required(gate.positions) # {}, FromFile, seen.gap <= 1, complete,
                      NEW l \in Lots, Executes[l[1]] \in Held(gate.positions),
                      OneSided(seen.truth, Executes[l[1]])
               PROVE  Books(owned', lots')[l] = seen.truth[l]
    BY <1>1, <1>4 DEF RestartTrue
  <2>1. /\ Allocations = Stored
        /\ Fits(gate.positions, Stored) /\ Covers(gate.positions, Stored)
    BY <1>1, <1>3, AllocationsFromFile
  <2>2. Books(owned', lots') = Said(Stored) BY <1>1, <1>3, <2>1, StoredAre, BooksSaid
  <2>3. /\ Near(file, seen.gap, seen.truth, gate.positions) /\ seen.truth \in [Lots -> Int]
        /\ PositionsTyped
    BY <1>1, <1>3 DEF ShownInv, SeenNear, ShownTyped
  <2>4. Said(Stored)[l] = seen.truth[l] BY <1>3, <2>1, <2>3, Restores
  <2> QED BY <2>2, <2>4
<1> QED BY <1>2, <1>5 DEF ShownInv

LEMMA ShownSteps ==
  ASSUME BooksInv, StartInv, ShownInv, [Next]_vars PROVE ShownInv'
<1> USE DEF memory, market, history, bounds
<1>1. seen.truth \in [Lots -> Int] /\ truth \in [Lots -> Int]
  BY DEF ShownInv, ShownTyped, BooksInv, BooksTyped
<1>2. CASE Startup
  <2>1. CASE GateStep BY <2>1, ShownGateStep
  <2>2. CASE GateFails BY <2>2, ShownLost DEF GateFails
  <2>3. CASE MarkClear
    <3>1. /\ engine' = "adopted" /\ gate' = gate /\ seen' = seen /\ status'.allocs = <<>>
          /\ gate.pc = "before"
      BY <2>3 DEF MarkClear, Shown, StartInv
    <3>2. ShownTyped' BY <3>1 DEF ShownInv, ShownTyped, PositionsTyped
    <3>3. SeenNear' /\ ShownTrue' BY <3>1 DEF SeenNear, ShownTrue
    <3>4. RestartTrue' BY <3>1 DEF RestartTrue, FromFile
    <3> QED BY <3>2, <3>3, <3>4 DEF ShownInv
  <2>4. CASE PersistStart BY <1>1, <2>4, ShownPast DEF PersistStart
  <2>5. ASSUME NEW all \in BOOLEAN, ReadPositions(all) PROVE ShownInv'
    <3>1. CASE engine' = "cleared" /\ UNCHANGED gateVars
      BY <1>1, <2>5, <3>1, ShownPast DEF ReadPositions
    <3>2. CASE engine' = "gate" /\ BeginRun(IF all THEN broker ELSE Flat)
      <4>1. DOMAIN gate = {"pc", "positions", "taken", "early"} BY DEF StartInv, GateInv, GateType
      <4>2. /\ gate'.positions = (IF all THEN broker ELSE Flat) /\ gate'.pc = "build"
            /\ status' = status
        BY <3>2, <4>1 DEF BeginRun
      <4>3. /\ complete' = all /\ file' = file /\ seen' = [truth |-> truth, gap |-> fileGap]
        BY <2>5 DEF ReadPositions
      <4> QED BY <3>2, <4>2, <4>3, ShownRead
    <3> QED BY <2>5, <3>1, <3>2 DEF ReadPositions
  <2>6. ASSUME NEW all \in BOOLEAN, Refresh(all) PROVE ShownInv'
    <3>1. DOMAIN gate = {"pc", "positions", "taken", "early"} BY DEF StartInv, GateInv, GateType
    <3>2. RefreshReturns(IF all THEN broker ELSE Flat) BY <2>6 DEF Refresh
    <3>3. /\ gate'.positions = (IF all THEN broker ELSE Flat) /\ gate'.pc = "build"
          /\ status' = status
      BY <3>1, <3>2 DEF RefreshReturns
    <3>4. /\ engine' = "gate" /\ complete' = all /\ file' = file
          /\ seen' = [truth |-> truth, gap |-> fileGap]
      BY <2>6 DEF Refresh
    <3> QED BY <3>3, <3>4, ShownRead
  <2>7. ASSUME NEW all \in BOOLEAN, CheckOpenOrders(all) PROVE ShownInv'
    <3>1. CASE Exit BY <3>1, ShownLost
    <3>2. CASE engine' = "seeding" /\ UNCHANGED <<gateVars, seen>> BY <1>1, <3>2, ShownPast
    <3> QED BY <2>7, <3>1, <3>2 DEF CheckOpenOrders
  <2>8. CASE SeedRaises BY <2>8, ShownLost DEF SeedRaises
  <2>9. CASE StartRunning BY <1>1, <2>9, ShownPast DEF StartRunning
  <2>10. ASSUME NEW failed, AdoptAllocations(failed) PROVE ShownInv' BY <2>10, ShownAdopts
  <2>11. ASSUME NEW n, AdoptRaises(n) PROVE ShownInv' BY <2>11, ShownLost DEF AdoptRaises
  <2>12. ASSUME NEW l \in Lots, SeedStop(l) PROVE ShownInv'
    BY <1>1, <2>12, ShownPast DEF SeedStop
  <2> QED
    BY <1>2, <2>1, <2>2, <2>3, <2>4, <2>5, <2>6, <2>7, <2>8, <2>9, <2>10, <2>11, <2>12
    DEF Startup
<1>3. CASE OperatorStep BY <1>3, ShownOperator
<1>4. CASE Book \/ BookUnknown BY <1>1, <1>4, ShownPast DEF Book, BookUnknown
<1>5. ASSUME NEW l \in Lots, EntryFills(l) \/ CloseFills(l) \/ StopFills(l) PROVE ShownInv'
  BY <1>5, ShownRest DEF EntryFills, CloseFills, StopFills
<1>6. CASE World
  <2>1. CASE StartProcess BY <1>1, <2>1, ShownPast DEF StartProcess
  <2>2. CASE Crash BY <2>2, ShownLost DEF Crash
  <2>3. CASE ReviewOrders BY <2>3, ShownRest DEF ReviewOrders
  <2>4. ASSUME NEW i, NEW d, ForeignTrade(i, d) PROVE ShownInv'
    BY <2>4, ShownRest DEF ForeignTrade
  <2> QED BY <1>6, <2>1, <2>2, <2>3, <2>4 DEF World
<1>7. CASE UNCHANGED vars BY <1>7, ShownRest DEF vars
<1> QED BY <1>2, <1>3, <1>4, <1>5, <1>6, <1>7 DEF Next, Run

(* A start that needed no operator restores the lots of what is held as     *)
(* they were, also if the file missed one trade, over any number of         *)
(* restarts, failed writes and trades beside the engine.                    *)
THEOREM RestartAlwaysTrue == Spec => []RestartTrue
<1> DEFINE I == BooksInv /\ ShownInv /\ StartInv
<1>1. Init => I BY BooksStart, ShownStart, Starts
<1>2. I /\ [Next]_vars => I' BY BooksSteps, ShownSteps, StartSteps
<1>3. I => RestartTrue BY DEF ShownInv
<1> QED BY <1>1, <1>2, <1>3, PTL DEF Spec

-----------------------------------------------------------------------------
(* The stops of a start.                                                    *)

(* What allocations that name each lot once adopt is all that is saved.     *)
AllSaved ==
  engine \in {"adopted", "persisted", "seeding"} /\ DistinctLots(Allocations)
    => Unsaved(owned, lots) = {}
(* The stops at work are those seeded so far, until a first one fills.      *)
SeedsKept ==
  engine = "seeding" /\ complete /\ unbooked = <<>>
    => /\ tracked \subseteq SeedPositions
       /\ \A l \in Lots : stops[l] = IF l \in tracked THEN Saved(owned, lots)[l] ELSE 0
SeedInv == AllSaved /\ SeedsKept

LEMMA DistinctSaved ==
  ASSUME NEW allocs \in Seq(Allocation(Sources)), DistinctLots(allocs)
  PROVE  Unsaved(OwnedBy(allocs), AdoptedLots(allocs)) = {}
<1> DEFINE o == OwnedBy(allocs)
           v == AdoptedLots(allocs)
<1>1. ~NamedTwice(allocs) BY DEF DistinctLots, NamedTwice
<1>2. Books(o, v) = Said(allocs) BY <1>1, BooksSaid
<1>3. \A l \in Lots : Said(allocs)[l] # 0 => \E k \in DOMAIN allocs : LotOf(allocs[k]) = l
  BY <1>1, SaidOnce
<1>4. \A l \in Lots : l[2] # NoTrade => v[l] = Said(allocs)[l] BY SaidTyped
<1> HIDE DEF o, v
<1> SUFFICES ASSUME NEW s \in Unsaved(o, v) PROVE FALSE BY DEF o, v
<1>5. PICK l \in Lots : l[1] = s /\ l[2] # NoTrade /\ v[l] # 0 BY DEF Unsaved
<1>6. s \in Strategies /\ Books(o, v)[<<s, NoTrade>>] # 0 BY DEF Unsaved
<1>7. PICK k \in DOMAIN allocs : LotOf(allocs[k]) = l BY <1>3, <1>4, <1>5
<1>8. PICK j \in DOMAIN allocs : LotOf(allocs[j]) = <<s, NoTrade>> BY <1>2, <1>3, <1>6, LotPairs
<1>9. /\ allocs[j].strategy = s /\ allocs[j].trade = NoTrade
      /\ allocs[k].strategy = s /\ allocs[k].trade # NoTrade
  BY <1>5, <1>7, <1>8, AllocsTyped
<1> QED BY <1>9 DEF DistinctLots

LEMMA NothingUnsaved == Unsaved(Zeros, Nobody) = {}
<1> SUFFICES ASSUME NEW s \in Unsaved(Zeros, Nobody) PROVE FALSE OBVIOUS
<1>1. \E l \in Lots : Nobody[l] # 0 BY DEF Unsaved
<1> QED BY <1>1 DEF Nobody

LEMMA SeedAside ==
  ASSUME SeedInv,
         engine' \in {"adopted", "persisted", "seeding"} =>
           /\ UNCHANGED <<gate, status, owned, lots>>
           /\ engine \in {"adopted", "persisted", "seeding"},
         engine' = "seeding" /\ complete' /\ unbooked' = <<>> =>
           engine = "seeding" /\ UNCHANGED <<complete, tracked, stops, unbooked>>
  PROVE  SeedInv'
<1>1. AllSaved' BY DEF SeedInv, AllSaved, Allocations
<1>2. SeedsKept' BY DEF SeedInv, SeedsKept, SeedPositions
<1> QED BY <1>1, <1>2 DEF SeedInv

LEMMA SeedSteps ==
  ASSUME SeedInv, StopsInv, BooksInv, ShownInv, StartInv, ExecutionWatched, [Next]_vars
  PROVE  SeedInv'
<1> USE DEF memory, market, history, bounds
<1>1. CASE Startup
  <2>1. CASE GateStep BY <2>1, SeedAside DEF GateStep
  <2>2. CASE GateFails BY <2>2, SeedAside DEF GateFails, Exit
  <2>3. CASE MarkClear
    <3>1. engine = "cleared" /\ engine' = "adopted" /\ UNCHANGED <<owned, lots>>
      BY <2>3 DEF MarkClear
    <3>2. owned = Zeros /\ lots = Nobody BY <3>1 DEF BooksInv, Forgotten, Informed
    <3> QED BY <3>1, <3>2, NothingUnsaved DEF SeedInv, AllSaved, SeedsKept
  <2>4. CASE PersistStart BY <2>4, SeedAside DEF PersistStart
  <2>5. ASSUME NEW all \in BOOLEAN, ReadPositions(all) PROVE SeedInv'
    BY <2>5, SeedAside DEF ReadPositions
  <2>6. ASSUME NEW all \in BOOLEAN, Refresh(all) PROVE SeedInv' BY <2>6, SeedAside DEF Refresh
  <2>7. ASSUME NEW all \in BOOLEAN, CheckOpenOrders(all) PROVE SeedInv'
    <3>1. CASE Exit BY <3>1, SeedAside DEF Exit
    <3>2. CASE engine' = "seeding" /\ UNCHANGED <<gateVars, memory, stops>>
      <4>1. engine = "persisted" /\ tracked = {} /\ tracked' = {}
        BY <2>7, <3>2 DEF CheckOpenOrders, BooksInv, Idle, Trading
      <4>2. complete' => \A l \in Lots : stops[l] = 0
        BY <2>7, <3>2, ChecksFindNothing DEF WorkingStops, Exit
      <4>3. AllSaved' BY <3>2, <4>1 DEF SeedInv, AllSaved, Allocations
      <4>4. SeedsKept' BY <3>2, <4>1, <4>2 DEF SeedsKept
      <4> QED BY <4>3, <4>4 DEF SeedInv
    <3> QED BY <2>7, <3>1, <3>2 DEF CheckOpenOrders
  <2>8. CASE SeedRaises BY <2>8, SeedAside DEF SeedRaises, Exit
  <2>9. CASE StartRunning BY <2>9, SeedAside DEF StartRunning
  <2>10. ASSUME NEW failed, AdoptAllocations(failed) PROVE SeedInv'
    <3>1. /\ engine' = "adopted" /\ gate.pc \in {"clear", "released"}
          /\ owned' = OwnedBy(Allocations) /\ lots' = AdoptedLots(Allocations)
          /\ UNCHANGED <<gate, status>>
      BY <2>10 DEF AdoptAllocations
    <3>2. Allocations \in Seq(Allocation(Sources)) BY <3>1, AllocationsTyped DEF ShownInv
    <3>3. Allocations' = Allocations BY <3>1 DEF Allocations
    <3>4. AllSaved' BY <3>1, <3>2, <3>3, DistinctSaved DEF AllSaved
    <3> QED BY <3>1, <3>4 DEF SeedInv, SeedsKept
  <2>11. ASSUME NEW n, AdoptRaises(n) PROVE SeedInv' BY <2>11, SeedAside DEF AdoptRaises, Exit
  <2>12. ASSUME NEW l \in Lots, SeedStop(l) PROVE SeedInv'
    <3>1. /\ engine = "seeding" /\ engine' = "seeding" /\ l \in SeedPositions
          /\ stops' = [stops EXCEPT ![l] = Saved(owned, lots)[l]]
          /\ tracked' = tracked \cup {l}
          /\ UNCHANGED <<gate, status, owned, lots, unbooked, complete>>
      BY <2>12 DEF SeedStop, PlaceStop
    <3>2. AllSaved' BY <3>1 DEF SeedInv, AllSaved, Allocations
    <3>3. DOMAIN stops = Lots BY DEF BooksInv, BooksTyped
    <3>4. SeedPositions' = SeedPositions BY <3>1 DEF SeedPositions
    <3>5. SeedsKept' BY <3>1, <3>3, <3>4 DEF SeedInv, SeedsKept
    <3> QED BY <3>2, <3>5 DEF SeedInv
  <2> QED
    BY <1>1, <2>1, <2>2, <2>3, <2>4, <2>5, <2>6, <2>7, <2>8, <2>9, <2>10, <2>11, <2>12
    DEF Startup
<1>2. CASE OperatorStep BY <1>2, SeedAside DEF OperatorStep
<1>3. CASE Book \/ BookUnknown BY <1>3, SeedAside DEF Book, BookUnknown
<1>4. ASSUME NEW l \in Lots, EntryFills(l) \/ CloseFills(l) PROVE SeedInv'
  BY <1>4, SeedAside DEF EntryFills, CloseFills
<1>5. ASSUME NEW l \in Lots, StopFills(l) PROVE SeedInv'
  <2>1. engine = "seeding" => unbooked' # <<>>
    <3> SUFFICES ASSUME engine = "seeding" PROVE unbooked' # <<>> OBVIOUS
    <3>1. \E fill : unbooked' = Append(unbooked, fill) BY <1>5 DEF StopFills, Report
    <3>2. unbooked \in Seq(Fill) BY DEF BooksInv, BooksTyped
    <3>3. \A fill : Len(Append(unbooked, fill)) = Len(unbooked) + 1 /\ Len(unbooked) \in Nat
      BY <3>2
    <3>4. Len(<<>>) = 0 OBVIOUS
    <3> QED BY <3>1, <3>3, <3>4
  <2> QED BY <1>5, <2>1, SeedAside DEF StopFills
<1>6. CASE World
  <2>1. CASE StartProcess BY <2>1, SeedAside DEF StartProcess
  <2>2. CASE Crash BY <2>2, SeedAside DEF Crash, Exit
  <2>3. CASE ReviewOrders BY <2>3, SeedAside DEF ReviewOrders
  <2>4. ASSUME NEW i, NEW d, ForeignTrade(i, d) PROVE SeedInv' BY <2>4, SeedAside DEF ForeignTrade
  <2> QED BY <1>6, <2>1, <2>2, <2>3, <2>4 DEF World
<1>7. CASE UNCHANGED vars BY <1>7, SeedAside DEF vars
<1> QED BY <1>1, <1>2, <1>3, <1>4, <1>5, <1>6, <1>7 DEF Next, Run

(* With all of them placed, they are the quantity of the strategy.          *)
LEMMA SeedsCover ==
  ASSUME SeedInv, BooksInv, engine = "seeding", complete, unbooked = <<>>,
         SeedPositions \subseteq tracked, DistinctLots(Allocations), NEW s \in Protected
  PROVE  OwnerSum(stops, s) = owned[s]
<1> DEFINE L == OwnLots(s)
           kept == Saved(owned, lots)
           b == Books(owned, lots)
<1>1. /\ s \in Strategies /\ owned \in [Strategies -> Int] /\ lots \in [Lots -> Int]
      /\ NoneUntraded(lots) /\ stops \in [Lots -> Int]
  BY RestartConstants DEF BooksInv, BooksTyped
<1>2. kept \in [Lots -> Int] /\ b \in [Lots -> Int] BY <1>1, BooksAre, SavedAre
<1>3. Unsaved(owned, lots) = {} BY DEF SeedInv, AllSaved
<1>4. \A l \in L : kept[l] = b[l] BY <1>1, <1>3, SavedAre DEF OwnLots
<1>5. \A l \in L : stops[l] = kept[l]
  <2> SUFFICES ASSUME NEW l \in L PROVE stops[l] = kept[l] OBVIOUS
  <2>1. l \in Lots /\ l[1] = s BY DEF OwnLots
  <2>2. stops[l] = IF l \in tracked THEN kept[l] ELSE 0 BY <2>1 DEF SeedInv, SeedsKept
  <2>3. l \notin tracked => kept[l] = 0 BY <2>1 DEF SeedPositions
  <2> QED BY <2>2, <2>3
<1>6. IsFiniteSet(L) BY <1>1, OwnLotsSplit
<1>7. OwnerSum(b, s) = owned[s] BY <1>1, BooksAre
<1>8. OwnerSum(b, s) = Total(b, L) /\ OwnerSum(stops, s) = Total(stops, L)
  BY <1>1, <1>2, SumsAre
<1> HIDE DEF L, kept, b
<1>9. \A l \in L : stops[l] = b[l] BY <1>4, <1>5
<1> QED BY <1>6, <1>7, <1>8, <1>9, TotalSame

(* When trading starts every adopted unit has a stop at work, unless a stop *)
(* has filled meanwhile, if the protected strategies' instruments are those *)
(* the open-order check looks at.                                           *)
THEOREM SeededStopsAlwaysCover == ASSUME ExecutionWatched PROVE Spec => SeededStopsCover
<1> DEFINE I == BooksInv /\ ShownInv /\ StartInv /\ StopsInv /\ SeedInv
<1>1. Init => I
  <2>1. Init => SeedInv BY DEF Init, SeedInv, AllSaved, SeedsKept
  <2> QED BY <2>1, BooksStart, ShownStart, Starts, StopsStart
<1>2. I /\ [Next]_vars => I' BY BooksSteps, ShownSteps, StartSteps, StopSteps, SeedSteps
<1>3. I /\ [Next]_vars =>
        [engine = "seeding" /\ engine' = "running" /\ unbooked = <<>> /\ complete
           => \/ \A s \in Protected : OwnerSum(stops, s) = owned[s]
              \/ ~DistinctLots(Allocations)]_vars
  <2> SUFFICES ASSUME I, Next, engine = "seeding", engine' = "running", unbooked = <<>>, complete,
                      DistinctLots(Allocations), NEW s \in Protected
               PROVE  OwnerSum(stops, s) = owned[s]
    OBVIOUS
  <2>1. CASE Startup
    <3>1. StartRunning
      BY <2>1 DEF Startup, GateStep, GateFails, MarkClear, PersistStart, ReadPositions,
         Refresh, CheckOpenOrders, SeedRaises, AdoptAllocations, AdoptRaises, SeedStop, Exit
    <3> QED BY <3>1, SeedsCover DEF StartRunning
  <2>2. CASE OperatorStep \/ Run \/ World
    BY <2>2 DEF OperatorStep, Run, World, Book, BookUnknown, EntryFills, CloseFills, StopFills,
       StartProcess, Crash, Exit, ReviewOrders, ForeignTrade
  <2> QED BY <2>1, <2>2 DEF Next
<1> QED BY <1>1, <1>2, <1>3, PTL DEF Spec, SeededStopsCover
=============================================================================
