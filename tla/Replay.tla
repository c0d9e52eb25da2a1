------------------------------- MODULE Replay -------------------------------
(***************************************************************************)
(* A backtest in fast-event mode: Engine._run over the replayed bars of a  *)
(* primary instrument p, on whose bars a multi-position strategy decides,  *)
(* and an execution instrument x it trades.  The features are preloaded    *)
(* with every bar of the replay; PaperBroker fills orders on the bars of   *)
(* x; OrderManager's queues are drained inline.                            *)
(*                                                                         *)
(* Bars come in the order of their minutes, within a minute in a fixed     *)
(* order of the instruments.  What a strategy reads and decides is free.   *)
(***************************************************************************)
EXTENDS BarStore

CONSTANTS
  Corpora,         \* the minutes each instrument may have bars for
  Start,           \* the first minute of the requested window
  Trades,          \* the entries of a run, a bound of the model
  MaxOpen          \* max_open_positions of the strategy

Instruments == {"p", "x"}

ASSUME ReplayConstants ==
  /\ Corpora \subseteq [Instruments -> SUBSET Nat]
  /\ Start \in Nat /\ Trades \in Nat /\ MaxOpen \in Nat \ {0}

VARIABLES
  corpus,          \* the minutes each instrument has bars for
  pFirst,          \* does p come before x in a minute
  clock, turn,     \* minute and instrument of the last bar; -1 before any
  stores, sources, \* DataManager and feature source of each instrument
  recorded,        \* last_evaluation_bars: the window, -1 for none
  seen,            \* the windows on show when the gate last let an entry through
  seenBars,        \* the same, of ctx.bars
  skipped,         \* did the gate skip the entry on the last bar
  qty,             \* the lots of the portfolio
  closing,         \* lots with a pending close
  orders,          \* PaperBroker: pending orders, in order
  entries,         \* entries submitted
  restopped        \* history: lots given a new stop while their close was pending

barVars == <<corpus, pFirst, stores, clock, turn>>
decisionVars == <<recorded, seen, seenBars, skipped>>
tradeVars == <<qty, closing, orders, entries, restopped>>
replayVars == <<barVars, sources, decisionVars, tradeVars>>

Backfilled(i) == {m \in corpus[i] : Start - Lookback <= m /\ m <= Start}
Replayed(i) == {m \in corpus[i] : Start <= m}
RowsOf(minutes, src) == [m \in minutes |-> [source |-> src, ticks |-> Complete]]

(* The backfill of the lookback up to the clock, then the preload.          *)
ReplayInit ==
  /\ corpus \in Corpora /\ pFirst \in BOOLEAN
  /\ clock = Start /\ turn = "none"
  /\ stores = [i \in Instruments |-> Merge(NewStore, RowsOf(Backfilled(i), "csv"), {})]
  /\ sources = [i \in Instruments |->
       PreloadReplay(Preload(NewSource, stores[i]), stores[i], Prices(RowsOf(Replayed(i), "csv")))]
  /\ recorded = -1 /\ seen = {} /\ seenBars = {} /\ skipped = FALSE
  /\ qty = [t \in 1..Trades |-> 0] /\ closing = {}
  /\ orders = <<>> /\ entries = 0 /\ restopped = {}

(* ReplayDataProvider.bars: the bars sorted by minute.                      *)
Rank(m, i) == 2 * m + (IF (i = "p") = pFirst THEN 0 ELSE 1)
Done(m, i) == turn # "none" /\ Rank(m, i) <= Rank(clock, turn)
IsNext(m, i) ==
  /\ m \in Replayed(i) /\ ~Done(m, i)
  /\ \A j \in Instruments : \A k \in Replayed(j) : Done(k, j) \/ Rank(m, i) <= Rank(k, j)

(* A bar goes into its store, which a strategy that reads ctx.bars flushes. *)
Fed(m, i) == Ingest(stores[i], m, [source |-> "csv", ticks |-> Complete])
Arrives(m, i, reads) ==
  /\ IsNext(m, i)
  /\ clock' = m /\ turn' = i
  /\ stores' = [stores EXCEPT ![i] = IF reads THEN Flush(Fed(m, i)) ELSE Fed(m, i)]
  /\ UNCHANGED <<corpus, pFirst>>

-----------------------------------------------------------------------------
(* PaperBroker and the handlers of OrderManager. *)

(* submit_order: submitted_after is the last bar the broker has seen; the   *)
(* size is signed.                                                          *)
NewOrder(kind, lot, size, now) == [kind |-> kind, lot |-> lot, size |-> size, after |-> now]

(* The pending orders that are in S, in their order.                        *)
Only(os, S) == FoldLeft(LAMBDA kept, o : IF o \in S THEN Append(kept, o) ELSE kept, <<>>, os)
Without(kind, lot, os) == Only(os, {o \in Range(os) : ~(o.kind = kind /\ o.lot = lot)})

(* on_bar: a later bar of the instrument, and a touched price for a stop.   *)
Resolves(o, now, touched) == o.after < now /\ (o.kind # "stop" \/ o.lot \in touched)

(* _handle_fill for one fill, on the state of the trades.                   *)
EntryFilled(s, o, now) ==
  [s EXCEPT !.qty[o.lot] = @ + o.size,
            !.orders = Append(@, NewOrder("stop", o.lot, -o.size, now))]
CloseFilled(s, o) ==
  [s EXCEPT !.qty[o.lot] = @ + o.size, !.closing = @ \ {o.lot},
            !.orders = Without("stop", o.lot, @)]
StopFilled(s, o) ==
  [s EXCEPT !.qty[o.lot] = @ + o.size, !.closing = @ \ {o.lot},
            !.orders = Without("close", o.lot, @)]
Filled(s, o, now) ==
  CASE o.kind = "entry" -> EntryFilled(s, o, now)
    [] o.kind = "close" -> CloseFilled(s, o)
    [] OTHER -> StopFilled(s, o)

(* drain_ready_fills: the fills of the orders os, one after the other.      *)
Drained(s, os, now) == FoldLeft(LAMBDA t, o : Filled(t, o, now), s, os)

(* A bar of x: the pending orders it resolves are filled in their order;   *)
(* `touched` are the lots whose stop price the bar crosses.                *)
ExecutionBar(m, touched) ==
  /\ Arrives(m, "x", FALSE)
  /\ LET resolving == {o \in Range(orders) : Resolves(o, m, touched)}
         resolved == Only(orders, resolving)
         rest == Only(orders, Range(orders) \ resolving)
         s == Drained([qty |-> qty, closing |-> closing, orders |-> rest], resolved, m)
     IN qty' = s.qty /\ closing' = s.closing /\ orders' = s.orders
  /\ skipped' = FALSE
  /\ UNCHANGED <<sources, recorded, seen, seenBars, entries, restopped>>

-----------------------------------------------------------------------------
(* The dispatch of a bar of p. *)

OpenLots == {t \in 1..Trades : qty[t] # 0}

(* The windows a feature view shows, and those ctx.bars shows: the store's  *)
(* own, with the window whose last minute the clock is at.                  *)
WindowsShown(src, now) == DOMAIN AsOf(Resample(src.rows, Window), Window, now)
BarsShown(st) == DOMAIN Resample(Prices(Flush(st).rows), Window)

(* Faulty variant: the window before the bar's minute, not its window.      *)
CompletedEarly(now) == Bucket(now - 1, Window)
(* _completed_timeframe_bar_start.                                          *)
Completed(now) == Bucket(now - Window, Window)

(* _should_generate_entry, asked on the bar of `now`.                       *)
GatePasses(now) == Completed(now) # recorded
Pass(now) ==
  /\ recorded' = Completed(now) /\ seen' = WindowsShown(sources["p"], now)
  /\ seenBars' = BarsShown(Fed(now, "p"))
  /\ skipped' = FALSE
Skip == skipped' = TRUE /\ UNCHANGED <<recorded, seen, seenBars>>
Gate(now) == IF GatePasses(now) THEN Pass(now) ELSE Skip

WarmAt(now) == Warm(Fed(now, "p"), 1)
ReadViews == sources' = [i \in Instruments |->
                          ReadSource(ReadSource(sources[i], Window), DayLength)]

(* What closes the position of a lot: side and size are its own, turned.   *)
Exit(kind, t, now) == NewOrder(kind, t, -qty[t], now)

(* submit_close, accepted: the lot's stops are cancelled at once.           *)
(* Faulty variant: they wait for the close to fill.                         *)
ClosesKeepStops(os, lots, now) ==
  os \o SetToSeq({Exit("close", t, now) : t \in lots})
Closes(os, lots, now) ==
  Only(os, {o \in Range(os) : ~(o.kind = "stop" /\ o.lot \in lots)})
    \o SetToSeq({Exit("close", t, now) : t \in lots})

(* ensure_protective_stop: a stop of the lot is moved and keeps its place  *)
(* and minute; a lot without one gets a new one, pending close or not.     *)
Unstopped(lots, os) == {t \in lots : \A o \in Range(os) : ~(o.kind = "stop" /\ o.lot = t)}
Restops(os, lots, now) == os \o SetToSeq({Exit("stop", t, now) : t \in Unstopped(lots, os)})

Enter(os, enters, now) ==
  IF enters THEN Append(os, NewOrder("entry", entries + 1, 1, now)) ELSE os

(* Flat: the gate, then the warm-up, then the strategy reads and may enter. *)
FlatBar(m, reads, enters) ==
  /\ OpenLots = {} /\ Arrives(m, "p", reads) /\ Gate(m)
  /\ IF GatePasses(m) /\ WarmAt(m) THEN ReadViews ELSE UNCHANGED sources
  /\ reads \/ enters => GatePasses(m) /\ WarmAt(m)
  /\ enters => entries < Trades
  /\ orders' = Enter(orders, enters, m)
  /\ entries' = entries + (IF enters THEN 1 ELSE 0)
  /\ UNCHANGED <<qty, closing, restopped>>

(* Open lots: on_exit closes some, for others on_protective_stop_update    *)
(* asks for a stop; with room for one more, the gate, and the strategy may *)
(* enter.  The orders of different lots do not meet: closes come first.    *)
OpenBar(m, lots, stops, reads, enters) ==
  LET room == Cardinality(OpenLots) < MaxOpen IN
  /\ OpenLots # {} /\ Arrives(m, "p", reads)
  /\ lots \subseteq OpenLots \ closing /\ stops \subseteq OpenLots \ lots
  /\ reads \/ enters \/ lots \cup stops # {} => WarmAt(m)
  /\ closing' = closing \cup lots
  /\ restopped' = restopped \cup (Unstopped(stops, orders) \cap closing)
  /\ IF room /\ WarmAt(m) THEN Gate(m)
     ELSE UNCHANGED <<recorded, seen, seenBars>> /\ skipped' = FALSE
  /\ IF WarmAt(m) THEN ReadViews ELSE UNCHANGED sources
  /\ enters => room /\ GatePasses(m) /\ entries < Trades
  /\ orders' = Enter(Restops(Closes(orders, lots, m), stops, m), enters, m)
  /\ entries' = entries + (IF enters THEN 1 ELSE 0)
  /\ UNCHANGED qty

ReplayNext ==
  \E m \in UNION {corpus[i] : i \in Instruments} :
    \/ \E touched \in SUBSET (1..Trades) : ExecutionBar(m, touched)
    \/ \E reads, enters \in BOOLEAN :
         \/ FlatBar(m, reads, enters)
         \/ \E lots, stops \in SUBSET (1..Trades) : OpenBar(m, lots, stops, reads, enters)

ReplaySpec == ReplayInit /\ [][ReplayNext]_replayVars

-----------------------------------------------------------------------------
(* Properties. *)

(* What the bars up to the clock alone would show of an instrument.         *)
KnownRows(i) == Within(sources[i].rows, {m \in DOMAIN sources[i].rows : m <= clock})

(* Preloading leaks nothing into the bars a view shows: minutes and        *)
(* windows cut to the clock out of the whole replay are those its past     *)
(* gives.  For sessions this is so once the instrument has a bar of the    *)
(* day: which session is complete is read off the next one's bars.         *)
ViewsPure ==
  \A i \in Instruments :
    /\ AsOf(sources[i].rows, 1, clock) = KnownRows(i)
    /\ AsOf(Resample(sources[i].rows, Window), Window, clock)
         = AsOf(Resample(KnownRows(i), Window), Window, clock)
    /\ (\E m \in DOMAIN KnownRows(i) : Day(m) = Day(clock)) =>
         AsOf(Resample(sources[i].rows, DayLength), DayLength, clock)
           = AsOf(Resample(KnownRows(i), DayLength), DayLength, clock)

(* A skip of fast-event mode costs an entry one bar at most: features show *)
(* nothing the bar the gate last passed on did not show, and a window only *)
(* ctx.bars shows since then ends on this bar, and the gate passes on any   *)
(* later one.                                                              *)
SkipSafe ==
  skipped =>
    /\ WindowsShown(sources["p"], clock) = seen
    /\ \A w \in BarsShown(stores["p"]) \ seenBars :
         w + Window - 1 = clock /\ \A m \in corpus["p"] : m > clock => GatePasses(m)

(* A lot is never closed twice by exits, stops that are touched on the bar *)
(* a close fills on, and fills drained after all orders of the bar were    *)
(* resolved: it stays open or flat.  Only a lot that was given a stop       *)
(* beside its pending close may be turned over, both being filled on one   *)
(* bar, and by no more than its size.                                      *)
LotsOpenOrFlat ==
  \A t \in 1..Trades : qty[t] \in {0, 1} \/ (t \in restopped /\ qty[t] = -1)

(* What docs/guardrails.md says of preloading, of a feature grouped by     *)
(* session: it must not depend on bars that are still to come.             *)
NoFutureLeakage ==
  turn = "p" => \A i \in Instruments :
    AsOf(SessionRange(sources[i].rows), 1, clock) = AsOf(SessionRange(KnownRows(i)), 1, clock)
=============================================================================
