------------------------------ MODULE LiveBars ------------------------------
(***************************************************************************)
(* The bar path of a live run, for one instrument: the backfill of a start *)
(* (feed.py, Engine._run), the five-second bars of the stream, here two    *)
(* ticks a minute, the minutes BarBuilder makes of them, and the two       *)
(* copies a strategy reads: the store and the feature source.              *)
(*                                                                         *)
(* The service may lose a tick (a disconnect, a resubscription, a start in *)
(* mid-minute), and its answer to the history request may end early.       *)
(***************************************************************************)
EXTENDS BarStore

CONSTANTS
  Starts,          \* minutes in which a run may start
  Horizon          \* the last minute of a run, a bound of the model

ASSUME LiveConstants == Horizon \in Nat /\ Starts \subseteq 0..Horizon

VARIABLES
  offline,         \* the minutes the file has
  begin,           \* the minute of the start
  fed,             \* has the stream been subscribed
  upTo,            \* the last minute of the history answer
  liveStore, liveSource,
  open,            \* BarBuilder: its minute, -1 for none, and the ticks in it
  next,            \* the tick that comes next
  heard            \* the ticks received of each minute

liveVars == <<offline, begin, fed, upTo, liveStore, liveSource, open, next, heard>>

SessionStart == Day(begin) * DayLength

LiveInit ==
  /\ begin \in Starts
  /\ \E last \in -1..(begin - 1) : offline = 0..last
  /\ fed = FALSE /\ upTo = -1
  /\ liveStore = NewStore /\ liveSource = NewSource
  /\ open = [minute |-> -1, ticks |-> {}]
  /\ next = [minute |-> begin, tick |-> 1]
  /\ heard = <<>>

(* _fetch_live_session: the service's rows of the session, the minute of   *)
(* the start in part.                                                      *)
Service(last) ==
  [m \in SessionStart..last |->
     [source |-> "ibkr", ticks |-> IF m = begin THEN {0} ELSE Complete]]

(* DataFeed.fetch with a live session start: the rows of the file before   *)
(* the session and those of the service; the file alone if it has none.    *)
Fetched(last) ==
  LET file == [m \in offline |-> [source |-> "csv", ticks |-> Complete]]
  IN IF DOMAIN Service(last) = {} THEN file
     ELSE Over(Service(last), Within(file, {m \in offline : m < SessionStart}))

(* What strategies read of the bars in one dispatch.                        *)
ReadAll(reads, st) ==
  IF reads = {} THEN st ELSE ReadStore(ReadStore(st, Window), DayLength)
ReadFeatures(reads, so) ==
  IF reads = {} THEN so ELSE ReadSource(ReadSource(so, Window), DayLength)

(* The backfill, `last` being where the service's answer ends, and the     *)
(* preload of the features; a fetch that raises leaves the store empty.    *)
(* A strategy with an adopted position then reads the bars for its stop.   *)
LiveStart(last, raised, reads) ==
  /\ ~fed /\ fed' = TRUE
  /\ upTo' = last
  /\ LET st == IF raised THEN liveStore
               ELSE Merge(liveStore, Fetched(last), {m \in 0..Horizon : m >= SessionStart})
     IN /\ liveStore' = ReadAll(reads, st)
        /\ liveSource' = ReadFeatures(reads, Preload(liveSource, st))
  /\ UNCHANGED <<offline, begin, open, next, heard>>

(* A tick the stream delivers: BarBuilder.on_bar and, when the minute      *)
(* rolls over, DataManager.on_bar, FeatureRegistry.on_bar and the reads of *)
(* the strategies.                                                         *)
Close(minute, ticks, reads) ==
  LET row == [source |-> "live", ticks |-> ticks] IN
  /\ liveStore' = ReadAll(reads, Ingest(liveStore, minute, row))
  /\ liveSource' = ReadFeatures(reads, SourceBar(liveSource, minute, ticks))

(* Faulty variant: the tick that opens a minute is lost.                    *)
FirstTicksDropped == {}
FirstTicks == {next.tick}

Hear(reads) ==
  /\ heard' = [m \in DOMAIN heard \cup {next.minute} |->
                 (IF m = next.minute THEN {next.tick} ELSE {})
                 \cup (IF m \in DOMAIN heard THEN heard[m] ELSE {})]
  /\ IF open.minute = next.minute
     THEN open' = [open EXCEPT !.ticks = @ \cup {next.tick}] /\ UNCHANGED <<liveStore, liveSource>>
     ELSE /\ open' = [minute |-> next.minute, ticks |-> FirstTicks]
          /\ IF open.minute = -1 THEN UNCHANGED <<liveStore, liveSource>>
             ELSE Close(open.minute, open.ticks, reads)

LiveTick(kept, reads) ==
  /\ fed /\ next.minute <= Horizon
  /\ next' = IF next.tick = 0 THEN [next EXCEPT !.tick = 1]
             ELSE [minute |-> next.minute + 1, tick |-> 0]
  /\ IF kept THEN Hear(reads) ELSE UNCHANGED <<heard, open, liveStore, liveSource>>
  /\ UNCHANGED <<offline, begin, fed, upTo>>

(* The runtime snapshot of the API asks data_quality, which flushes.        *)
Inspect ==
  /\ fed /\ liveStore.pending # <<>>
  /\ liveStore' = Flush(liveStore)
  /\ UNCHANGED <<offline, begin, fed, upTo, liveSource, open, next, heard>>

LiveNext ==
  \/ \E reads \in {{}, Timeframes} :
       \/ \E last \in (SessionStart - 1)..begin : LiveStart(last, FALSE, reads)
       \/ LiveStart(-1, TRUE, reads)
       \/ \E kept \in BOOLEAN : LiveTick(kept, reads)
  \/ Inspect

LiveSpec == LiveInit /\ [][LiveNext]_liveVars

-----------------------------------------------------------------------------
(* Properties. *)

LiveRows == [source : {"csv", "ibkr", "live"}, ticks : SUBSET Complete]
Series == INSTANCE BarSeries WITH series <- Visible(liveStore), Minutes <- 0..Horizon,
                                  Rows <- LiveRows, Keep <- Lookback

(* The store of a live run implements the abstract series: pending rows,   *)
(* flushes by any reader, replacements and trims only ever show a series   *)
(* in which the last writer of a minute wins and recent rows never go.     *)
StoreImplements == Series!Spec

(* A minute the stream closed is in the store with all of its ticks and no *)
(* other, unless it is out of the lookback: no tick is dropped at the turn *)
(* of a minute, no row lost between the pending list and the frame, and no *)
(* backfilled row of the same minute wins.                                 *)
MinuteWhole ==
  \A m \in DOMAIN heard : m # open.minute =>
    LET rows == Visible(liveStore) IN
    IF m \in DOMAIN rows THEN rows[m] = [source |-> "live", ticks |-> heard[m]]
    ELSE \E k \in DOMAIN rows : k - m > Lookback

(* The two copies of the bars agree: the feature source has the prices of  *)
(* every row the store shows, and a resample either of them would serve    *)
(* from its cache is the one its rows would give now.                      *)
CopiesAgree ==
  LET st == Flush(liveStore) IN
  fed =>
    /\ Within(liveSource.rows, DOMAIN st.rows) = Prices(st.rows)
    /\ \A tf \in Timeframes :
         /\ st.frames[tf].key = st.revision => st.frames[tf].bars = Resample(Prices(st.rows), tf)
         /\ liveSource.frames[tf].key = liveSource.version =>
              liveSource.frames[tf].bars = Resample(liveSource.rows, tf)

=============================================================================
