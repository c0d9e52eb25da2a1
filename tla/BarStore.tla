------------------------------ MODULE BarStore ------------------------------
(***************************************************************************)
(* What the bar pipeline keeps of one instrument, as operators:            *)
(* core/data/manager.py and resampler.py (the store and its resamples) and *)
(* core/features/registry.py (the feature source and its views).           *)
(*                                                                         *)
(* Time is counted in minutes.  A row is [source, ticks]: where a minute's *)
(* bar came from, and which ticks of the minute its prices are made of.    *)
(* The registry keeps no source column: a row of it is the ticks alone.    *)
(***************************************************************************)
EXTENDS Integers, Sequences, FiniteSets, FiniteSetsExt, SequencesExt, Functions

CONSTANTS
  DayLength,       \* minutes in a session
  Window,          \* a timeframe between a minute and a session
  Lookback,        \* _lookback_days, in minutes: whole days
  FlushSize        \* _pending_flush_size

ASSUME BarConstants ==
  /\ DayLength \in Nat \ {0} /\ Window \in 2..(DayLength - 1)
  /\ DayLength % Window = 0
  /\ Lookback \in Nat \ {0} /\ Lookback % DayLength = 0
  /\ FlushSize \in Nat \ {0}

Timeframes == {Window, DayLength}
Day(m) == m \div DayLength
Bucket(m, tf) == (m \div tf) * tf
Within(f, S) == Restrict(f, DOMAIN f \cap S)
Over(f, g) == [m \in DOMAIN f \cup DOMAIN g |-> IF m \in DOMAIN f THEN f[m] ELSE g[m]]
Replace(f, m, row) == [k \in DOMAIN f \cup {m} |-> IF k = m THEN row ELSE f[k]]

Complete == {0, 1}                     \* the ticks of a minute, two stand for twelve
Prices(rows) == [m \in DOMAIN rows |-> rows[m].ticks]

-----------------------------------------------------------------------------
(* Resampler.resample: intraday buckets count their minutes, the last      *)
(* session is dropped.                                                     *)

Resample(prices, tf) ==
  LET inside(b) == {m \in DOMAIN prices : Bucket(m, tf) = b}
      buckets == {Bucket(m, tf) : m \in DOMAIN prices}
      closed == {b \in buckets : IF tf < DayLength THEN Cardinality(inside(b)) = tf
                                 ELSE \E c \in buckets : c > b}
  IN [b \in closed |-> Restrict(prices, inside(b))]

-----------------------------------------------------------------------------
(* DataManager. *)

NoFrame == [key |-> -1, bars |-> <<>>]
NewStore == [rows |-> <<>>, pending |-> <<>>, revision |-> 0,
             frames |-> [tf \in Timeframes |-> NoFrame]]

PendingMinutes(st) == {st.pending[k][1] : k \in DOMAIN st.pending}
Known(st) == DOMAIN st.rows \cup PendingMinutes(st)

(* The rows a reader gets: the stored ones, and the pending ones over them. *)
Visible(st) ==
  LET last(m) == Max({k \in DOMAIN st.pending : st.pending[k][1] = m})
  IN [m \in Known(st) |-> IF m \in PendingMinutes(st) THEN st.pending[last(m)][2]
                          ELSE st.rows[m]]

Trim(rows) == Within(rows, {m \in DOMAIN rows : m >= Max(DOMAIN rows) - Lookback})

(* Faulty variant: the pending rows are cleared before they are read.       *)
FlushCleared(st) == [st EXCEPT !.pending = <<>>]
Flush(st) ==
  IF st.pending = <<>> THEN st
  ELSE [st EXCEPT !.rows = Trim(Visible(st)), !.pending = <<>>]

Latest(st) == IF st.pending # <<>> THEN {Last(st.pending)[1]}
              ELSE IF DOMAIN st.rows = {} THEN {} ELSE {Max(DOMAIN st.rows)}

(* Faulty variant: a replaced row does not count as a new revision.         *)
IngestSilently(st, m, row) ==
  IF \A latest \in Latest(st) : m > latest
  THEN LET more == [st EXCEPT !.pending = Append(@, <<m, row>>), !.revision = @ + 1]
       IN IF Len(more.pending) >= FlushSize THEN Flush(more) ELSE more
  ELSE [Flush(st) EXCEPT !.rows = Replace(@, m, row)]

(* on_bar: append, or replace a row that is already there.                  *)
Ingest(st, m, row) ==
  IF \A latest \in Latest(st) : m > latest
  THEN LET more == [st EXCEPT !.pending = Append(@, <<m, row>>), !.revision = @ + 1]
       IN IF Len(more.pending) >= FlushSize THEN Flush(more) ELSE more
  ELSE [Flush(st) EXCEPT !.rows = Replace(@, m, row), !.revision = @ + 1]

(* merge_backfill of the list a start fetches, into the empty store;        *)
(* `session` are the minutes of the live session, none in a replay.         *)
Merge(st, fetched, session) ==
  LET kept == Within(fetched, {m \in DOMAIN fetched :
                                 ~(m \in session /\ fetched[m].source = "csv")})
  IN [st EXCEPT !.rows = Trim(kept), !.revision = @ + (IF kept = <<>> THEN 0 ELSE 1)]

(* resampled: flush, then the cached frame of this revision or a new one.   *)
ReadStore(st, tf) ==
  LET f == Flush(st) IN
  IF f.frames[tf].key = f.revision THEN f
  ELSE [f EXCEPT !.frames[tf] = [key |-> f.revision,
                                 bars |-> Resample(Prices(f.rows), tf)]]

(* _warmup_satisfied for a number of bars of the window.                    *)
Warm(st, bars) ==
  LET count == Cardinality(DOMAIN st.rows) + Len(st.pending)
  IN Max({0, count - 1}) \div Window >= bars

-----------------------------------------------------------------------------
(* FeatureRegistry: the source of an instrument; version 0 is none. *)

NewSource == [rows |-> <<>>, version |-> 0, frames |-> [tf \in Timeframes |-> NoFrame]]

SetSource(src, rows) ==
  IF src.version # 0 /\ src.rows = rows THEN src
  ELSE [src EXCEPT !.rows = rows, !.version = @ + 1]

(* preload_from_managers, then preload_bars if there are any.               *)
Preload(src, st) == SetSource(src, Prices(Flush(st).rows))
PreloadReplay(src, st, extra) == SetSource(src, Over(extra, Prices(Flush(st).rows)))

SourceBar(src, m, ticks) ==
  IF src.version = 0 THEN src ELSE SetSource(src, Replace(src.rows, m, ticks))

ReadSource(src, tf) ==
  IF src.frames[tf].key = src.version THEN src
  ELSE [src EXCEPT !.frames[tf] = [key |-> src.version, bars |-> Resample(src.rows, tf)]]

(* Faulty variant: the bucket of the current bar is shown.                  *)
AsOfIncluding(frame, tf, now) == Within(frame, {b \in DOMAIN frame : b <= Bucket(now, tf)})
(* _slice_bars and _slice_to_as_of: minutes up to now, buckets before now's.*)
AsOf(frame, tf, now) ==
  Within(frame, {b \in DOMAIN frame : IF tf = 1 THEN b <= now ELSE b < Bucket(now, tf)})

(* A feature grouped by session, of one-minute bars: range_ratio.           *)
SessionRange(prices) ==
  [m \in DOMAIN prices |-> Within(prices, {k \in DOMAIN prices : Day(k) = Day(m)})]
=============================================================================
