------------------------------- MODULE Chunks -------------------------------
(***************************************************************************)
(* A backtest in parallel mode (backtest/parallel.py): the sessions of the *)
(* window are split among worker processes, each with a warm-up of its     *)
(* own; they collect the entries a strategy would make if it never held a  *)
(* position, and Engine._run replays those.  The replay also keeps what    *)
(* fast-event mode would have asked on the same bars, to compare with.     *)
(*                                                                         *)
(* One instrument.  A strategy is its question: it may enter on any bar it *)
(* is asked on, by what the bars of the lookback show then.  Windows are   *)
(* aligned to sessions (BarConstants).                                     *)
(***************************************************************************)
EXTENDS BarStore

CONSTANTS
  Histories,       \* the minutes there may be bars for
  Firsts,          \* the first minutes of a requested window
  Final,           \* its last minute
  Workers,         \* worker processes
  WarmBars         \* windows the strategy needs before it is asked

ASSUME ChunkConstants ==
  /\ Histories \subseteq SUBSET Nat /\ Firsts \subseteq Nat /\ Final \in Nat
  /\ Workers \in Nat \ {0} /\ WarmBars \in Nat

VARIABLES
  history, first,            \* the bars there are, and where the window starts
  chunkStores,               \* DataManager of each worker
  chunkRecorded,             \* last_evaluation_bars of each worker, -1 for none
  chunkAt,                   \* the last bar each worker has dispatched
  found,                     \* the candidates of each worker
  signals,                   \* what the engine was given, before that NotYet
  wholeStore, wholeRecorded, \* the same for the replay
  wholeAt,                   \* its last bar
  entered, expected          \* entries of the replay, and of fast-event mode

chunkVars == <<history, first, chunkStores, chunkRecorded, chunkAt, found, signals,
               wholeStore, wholeRecorded, wholeAt, entered, expected>>

NotYet == {"not yet"}
Rows(minutes) == [m \in minutes |-> [source |-> "csv", ticks |-> Complete]]
Loaded(h, f) == h \cap ((f - Lookback)..Final)

-----------------------------------------------------------------------------
(* The chunks. *)

(* The days of the window that have bars, in order.                         *)
Dates(h, f) ==
  LET days == {Day(m) : m \in h \cap (f..Final)}
      n == Cardinality(days)
  IN CHOOSE s \in [1..n -> days] : \A i, j \in 1..n : i < j => s[i] < s[j]

(* _split_dates: each chunk takes its share, rounded up, of what is left.   *)
Share(dates, n, c, k) ==
  LET size == (Len(dates) - c.start + n - k) \div (n - k + 1)
  IN [chunks |-> Append(c.chunks, SubSeq(dates, c.start + 1, c.start + size)),
      start |-> c.start + size]
SplitDates(dates, n) ==
  FoldLeft(LAMBDA c, k : Share(dates, n, c, k), [chunks |-> <<>>, start |-> 0],
           [k \in 1..n |-> k]).chunks

(* From the midnight before the first session to that after the last.      *)
Bounds(dates) ==
  [start |-> dates[1] * DayLength, end |-> dates[Len(dates)] * DayLength + DayLength - 1]

Payload(h, f, dates) ==
  LET b == Bounds(dates) IN
  [start |-> b.start,
   warmup |-> Loaded(h, f) \cap ((b.start - Lookback)..(b.start - 1)),
   active |-> Loaded(h, f) \cap (b.start..b.end)]

Chunks(h, f) ==
  LET dates == Dates(h, f)
      n == Min({Workers, Len(dates)})
      parts == SplitDates(dates, n)
  IN [k \in 1..n |-> Payload(h, f, parts[k])]
ChunkOf == Chunks(history, first)

(* The worker's feature source: its warm-up and the bars it will dispatch.  *)
ChunkSource(c) ==
  LET warmed == Merge(NewStore, Rows(c.warmup), {})
  IN PreloadReplay(Preload(NewSource, warmed), warmed, Prices(Rows(c.active))).rows

(* What a context shows at `now` of the minutes since `from`.               *)
View(rows, now, from) ==
  [tf \in {1} \cup Timeframes |->
     LET frame == AsOf(IF tf = 1 THEN rows ELSE Resample(rows, tf), tf, now)
     IN Within(frame, {b \in DOMAIN frame : b >= from})]

ChunksInit ==
  /\ history \in Histories /\ first \in Firsts
  /\ Dates(history, first) # <<>>
  /\ chunkStores = [k \in DOMAIN ChunkOf |-> Merge(NewStore, Rows(ChunkOf[k].warmup), {})]
  /\ chunkRecorded = [k \in DOMAIN ChunkOf |-> -1]
  /\ chunkAt = [k \in DOMAIN ChunkOf |-> -1]
  /\ found = [k \in DOMAIN ChunkOf |-> {}]
  /\ signals = NotYet
  /\ wholeStore = Merge(NewStore, Rows(history \cap ((first - Lookback)..first)), {})
  /\ wholeRecorded = -1 /\ wholeAt = -1
  /\ entered = {} /\ expected = {}

-----------------------------------------------------------------------------
(* A worker. *)

(* Faulty variant: the window before the bar's minute, not its window.      *)
ChunkCompletedEarly(now) == Bucket(now - 1, Window)
(* _completed_timeframe_bar_start of parallel.py.                           *)
ChunkCompleted(now) == Bucket(now - Window, Window)

ChunkAsks(k, now) == ChunkCompleted(now) # chunkRecorded[k]

(* The next bar of the chunk: stored, gated, and if the store is warm the  *)
(* strategy is asked.                                                      *)
ChunkBar(k) ==
  LET left == {m \in ChunkOf[k].active : m > chunkAt[k]} IN
  /\ left # {}
  /\ LET now == Min(left)
         asks == ChunkAsks(k, now)
         store == Ingest(chunkStores[k], now, [source |-> "csv", ticks |-> Complete])
         candidate == [at |-> now, view |-> View(ChunkSource(ChunkOf[k]), now,
                                                 ChunkOf[k].start - Lookback)]
     IN /\ chunkAt' = [chunkAt EXCEPT ![k] = now]
        /\ chunkStores' = [chunkStores EXCEPT ![k] = store]
        /\ chunkRecorded' = [chunkRecorded EXCEPT ![k] = IF asks THEN ChunkCompleted(now) ELSE @]
        /\ found' = [found EXCEPT ![k] = @ \cup (IF asks /\ Warm(store, WarmBars)
                                                 THEN {candidate} ELSE {})]
  /\ UNCHANGED <<history, first, signals, wholeStore, wholeRecorded, wholeAt, entered, expected>>

(* Candidates of one strategy, minute and signal count once.                *)
Deduped == UNION {found[k] : k \in DOMAIN found}

Collect ==
  /\ signals = NotYet
  /\ \A k \in DOMAIN ChunkOf : \A m \in ChunkOf[k].active : m <= chunkAt[k]
  /\ signals' = Deduped
  /\ UNCHANGED <<history, first, chunkStores, chunkRecorded, chunkAt, found,
                 wholeStore, wholeRecorded, wholeAt, entered, expected>>

-----------------------------------------------------------------------------
(* The replay. *)

SignalsAt(now) == {s \in signals : s.at = now}

(* _completed_timeframe_bar_start of runner.py, which fast-event mode asks. *)
WholeCompleted(now) == Bucket(now - Window, Window)
WholeSource ==
  Prices(Rows(history \cap ((first - Lookback)..Final)))

(* A minute is compared by what the lookback of its chunk shows.            *)
From(now) ==
  Max({ChunkOf[k].start : k \in {j \in DOMAIN ChunkOf : ChunkOf[j].start <= now}}) - Lookback

WholeBar ==
  LET left == {m \in history \cap (first..Final) : m > wholeAt} IN
  /\ signals # NotYet /\ left # {}
  /\ LET now == Min(left)
         store == Ingest(wholeStore, now, [source |-> "csv", ticks |-> Complete])
         asks == WholeCompleted(now) # wholeRecorded
         warm == Warm(store, WarmBars)
     IN /\ wholeAt' = now
        /\ wholeStore' = store
        /\ wholeRecorded' = IF asks THEN WholeCompleted(now) ELSE wholeRecorded
        /\ entered' = entered \cup (IF warm THEN SignalsAt(now) ELSE {})
        /\ expected' = expected \cup
             (IF asks /\ warm THEN {[at |-> now, view |-> View(WholeSource, now, From(now))]}
              ELSE {})
  /\ UNCHANGED <<history, first, chunkStores, chunkRecorded, chunkAt, found, signals>>

ChunksNext == (\E k \in DOMAIN ChunkOf : ChunkBar(k)) \/ Collect \/ WholeBar

ChunksSpec == ChunksInit /\ [][ChunksNext]_chunkVars

-----------------------------------------------------------------------------
(* Properties. *)

(* The minutes of the lookback at `now` are enough for the warm-up.         *)
Covered(now) == Cardinality(history \cap ((now - Lookback)..now)) > WarmBars * Window

(* Splitting the work changes nothing: where the lookback covers the       *)
(* warm-up, the replay of the candidates enters on the bars on which       *)
(* fast-event mode asks a strategy without a position, and the strategy    *)
(* saw the same bars of the lookback.  Only the first bar of a window that *)
(* starts inside a session is another matter: fast-event mode has no       *)
(* window on record there, the chunk that starts at midnight has.          *)
ChunksAsWhole ==
  LET mid == Day(first) * DayLength # first
      compared(es) == {s \in es : /\ Covered(s.at)
                                  /\ mid => s.at # Min(history \cap (first..Final))}
  IN compared(entered) = compared(expected)
=============================================================================
