------------------------------ MODULE BarProofs ------------------------------
(***************************************************************************)
(* Proofs about the bar pipeline: what a live run shows its strategies is  *)
(* the series BarSeries promises; a replay never shows them what is to     *)
(* come, what its gate skips is no loss of more than a bar, and its lots   *)
(* are open or flat, but for those given a stop beside a pending close;    *)
(* and splitting a replay among workers changes nothing.                   *)
(***************************************************************************)
EXTENDS LiveBars, Replay, Chunks, Sums, SequenceTheorems, TLAPS

Minutes == 0..Horizon

-----------------------------------------------------------------------------
(* What BarSeries calls keeping a series, taken step by step.               *)
LEMMA KeptTrans ==
  ASSUME NEW s, NEW t, NEW u, Series!Kept(s, t), Series!Kept(t, u) PROVE Series!Kept(s, u)
BY DEF Series!Kept, Series!Old

LEMMA KeptRefl == \A s : Series!Kept(s, s)
BY DEF Series!Kept, Series!Old

(* A series keeps its newest row, so what was out of the lookback stays out.*)
LEMMA KeptNewest ==
  ASSUME NEW s, NEW t, DOMAIN s \subseteq Minutes, Series!Kept(s, t), NEW x \in Int,
         \E k \in DOMAIN s : k - x > Lookback
  PROVE  \E k \in DOMAIN t : k - x > Lookback
<1>1. Horizon \in Nat /\ Lookback \in Nat BY LiveConstants, BarConstants
<1>2. DOMAIN s # {} /\ DOMAIN s \in SUBSET (0..Horizon) BY DEF Minutes
<1> DEFINE top == Max(DOMAIN s)
<1>3. top \in DOMAIN s /\ \A k \in DOMAIN s : k <= top BY <1>1, <1>2, MaxOf
<1> HIDE DEF top
<1>4. top \notin Series!Old(s) BY <1>1, <1>2, <1>3 DEF Series!Old
<1>5. top \in DOMAIN t BY <1>3, <1>4 DEF Series!Kept
<1>6. top - x > Lookback BY <1>1, <1>2, <1>3
<1> QED BY <1>5, <1>6

-----------------------------------------------------------------------------
(* Stores and feature sources.                                             *)

RowsOK(rows) == DOMAIN rows \subseteq Minutes /\ rows \in [DOMAIN rows -> LiveRows]

(* The store of an instrument; a frame of the current revision is the      *)
(* resample of its rows, and there is none while rows are pending.         *)
StoreOK(st) ==
  /\ DOMAIN st = {"rows", "pending", "revision", "frames"}
  /\ RowsOK(st.rows)
  /\ st.pending \in Seq(Minutes \X LiveRows)
  /\ st.revision \in Nat
  /\ DOMAIN st.frames = Timeframes
  /\ \A tf \in Timeframes :
       /\ st.frames[tf].key \in Int /\ st.frames[tf].key <= st.revision
       /\ st.frames[tf].key = st.revision =>
            st.pending = <<>> /\ st.frames[tf].bars = Resample(Prices(st.rows), tf)

SourceOK(src) ==
  /\ DOMAIN src = {"rows", "version", "frames"}
  /\ DOMAIN src.rows \subseteq Minutes
  /\ src.version \in Nat
  /\ DOMAIN src.frames = Timeframes
  /\ \A tf \in Timeframes :
       /\ src.frames[tf].key \in Int /\ src.frames[tf].key <= src.version
       /\ src.frames[tf].key = src.version => src.frames[tf].bars = Resample(src.rows, tf)

(* The source has the prices of every row the store shows.                 *)
Agree(st, src) ==
  \A m \in DOMAIN Visible(st) : m \in DOMAIN src.rows /\ src.rows[m] = Visible(st)[m].ticks

(* A reader gets rows.                                                      *)
LEMMA VisibleOK ==
  ASSUME NEW st, StoreOK(st)
  PROVE  RowsOK(Visible(st)) /\ DOMAIN Visible(st) = Known(st)
<1>1. DOMAIN Visible(st) = Known(st) BY DEF Visible
<1>2. Visible(st) = [m \in DOMAIN Visible(st) |-> Visible(st)[m]] BY DEF Visible
<1>3. ASSUME NEW m \in Known(st) PROVE m \in Minutes /\ Visible(st)[m] \in LiveRows
  <2>1. CASE m \in PendingMinutes(st)
    <3> DEFINE ks == {k \in DOMAIN st.pending : st.pending[k][1] = m}
    <3>1. Visible(st)[m] = st.pending[Max(ks)][2] BY <1>3, <2>1 DEF Visible
    <3>2. st.pending \in Seq(Minutes \X LiveRows) BY DEF StoreOK
    <3>3. Len(st.pending) \in Nat /\ DOMAIN st.pending = 1..Len(st.pending) BY <3>2
    <3>4. ks \in SUBSET (0..Len(st.pending)) /\ ks # {}
      BY <2>1, <3>3 DEF PendingMinutes
    <3>5. Max(ks) \in ks
      <4> HIDE DEF ks
      <4> QED BY <3>3, <3>4, MaxOf
    <3>6. \A k \in DOMAIN st.pending : st.pending[k] \in Minutes \X LiveRows BY <3>2, <3>3
    <3> QED BY <3>1, <3>5, <3>6
  <2>2. CASE m \notin PendingMinutes(st)
    <3>1. m \in DOMAIN st.rows BY <1>3, <2>2 DEF Known
    <3>2. Visible(st)[m] = st.rows[m] BY <1>3, <2>2 DEF Visible
    <3> QED BY <3>1, <3>2 DEF StoreOK, RowsOK
  <2> QED BY <2>1, <2>2
<1> QED BY <1>1, <1>2, <1>3 DEF RowsOK

(* Without pending rows a reader gets the stored ones.                     *)
LEMMA VisibleFlushed ==
  ASSUME NEW st, StoreOK(st), st.pending = <<>> PROVE Visible(st) = st.rows
<1>1. PendingMinutes(st) = {} BY DEF PendingMinutes
<1>2. Known(st) = DOMAIN st.rows BY <1>1 DEF Known
<1>3. Visible(st) = [m \in DOMAIN st.rows |-> st.rows[m]] BY <1>1, <1>2 DEF Visible
<1> QED BY <1>3 DEF StoreOK, RowsOK

(* Trimming drops old rows only.                                            *)
LEMMA TrimKept ==
  ASSUME NEW rows, RowsOK(rows) PROVE RowsOK(Trim(rows)) /\ Series!Kept(rows, Trim(rows))
<1>1. Horizon \in Nat /\ Lookback \in Nat BY LiveConstants, BarConstants
<1> DEFINE new == {m \in DOMAIN rows : m >= Max(DOMAIN rows) - Lookback}
<1>2. Trim(rows) = [m \in DOMAIN rows \cap new |-> rows[m]]
  BY DEF Trim, Within, Restrict
<1>3. RowsOK(Trim(rows)) BY <1>2 DEF RowsOK
<1>4. ASSUME NEW m \in DOMAIN rows, m \notin new PROVE m \in Series!Old(rows)
  <2>1. DOMAIN rows \in SUBSET (0..Horizon) /\ DOMAIN rows # {} BY DEF RowsOK, Minutes
  <2>2. Max(DOMAIN rows) \in DOMAIN rows BY <1>1, <2>1, MaxOf
  <2>3. Max(DOMAIN rows) \in Int /\ m \in Int BY <1>1, <2>1, <2>2
  <2>4. Max(DOMAIN rows) - m > Lookback BY <1>1, <1>4, <2>3
  <2> QED BY <2>2, <2>4 DEF Series!Old
<1> HIDE DEF new
<1> QED BY <1>2, <1>3, <1>4 DEF Series!Kept

(* A flush shows what was pending, all but old rows, and stays well formed. *)
LEMMA FlushShows ==
  ASSUME NEW st, StoreOK(st)
  PROVE  /\ StoreOK(Flush(st)) /\ Flush(st).pending = <<>>
         /\ Flush(st).revision = st.revision
         /\ Series!Kept(Visible(st), Visible(Flush(st)))
<1>1. CASE st.pending = <<>>
  <2>1. Flush(st) = st BY <1>1 DEF Flush
  <2> QED BY <1>1, <2>1, KeptRefl
<1>2. CASE st.pending # <<>>
  <2> DEFINE rows == Trim(Visible(st))
             f == [st EXCEPT !.rows = rows, !.pending = <<>>]
  <2>1. Flush(st) = f BY <1>2 DEF Flush
  <2>2. RowsOK(rows) /\ Series!Kept(Visible(st), rows) BY VisibleOK, TrimKept
  <2> HIDE DEF rows
  <2>3. /\ DOMAIN f = DOMAIN st /\ f.rows = rows /\ f.pending = <<>>
        /\ f.revision = st.revision /\ f.frames = st.frames
    BY DEF StoreOK
  <2> HIDE DEF f
  <2>4. f.pending \in Seq(Minutes \X LiveRows) BY <2>3
  <2>5. StoreOK(f) BY <1>2, <2>2, <2>3, <2>4 DEF StoreOK
  <2>6. Visible(f) = rows BY <2>3, <2>5, VisibleFlushed
  <2> QED BY <2>1, <2>2, <2>3, <2>5, <2>6
<1> QED BY <1>1, <1>2

(* Replacing a row of a minute keeps what was kept.                         *)
LEMMA KeptReplace ==
  ASSUME NEW s, NEW t, Series!Kept(s, t), NEW m, NEW row
  PROVE  Series!Kept(Replace(s, m, row), Replace(t, m, row))
BY DEF Series!Kept, Series!Old, Replace

LEMMA ReplaceOK ==
  ASSUME NEW rows, RowsOK(rows), NEW m \in Minutes, NEW row \in LiveRows
  PROVE  RowsOK(Replace(rows, m, row))
BY DEF RowsOK, Replace

(* A pending row of a minute is the one a reader gets.                     *)
LEMMA AppendShows ==
  ASSUME NEW st, StoreOK(st), NEW m \in Minutes, NEW row \in LiveRows
  PROVE  LET more == [st EXCEPT !.pending = Append(@, <<m, row>>), !.revision = @ + 1]
         IN StoreOK(more) /\ Visible(more) = Replace(Visible(st), m, row)
<1> DEFINE more == [st EXCEPT !.pending = Append(@, <<m, row>>), !.revision = @ + 1]
           n == Len(st.pending)
<1>1. /\ st.pending \in Seq(Minutes \X LiveRows) /\ n \in Nat
      /\ DOMAIN st.pending = 1..n
  BY DEF StoreOK
<1>2. <<m, row>> \in Minutes \X LiveRows OBVIOUS
<1>3. /\ DOMAIN more = DOMAIN st /\ more.rows = st.rows /\ more.frames = st.frames
      /\ more.pending = Append(st.pending, <<m, row>>) /\ more.revision = st.revision + 1
  BY DEF StoreOK
<1> HIDE DEF more
<1>4. /\ more.pending \in Seq(Minutes \X LiveRows) /\ DOMAIN more.pending = 1..(n + 1)
      /\ more.pending[n + 1] = <<m, row>>
      /\ \A k \in 1..n : more.pending[k] = st.pending[k]
      /\ more.pending # <<>>
  <2> DEFINE up == <<m, row>>
  <2> HIDE DEF up
  <2>1. up \in Minutes \X LiveRows BY <1>2 DEF up
  <2>2. more.pending = Append(st.pending, up) BY <1>3 DEF up
  <2>3. more.pending \in Seq(Minutes \X LiveRows) /\ Len(more.pending) = n + 1
        /\ more.pending[n + 1] = up /\ \A k \in 1..n : more.pending[k] = st.pending[k]
    BY <1>1, <2>1, <2>2
  <2>4. DOMAIN more.pending = 1..(n + 1) BY <2>3
  <2>5. more.pending # <<>> BY <1>1, <2>3
  <2> QED BY <2>3, <2>4, <2>5 DEF up
<1>5. StoreOK(more)
  <2>1. more.revision \in Nat /\ more.revision > st.revision BY <1>3 DEF StoreOK
  <2>2. ASSUME NEW tf \in Timeframes
        PROVE  /\ more.frames[tf].key \in Int /\ more.frames[tf].key <= more.revision
               /\ more.frames[tf].key # more.revision
    <3>1. st.frames[tf].key \in Int /\ st.frames[tf].key <= st.revision /\ st.revision \in Nat
      BY DEF StoreOK
    <3> QED BY <1>3, <2>1, <3>1
  <2>3. DOMAIN more = {"rows", "pending", "revision", "frames"} /\ RowsOK(more.rows)
        /\ DOMAIN more.frames = Timeframes
    BY <1>3 DEF StoreOK
  <2> QED BY <1>4, <2>1, <2>2, <2>3 DEF StoreOK
<1>6. PendingMinutes(more) = PendingMinutes(st) \cup {m} /\ n + 1 \in DOMAIN more.pending
  <2>1. n + 1 \in DOMAIN more.pending /\ \A k \in DOMAIN more.pending : k = n + 1 \/ k \in 1..n
    BY <1>1, <1>4
  <2>2. \A k \in 1..n : k \in DOMAIN more.pending BY <1>1, <1>4
  <2>3. more.pending[n + 1][1] = m BY <1>4
  <2> QED BY <1>1, <1>4, <2>1, <2>2, <2>3 DEF PendingMinutes
<1>7. Known(more) = Known(st) \cup {m} BY <1>3, <1>6 DEF Known
<1>8. ASSUME NEW k \in Known(more) PROVE Visible(more)[k] = Replace(Visible(st), m, row)[k]
  <2> DEFINE ks == {j \in DOMAIN more.pending : more.pending[j][1] = k}
  <2>1. DOMAIN Visible(st) = Known(st) BY DEF Visible
  <2>2. CASE k = m
    <3>1. ks \in SUBSET (0..(n + 1)) /\ n + 1 \in ks BY <1>1, <1>4, <1>6, <2>2
    <3>2. n + 1 \in Nat /\ ks # {} BY <1>1, <3>1
    <3>3. Max(ks) \in ks /\ \A y \in ks : y <= Max(ks)
      <4> HIDE DEF ks, n
      <4> QED BY <3>1, <3>2, MaxOf
    <3>4. Max(ks) = n + 1
      <4> DEFINE top == Max(ks)
      <4>1. top \in 0..(n + 1) /\ n + 1 <= top BY <3>1, <3>3
      <4> HIDE DEF top
      <4>2. top = n + 1 BY <1>1, <4>1
      <4> QED BY <4>2 DEF top
    <3>5. k \in PendingMinutes(more) BY <1>6, <2>2
    <3>6. Visible(more)[k] = row
      <4>1. Visible(more)[k] = more.pending[Max(ks)][2] BY <1>8, <3>5 DEF Visible
      <4> HIDE DEF ks
      <4>2. more.pending[Max(ks)] = <<m, row>> BY <1>4, <3>4
      <4> QED BY <4>1, <4>2
    <3>7. Replace(Visible(st), m, row)[k] = row BY <2>2 DEF Replace
    <3> QED BY <3>6, <3>7
  <2>3. CASE k # m
    <3>1. k \in Known(st) BY <1>7, <1>8, <2>3
    <3>2. Replace(Visible(st), m, row)[k] = Visible(st)[k] BY <2>1, <2>3, <3>1 DEF Replace
    <3>3. CASE k \in PendingMinutes(st)
      <4> DEFINE old == {j \in DOMAIN st.pending : st.pending[j][1] = k}
      <4>1. \A j \in ks : j # n + 1 BY <1>4, <2>3
      <4>2. ks = old /\ ks \subseteq 1..n BY <1>1, <1>4, <4>1
      <4>3. ks \in SUBSET (0..n) /\ ks # {} BY <1>1, <3>3, <4>2 DEF PendingMinutes
      <4>4. Max(ks) \in 1..n
        <5> HIDE DEF ks, old
        <5> QED BY <1>1, <4>2, <4>3, MaxOf
      <4>5. Visible(more)[k] = more.pending[Max(ks)][2] BY <1>6, <1>8, <3>3 DEF Visible
      <4>6. Visible(st)[k] = st.pending[Max(old)][2] BY <3>1, <3>3 DEF Visible
      <4>7. more.pending[Max(ks)] = st.pending[Max(old)] BY <1>4, <4>2, <4>4
      <4> QED BY <3>2, <4>5, <4>6, <4>7
    <3>4. CASE k \notin PendingMinutes(st)
      <4>1. Visible(more)[k] = more.rows[k] BY <1>6, <1>8, <2>3, <3>4 DEF Visible
      <4>2. Visible(st)[k] = st.rows[k] BY <3>1, <3>4 DEF Visible
      <4> QED BY <1>3, <3>2, <4>1, <4>2
    <3> QED BY <3>3, <3>4
  <2> QED BY <2>2, <2>3
<1>9. Visible(more) = Replace(Visible(st), m, row)
  <2>1. DOMAIN Visible(more) = Known(more) /\ DOMAIN Visible(st) = Known(st) BY DEF Visible
  <2>2. Visible(more) = [k \in Known(more) |-> Visible(more)[k]] BY DEF Visible
  <2>3. Replace(Visible(st), m, row)
          = [k \in Known(more) |-> Replace(Visible(st), m, row)[k]]
    BY <1>7, <2>1 DEF Replace
  <2> QED BY <1>8, <2>2, <2>3
<1> QED BY <1>5, <1>9 DEF more

(* on_bar puts the row over the series a reader gets, whichever way it     *)
(* takes.                                                                   *)
LEMMA IngestShows ==
  ASSUME NEW st, StoreOK(st), NEW m \in Minutes, NEW row \in LiveRows
  PROVE  /\ StoreOK(Ingest(st, m, row))
         /\ Series!Kept(Replace(Visible(st), m, row), Visible(Ingest(st, m, row)))
<1>1. CASE \A latest \in Latest(st) : m > latest
  <2> DEFINE more == [st EXCEPT !.pending = Append(@, <<m, row>>), !.revision = @ + 1]
  <2>1. StoreOK(more) /\ Visible(more) = Replace(Visible(st), m, row) BY AppendShows
  <2>2. Ingest(st, m, row) \in {more, Flush(more)} BY <1>1 DEF Ingest
  <2> HIDE DEF more
  <2> QED BY <2>1, <2>2, FlushShows, KeptRefl
<1>2. CASE ~ \A latest \in Latest(st) : m > latest
  <2> DEFINE f == Flush(st)
             new == [f EXCEPT !.rows = Replace(@, m, row), !.revision = @ + 1]
  <2>1. StoreOK(f) /\ f.pending = <<>> /\ Series!Kept(Visible(st), Visible(f))
    BY FlushShows
  <2>2. Ingest(st, m, row) = new BY <1>2 DEF Ingest
  <2> HIDE DEF f
  <2>3. /\ DOMAIN new = DOMAIN f /\ new.rows = Replace(f.rows, m, row)
        /\ new.revision = f.revision + 1 /\ new.pending = <<>> /\ new.frames = f.frames
    BY <2>1 DEF StoreOK
  <2> HIDE DEF new
  <2>4. StoreOK(new)
    <3>1. RowsOK(new.rows) BY <2>1, <2>3, ReplaceOK DEF StoreOK
    <3>2. new.revision \in Nat /\ f.revision \in Nat BY <2>1, <2>3 DEF StoreOK
    <3>3. ASSUME NEW tf \in Timeframes
          PROVE  /\ new.frames[tf].key \in Int /\ new.frames[tf].key <= new.revision
                 /\ new.frames[tf].key # new.revision
      <4>1. f.frames[tf].key \in Int /\ f.frames[tf].key <= f.revision
        BY <2>1 DEF StoreOK
      <4> QED BY <2>3, <3>2, <4>1
    <3>4. new.pending \in Seq(Minutes \X LiveRows) BY <2>3
    <3> QED BY <2>1, <2>3, <3>1, <3>2, <3>3, <3>4 DEF StoreOK
  <2>5. Visible(f) = f.rows /\ Visible(new) = new.rows BY <2>1, <2>3, <2>4, VisibleFlushed
  <2>6. Series!Kept(Replace(Visible(st), m, row), Replace(Visible(f), m, row))
    BY <2>1, KeptReplace
  <2> QED BY <2>2, <2>3, <2>4, <2>5, <2>6
<1> QED BY <1>1, <1>2

(* A resample shows what a flush shows and leaves a frame of its revision. *)
LEMMA ReadShows ==
  ASSUME NEW st, StoreOK(st), NEW tf \in Timeframes
  PROVE  StoreOK(ReadStore(st, tf)) /\ Series!Kept(Visible(st), Visible(ReadStore(st, tf)))
<1> DEFINE f == Flush(st)
           frame == [key |-> f.revision, bars |-> Resample(Prices(f.rows), tf)]
           new == [f EXCEPT !.frames[tf] = frame]
<1>1. StoreOK(f) /\ f.pending = <<>> /\ Series!Kept(Visible(st), Visible(f)) BY FlushShows
<1>2. ReadStore(st, tf) \in {f, new} BY DEF ReadStore
<1>3. frame.key = f.revision /\ frame.bars = Resample(Prices(f.rows), tf) OBVIOUS
<1> HIDE DEF f, frame
<1>4. /\ DOMAIN new = DOMAIN f /\ new.rows = f.rows /\ new.pending = <<>>
      /\ new.revision = f.revision
      /\ DOMAIN new.frames = Timeframes /\ new.frames[tf] = frame
      /\ \A g \in Timeframes : g # tf => new.frames[g] = f.frames[g]
  BY <1>1 DEF StoreOK
<1> HIDE DEF new
<1>5. StoreOK(new)
  <2>1. f.revision \in Nat BY <1>1 DEF StoreOK
  <2>2. ASSUME NEW g \in Timeframes
        PROVE  /\ new.frames[g].key \in Int /\ new.frames[g].key <= new.revision
               /\ new.frames[g].key = new.revision =>
                    new.pending = <<>> /\ new.frames[g].bars = Resample(Prices(new.rows), g)
    <3>1. CASE g = tf BY <1>3, <1>4, <2>1, <3>1
    <3>2. CASE g # tf
      <4>1. new.frames[g] = f.frames[g] BY <1>4, <3>2
      <4>2. /\ f.frames[g].key \in Int /\ f.frames[g].key <= f.revision
            /\ f.frames[g].key = f.revision => f.frames[g].bars = Resample(Prices(f.rows), g)
        BY <1>1 DEF StoreOK
      <4> QED BY <1>4, <4>1, <4>2
    <3> QED BY <3>1, <3>2
  <2>3. RowsOK(new.rows) /\ new.pending \in Seq(Minutes \X LiveRows)
    BY <1>1, <1>4 DEF StoreOK
  <2> QED BY <1>1, <1>4, <2>1, <2>2, <2>3 DEF StoreOK
<1>6. Visible(new) = Visible(f) BY <1>1, <1>4, <1>5, VisibleFlushed
<1> QED BY <1>1, <1>2, <1>5, <1>6

LEMMA ReadAllShows ==
  ASSUME NEW st, StoreOK(st), NEW reads
  PROVE  StoreOK(ReadAll(reads, st)) /\ Series!Kept(Visible(st), Visible(ReadAll(reads, st)))
<1>1. Window \in Timeframes /\ DayLength \in Timeframes BY DEF Timeframes
<1> DEFINE mid == ReadStore(st, Window)
<1>2. StoreOK(mid) /\ Series!Kept(Visible(st), Visible(mid)) BY <1>1, ReadShows
<1> HIDE DEF mid
<1> DEFINE end == ReadStore(mid, DayLength)
<1>3. StoreOK(end) /\ Series!Kept(Visible(mid), Visible(end)) BY <1>1, <1>2, ReadShows
<1>4. ReadAll(reads, st) \in {st, end} BY DEF ReadAll, mid
<1> HIDE DEF end
<1>5. Series!Kept(Visible(st), Visible(end)) BY <1>2, <1>3, KeptTrans
<1> QED BY <1>3, <1>4, <1>5, KeptRefl

(* Setting the rows of a source leaves it with those rows.                 *)
LEMMA SetSourceShows ==
  ASSUME NEW src, SourceOK(src), NEW rows, DOMAIN rows \subseteq Minutes
  PROVE  /\ SourceOK(SetSource(src, rows))
         /\ SetSource(src, rows).rows = rows /\ SetSource(src, rows).version # 0
<1>1. CASE src.version # 0 /\ src.rows = rows
  <2>1. SetSource(src, rows) = src BY <1>1 DEF SetSource
  <2> QED BY <1>1, <2>1
<1>2. CASE ~ (src.version # 0 /\ src.rows = rows)
  <2> DEFINE new == [src EXCEPT !.rows = rows, !.version = @ + 1]
  <2>1. SetSource(src, rows) = new BY <1>2 DEF SetSource
  <2>2. /\ DOMAIN new = DOMAIN src /\ new.rows = rows /\ new.version = src.version + 1
        /\ new.frames = src.frames
    BY DEF SourceOK
  <2> HIDE DEF new
  <2>3. new.version \in Nat /\ new.version # 0 /\ new.version > src.version
    BY <2>2 DEF SourceOK
  <2>4. ASSUME NEW tf \in Timeframes
        PROVE  /\ new.frames[tf].key \in Int /\ new.frames[tf].key <= new.version
               /\ new.frames[tf].key # new.version
    <3>1. src.version \in Nat /\ src.frames[tf].key \in Int
          /\ src.frames[tf].key <= src.version
      BY DEF SourceOK
    <3> QED BY <2>2, <3>1
  <2> QED BY <2>1, <2>2, <2>3, <2>4 DEF SourceOK
<1> QED BY <1>1, <1>2

(* A read of a feature changes the cached frames only.                     *)
LEMMA ReadSourceShows ==
  ASSUME NEW src, SourceOK(src), NEW tf \in Timeframes
  PROVE  /\ SourceOK(ReadSource(src, tf))
         /\ ReadSource(src, tf).rows = src.rows /\ ReadSource(src, tf).version = src.version
<1> DEFINE frame == [key |-> src.version, bars |-> Resample(src.rows, tf)]
           new == [src EXCEPT !.frames[tf] = frame]
<1>1. ReadSource(src, tf) \in {src, new} BY DEF ReadSource
<1>2. frame.key = src.version /\ frame.bars = Resample(src.rows, tf) OBVIOUS
<1> HIDE DEF frame
<1>3. /\ DOMAIN new = DOMAIN src /\ new.rows = src.rows /\ new.version = src.version
      /\ DOMAIN new.frames = Timeframes /\ new.frames[tf] = frame
      /\ \A g \in Timeframes : g # tf => new.frames[g] = src.frames[g]
  BY DEF SourceOK
<1> HIDE DEF new
<1>4. ASSUME NEW g \in Timeframes
      PROVE  /\ new.frames[g].key \in Int /\ new.frames[g].key <= new.version
             /\ new.frames[g].key = new.version => new.frames[g].bars = Resample(new.rows, g)
  <2>1. src.version \in Nat BY DEF SourceOK
  <2>2. CASE g = tf BY <1>2, <1>3, <2>1, <2>2
  <2>3. CASE g # tf
    <3>1. new.frames[g] = src.frames[g] BY <1>3, <2>3
    <3>2. /\ src.frames[g].key \in Int /\ src.frames[g].key <= src.version
          /\ src.frames[g].key = src.version => src.frames[g].bars = Resample(src.rows, g)
      BY DEF SourceOK
    <3> QED BY <1>3, <3>1, <3>2
  <2> QED BY <2>2, <2>3
<1>5. SourceOK(new) BY <1>3, <1>4 DEF SourceOK
<1> QED BY <1>1, <1>3, <1>5

LEMMA ReadFeaturesShows ==
  ASSUME NEW src, SourceOK(src), NEW reads
  PROVE  /\ SourceOK(ReadFeatures(reads, src))
         /\ ReadFeatures(reads, src).rows = src.rows
         /\ ReadFeatures(reads, src).version = src.version
<1>1. Window \in Timeframes /\ DayLength \in Timeframes BY DEF Timeframes
<1> DEFINE mid == ReadSource(src, Window)
<1>2. SourceOK(mid) /\ mid.rows = src.rows /\ mid.version = src.version
  BY <1>1, ReadSourceShows
<1> HIDE DEF mid
<1> DEFINE end == ReadSource(mid, DayLength)
<1>3. SourceOK(end) /\ end.rows = mid.rows /\ end.version = mid.version
  BY <1>1, <1>2, ReadSourceShows
<1>4. ReadFeatures(reads, src) \in {src, end} BY DEF ReadFeatures, mid
<1> HIDE DEF end
<1> QED BY <1>2, <1>3, <1>4

(* A minute the stream closes: both copies get it, and go on agreeing.     *)
LEMMA CloseShows ==
  ASSUME NEW st, StoreOK(st), NEW src, SourceOK(src), src.version # 0, Agree(st, src),
         NEW m \in Minutes, NEW ticks \in SUBSET Complete, NEW reads
  PROVE  LET row == [source |-> "live", ticks |-> ticks]
             st2 == ReadAll(reads, Ingest(st, m, row))
             src2 == ReadFeatures(reads, SourceBar(src, m, ticks))
         IN /\ StoreOK(st2) /\ SourceOK(src2) /\ src2.version # 0 /\ Agree(st2, src2)
            /\ Series!Kept(Replace(Visible(st), m, row), Visible(st2))
<1> DEFINE row == [source |-> "live", ticks |-> ticks]
           st1 == Ingest(st, m, row)
           st2 == ReadAll(reads, st1)
           src1 == SourceBar(src, m, ticks)
           src2 == ReadFeatures(reads, src1)
<1>1. row \in LiveRows /\ row.ticks = ticks BY DEF LiveRows
<1> HIDE DEF row
<1>2. StoreOK(st1) /\ Series!Kept(Replace(Visible(st), m, row), Visible(st1))
  BY <1>1, IngestShows
<1> HIDE DEF st1
<1>3. StoreOK(st2) /\ Series!Kept(Visible(st1), Visible(st2)) BY <1>2, ReadAllShows
<1>4. Series!Kept(Replace(Visible(st), m, row), Visible(st2)) BY <1>2, <1>3, KeptTrans
<1>5. DOMAIN Replace(src.rows, m, ticks) \subseteq Minutes BY DEF SourceOK, Replace
<1>6. src1 = SetSource(src, Replace(src.rows, m, ticks)) BY DEF SourceBar
<1>7. SourceOK(src1) /\ src1.rows = Replace(src.rows, m, ticks) /\ src1.version # 0
  BY <1>5, <1>6, SetSourceShows
<1> HIDE DEF src1
<1>8. SourceOK(src2) /\ src2.rows = Replace(src.rows, m, ticks) /\ src2.version # 0
  BY <1>7, ReadFeaturesShows
<1> HIDE DEF st2, src2
<1>9. Agree(st2, src2)
  <2> SUFFICES ASSUME NEW k \in DOMAIN Visible(st2)
               PROVE  k \in DOMAIN src2.rows /\ src2.rows[k] = Visible(st2)[k].ticks
    BY DEF Agree
  <2>1. k \in DOMAIN Visible(st) \cup {m}
        /\ Visible(st2)[k] = (IF k = m THEN row ELSE Visible(st)[k])
    BY <1>4 DEF Series!Kept, Replace
  <2>2. DOMAIN src2.rows = DOMAIN src.rows \cup {m} BY <1>8 DEF Replace
  <2>3. CASE k = m
    <3>1. src2.rows[k] = ticks BY <1>8, <2>3 DEF Replace
    <3> QED BY <1>1, <2>1, <2>2, <2>3, <3>1
  <2>4. CASE k # m
    <3>1. k \in DOMAIN src.rows /\ src.rows[k] = Visible(st)[k].ticks
      BY <2>1, <2>4 DEF Agree
    <3>2. src2.rows[k] = src.rows[k] BY <1>8, <2>4, <3>1 DEF Replace
    <3> QED BY <2>1, <2>2, <2>4, <3>1, <3>2
  <2> QED BY <2>3, <2>4
<1> QED BY <1>3, <1>4, <1>8, <1>9 DEF st1, st2, src1, src2, row

-----------------------------------------------------------------------------
(* The start.                                                               *)

LEMMA NewStoreOK ==
  /\ StoreOK(NewStore) /\ NewStore.pending = <<>> /\ Visible(NewStore) = <<>>
  /\ SourceOK(NewSource) /\ NewSource.version = 0
<1>1. RowsOK(<<>>)
  <2>1. DOMAIN <<>> = {} OBVIOUS
  <2>2. <<>> = [m \in {} |-> <<>>[m]] OBVIOUS
  <2> QED BY <2>1, <2>2 DEF RowsOK
<1>2. /\ NewStore.rows = <<>> /\ NewStore.pending = <<>> /\ NewStore.revision = 0
      /\ DOMAIN NewStore = {"rows", "pending", "revision", "frames"}
      /\ DOMAIN NewStore.frames = Timeframes
      /\ \A tf \in Timeframes : NewStore.frames[tf].key = -1
  BY DEF NewStore, NoFrame
<1>3. /\ DOMAIN NewSource.rows = {} /\ NewSource.version = 0
      /\ DOMAIN NewSource = {"rows", "version", "frames"}
      /\ DOMAIN NewSource.frames = Timeframes
      /\ \A tf \in Timeframes : NewSource.frames[tf].key = -1
  BY DEF NewSource, NoFrame
<1>4. StoreOK(NewStore)
  <2>1. <<>> \in Seq(Minutes \X LiveRows) OBVIOUS
  <2> QED BY <1>1, <1>2, <2>1 DEF StoreOK
<1>5. Visible(NewStore) = <<>> BY <1>2, <1>4, VisibleFlushed
<1>6. SourceOK(NewSource) BY <1>3 DEF SourceOK
<1> QED BY <1>2, <1>3, <1>4, <1>5, <1>6

(* merge_backfill leaves rows and nothing pending.                         *)
LEMMA MergeOK ==
  ASSUME NEW fetched, RowsOK(fetched), NEW session
  PROVE  LET st == Merge(NewStore, fetched, session)
         IN StoreOK(st) /\ st.pending = <<>>
<1> DEFINE kept == Within(fetched, {m \in DOMAIN fetched :
                                 ~(m \in session /\ fetched[m].source = "csv")})
           more == IF kept = <<>> THEN 0 ELSE 1
           st == [NewStore EXCEPT !.rows = Trim(kept), !.revision = @ + more]
<1>1. Merge(NewStore, fetched, session) = st BY DEF Merge
<1>2. RowsOK(kept) BY DEF RowsOK, Within, Restrict
<1>3. more \in {0, 1} OBVIOUS
<1> HIDE DEF kept, more
<1> DEFINE rows == Trim(kept)
<1>4. RowsOK(rows) BY <1>2, TrimKept
<1> HIDE DEF rows
<1>5. /\ DOMAIN st = {"rows", "pending", "revision", "frames"} /\ st.rows = rows
      /\ st.pending = <<>> /\ st.revision = more
      /\ DOMAIN st.frames = Timeframes /\ \A tf \in Timeframes : st.frames[tf].key = -1
  BY <1>3 DEF NewStore, NoFrame, rows
<1> HIDE DEF st
<1>6. <<>> \in Seq(Minutes \X LiveRows) OBVIOUS
<1>7. StoreOK(st) BY <1>3, <1>4, <1>5, <1>6 DEF StoreOK
<1> QED BY <1>1, <1>5, <1>7

(* What a start fetches are rows of the file and of the service.           *)
LEMMA FetchedOK ==
  ASSUME begin \in Minutes, offline \subseteq Minutes,
         NEW last \in (SessionStart - 1)..begin
  PROVE  RowsOK(Fetched(last))
<1>1. Horizon \in Nat /\ DayLength \in Nat \ {0} BY LiveConstants, BarConstants
<1>2. begin \in Nat /\ begin <= Horizon BY <1>1 DEF Minutes
<1>3. SessionStart \in Nat
  <2>1. Day(begin) \in Nat BY <1>1, <1>2 DEF Day
  <2> DEFINE d == Day(begin)
  <2>2. SessionStart = d * DayLength BY DEF SessionStart
  <2> HIDE DEF d
  <2> QED BY <1>1, <2>1, <2>2 DEF d
<1>4. SessionStart..last \subseteq Minutes BY <1>1, <1>2, <1>3 DEF Minutes
<1>5. \A m \in {"csv", "ibkr", "live"} : \A T \in SUBSET Complete :
        [source |-> m, ticks |-> T] \in LiveRows
  BY DEF LiveRows
<1>6. RowsOK(Service(last)) BY <1>4, <1>5 DEF RowsOK, Service, Complete
<1> DEFINE file == [m \in offline |-> [source |-> "csv", ticks |-> Complete]]
<1>7. RowsOK(file) BY <1>5 DEF RowsOK
<1>8. RowsOK(Within(file, {m \in offline : m < SessionStart}))
  <2> HIDE DEF file
  <2> QED BY <1>7 DEF RowsOK, Within, Restrict
<1>9. ASSUME NEW f, NEW g, RowsOK(f), RowsOK(g) PROVE RowsOK(Over(f, g))
  BY <1>9 DEF RowsOK, Over
<1>10. Fetched(last) \in {file, Over(Service(last), Within(file, {m \in offline : m < SessionStart}))}
  BY DEF Fetched
<1> HIDE DEF file
<1> QED BY <1>6, <1>7, <1>8, <1>9, <1>10

(* The copies after a start: of the same rows, whatever is read then.      *)
LEMMA StartShows ==
  ASSUME NEW st, StoreOK(st), st.pending = <<>>, NEW reads
  PROVE  LET st2 == ReadAll(reads, st)
             src2 == ReadFeatures(reads, Preload(NewSource, st))
         IN StoreOK(st2) /\ SourceOK(src2) /\ src2.version # 0 /\ Agree(st2, src2)
<1> DEFINE st2 == ReadAll(reads, st)
           rows == Prices(st.rows)
           src1 == SetSource(NewSource, rows)
           src2 == ReadFeatures(reads, src1)
<1>1. StoreOK(st2) /\ Series!Kept(Visible(st), Visible(st2)) BY ReadAllShows
<1>2. Visible(st) = st.rows BY VisibleFlushed
<1>3. DOMAIN rows = DOMAIN st.rows /\ \A m \in DOMAIN rows : rows[m] = st.rows[m].ticks
  BY DEF Prices
<1>4. DOMAIN rows \subseteq Minutes BY <1>3 DEF StoreOK, RowsOK
<1>5. Preload(NewSource, st) = src1 BY DEF Preload, Flush
<1> HIDE DEF rows
<1>6. SourceOK(src1) /\ src1.rows = rows /\ src1.version # 0
  BY <1>4, NewStoreOK, SetSourceShows
<1> HIDE DEF src1
<1>7. SourceOK(src2) /\ src2.rows = rows /\ src2.version # 0 BY <1>6, ReadFeaturesShows
<1> HIDE DEF st2, src2
<1>8. Agree(st2, src2) BY <1>1, <1>2, <1>3, <1>7 DEF Agree, Series!Kept
<1> QED BY <1>1, <1>5, <1>7, <1>8 DEF st2, src2

-----------------------------------------------------------------------------
(* The inductive invariant: the shapes, the open minute next to what was   *)
(* heard of it, both copies as new until the stream is subscribed and in   *)
(* agreement from then on, and the minutes whole.                          *)

LiveTypes ==
  /\ begin \in Minutes /\ offline \subseteq Minutes /\ fed \in BOOLEAN
  /\ next \in [minute : Nat, tick : {0, 1}]
  /\ open \in [minute : Minutes \cup {-1}, ticks : SUBSET Complete]
  /\ DOMAIN heard \subseteq Minutes /\ heard \in [DOMAIN heard -> SUBSET Complete]
  /\ StoreOK(liveStore) /\ SourceOK(liveSource)

OpenHeard ==
  /\ open.minute <= next.minute
  /\ \A m \in DOMAIN heard : m <= open.minute
  /\ open.minute # -1 => open.minute \in DOMAIN heard /\ heard[open.minute] = open.ticks

NewUntilFed ==
  ~fed => liveStore = NewStore /\ liveSource = NewSource /\ open.minute = -1

AgreeOnceFed == fed => liveSource.version # 0 /\ Agree(liveStore, liveSource)

LiveInv == LiveTypes /\ OpenHeard /\ NewUntilFed /\ AgreeOnceFed /\ MinuteWhole

LEMMA LiveInitInv == LiveInit => LiveInv
<1> SUFFICES ASSUME LiveInit PROVE LiveInv OBVIOUS
<1> USE DEF LiveInit
<1>1. Horizon \in Nat /\ Starts \subseteq 0..Horizon BY LiveConstants
<1>2. begin \in Minutes /\ begin \in Nat BY <1>1 DEF Minutes
<1>3. offline \subseteq Minutes
  <2>1. PICK last \in -1..(begin - 1) : offline = 0..last OBVIOUS
  <2> QED BY <1>1, <1>2, <2>1 DEF Minutes
<1>4. next \in [minute : Nat, tick : {0, 1}] /\ next.minute = begin BY <1>2
<1>5. open \in [minute : Minutes \cup {-1}, ticks : SUBSET Complete] /\ open.minute = -1
  OBVIOUS
<1>6. DOMAIN heard = {} /\ heard \in [DOMAIN heard -> SUBSET Complete]
  <2>1. DOMAIN heard = {} OBVIOUS
  <2>2. heard = [m \in {} |-> heard[m]] OBVIOUS
  <2> QED BY <2>1, <2>2
<1>7. LiveTypes BY <1>2, <1>3, <1>4, <1>5, <1>6, NewStoreOK DEF LiveTypes
<1>8. OpenHeard BY <1>2, <1>4, <1>5, <1>6 DEF OpenHeard
<1>9. NewUntilFed /\ AgreeOnceFed BY <1>5 DEF NewUntilFed, AgreeOnceFed
<1>10. MinuteWhole BY <1>6 DEF MinuteWhole
<1> QED BY <1>7, <1>8, <1>9, <1>10 DEF LiveInv

(* If the store keeps its rows and the minutes do not change, the minutes  *)
(* stay whole.                                                              *)
LEMMA WholeKept ==
  ASSUME LiveInv, Series!Kept(Visible(liveStore), Visible(liveStore)'),
         UNCHANGED <<heard, open>>
  PROVE  MinuteWhole'
<1> DEFINE old == Visible(liveStore)
           new == Visible(liveStore)'
<1>1. RowsOK(old) BY VisibleOK DEF LiveInv, LiveTypes
<1> SUFFICES ASSUME NEW m \in DOMAIN heard, m # open.minute
             PROVE  IF m \in DOMAIN new THEN new[m] = [source |-> "live", ticks |-> heard[m]]
                    ELSE \E k \in DOMAIN new : k - m > Lookback
  BY DEF MinuteWhole
<1>2. IF m \in DOMAIN old THEN old[m] = [source |-> "live", ticks |-> heard[m]]
      ELSE \E k \in DOMAIN old : k - m > Lookback
  BY DEF LiveInv, MinuteWhole
<1>3. m \in Int
  <2>1. m \in Minutes BY DEF LiveInv, LiveTypes
  <2> QED BY <2>1, LiveConstants DEF Minutes
<1>4. DOMAIN old \subseteq Minutes BY <1>1 DEF RowsOK
<1> HIDE DEF old, new
<1>5. Series!Kept(old, new) BY DEF old, new
<1>6. CASE m \in DOMAIN new BY <1>2, <1>5, <1>6 DEF Series!Kept
<1>7. CASE m \notin DOMAIN new
  <2>1. \E k \in DOMAIN old : k - m > Lookback
    <3>1. CASE m \in DOMAIN old BY <1>5, <1>7, <3>1 DEF Series!Kept, Series!Old
    <3>2. CASE m \notin DOMAIN old BY <1>2, <3>2
    <3> QED BY <3>1, <3>2
  <2>2. \E k \in DOMAIN new : k - m > Lookback BY <1>3, <1>4, <1>5, <2>1, KeptNewest
  <2> QED BY <1>7, <2>2
<1> QED BY <1>6, <1>7

(* The start.                                                               *)
LEMMA StartStep ==
  ASSUME LiveInv, NEW last, NEW raised \in BOOLEAN, NEW reads,
         raised \/ last \in (SessionStart - 1)..begin, LiveStart(last, raised, reads)
  PROVE  LiveInv' /\ Series!Load
<1> DEFINE st == IF raised THEN liveStore
                 ELSE Merge(liveStore, Fetched(last), {m \in 0..Horizon : m >= SessionStart})
<1>1. /\ ~fed /\ fed' = TRUE
      /\ UNCHANGED <<offline, begin, open, next, heard>>
      /\ liveStore' = ReadAll(reads, st)
      /\ liveSource' = ReadFeatures(reads, Preload(liveSource, st))
  BY DEF LiveStart
<1>2. liveStore = NewStore /\ liveSource = NewSource /\ open.minute = -1
  BY <1>1 DEF LiveInv, NewUntilFed
<1>3. StoreOK(st) /\ st.pending = <<>>
  <2>1. CASE raised BY <1>2, <2>1, NewStoreOK
  <2>2. CASE ~raised
    <3>1. last \in (SessionStart - 1)..begin BY <2>2
    <3>2. begin \in Minutes /\ offline \subseteq Minutes BY DEF LiveInv, LiveTypes
    <3>3. RowsOK(Fetched(last)) BY <3>1, <3>2, FetchedOK
    <3> QED BY <1>2, <2>2, <3>3, MergeOK
  <2> QED BY <2>1, <2>2
<1> HIDE DEF st
<1>4. /\ StoreOK(liveStore') /\ SourceOK(liveSource')
      /\ liveSource'.version # 0 /\ Agree(liveStore', liveSource')
  BY <1>1, <1>2, <1>3, StartShows
<1>5. DOMAIN heard = {}
  <2>1. \A m \in DOMAIN heard : m \in Minutes /\ m <= -1
    BY <1>2 DEF LiveInv, LiveTypes, OpenHeard
  <2> QED BY <2>1, LiveConstants DEF Minutes
<1>6. LiveTypes' BY <1>1, <1>4 DEF LiveInv, LiveTypes
<1>7. OpenHeard' BY <1>1 DEF LiveInv, OpenHeard
<1>8. NewUntilFed' /\ AgreeOnceFed' BY <1>1, <1>4 DEF NewUntilFed, AgreeOnceFed
<1>9. MinuteWhole' BY <1>1, <1>5 DEF MinuteWhole
<1>10. Series!Load
  <2>1. Visible(liveStore) = <<>> BY <1>2, NewStoreOK
  <2>2. RowsOK(Visible(liveStore')) BY <1>4, VisibleOK
  <2> QED BY <2>1, <2>2 DEF Series!Load, RowsOK, Minutes
<1> QED BY <1>6, <1>7, <1>8, <1>9, <1>10 DEF LiveInv

(* A tick that is heard: within the open minute, or the one that closes it.*)
LEMMA HearStep ==
  ASSUME LiveInv, NEW reads, LiveTick(TRUE, reads)
  PROVE  LiveInv' /\ (Series!Put \/ Visible(liveStore)' = Visible(liveStore))
<1> DEFINE at == next.minute
<1>1. /\ fed /\ fed' = fed /\ at <= Horizon /\ Hear(reads)
      /\ next' = (IF next.tick = 0 THEN [next EXCEPT !.tick = 1]
                  ELSE [minute |-> at + 1, tick |-> 0])
      /\ UNCHANGED <<offline, begin>>
  BY DEF LiveTick
<1>2. next \in [minute : Nat, tick : {0, 1}] BY DEF LiveInv, LiveTypes
<1>3. at \in Minutes /\ at \in Nat /\ next.tick \in Complete
  BY <1>1, <1>2, LiveConstants DEF Minutes, Complete
<1>4. next' \in [minute : Nat, tick : {0, 1}] /\ at <= next'.minute BY <1>1, <1>2, <1>3
<1>5. /\ DOMAIN heard \subseteq Minutes /\ heard \in [DOMAIN heard -> SUBSET Complete]
      /\ \A m \in DOMAIN heard : m <= open.minute
      /\ open \in [minute : Minutes \cup {-1}, ticks : SUBSET Complete]
      /\ open.minute <= at
      /\ open.minute # -1 => open.minute \in DOMAIN heard /\ heard[open.minute] = open.ticks
  BY DEF LiveInv, LiveTypes, OpenHeard
<1>6. heard' = [m \in DOMAIN heard \cup {at} |->
                 (IF m = at THEN {next.tick} ELSE {})
                 \cup (IF m \in DOMAIN heard THEN heard[m] ELSE {})]
  BY <1>1 DEF Hear
<1>7. DOMAIN heard' \subseteq Minutes /\ heard' \in [DOMAIN heard' -> SUBSET Complete]
  BY <1>3, <1>5, <1>6
<1>8. \A m \in DOMAIN heard : m # at => heard'[m] = heard[m] BY <1>6
<1>9. \A m \in DOMAIN heard' : m <= at
  <2>1. \A m \in DOMAIN heard : m \in Nat BY <1>5, LiveConstants DEF Minutes
  <2>2. open.minute \in Int BY <1>5, LiveConstants DEF Minutes
  <2>3. \A m \in DOMAIN heard : m <= at BY <1>3, <1>5, <2>1, <2>2
  <2> QED BY <1>3, <1>6, <2>3
<1>10. StoreOK(liveStore) /\ SourceOK(liveSource) /\ liveSource.version # 0
       /\ Agree(liveStore, liveSource)
  BY <1>1 DEF LiveInv, LiveTypes, AgreeOnceFed
<1>11. CASE open.minute = at
  <2>1. open' = [open EXCEPT !.ticks = @ \cup {next.tick}]
        /\ UNCHANGED <<liveStore, liveSource>>
    BY <1>1, <1>11 DEF Hear
  <2>2. open' \in [minute : Minutes \cup {-1}, ticks : SUBSET Complete]
        /\ open'.minute = at /\ open'.ticks = open.ticks \cup {next.tick}
    BY <1>3, <1>5, <1>11, <2>1
  <2>3. at \in DOMAIN heard /\ heard'[at] = open'.ticks
    <3>1. at # -1 BY <1>3
    <3>2. at \in DOMAIN heard /\ heard[at] = open.ticks BY <1>5, <1>11, <3>1
    <3>3. heard'[at] = {next.tick} \cup heard[at] BY <1>6, <3>2
    <3> QED BY <2>2, <3>2, <3>3
  <2>4. LiveTypes' BY <1>1, <1>4, <1>7, <2>1, <2>2 DEF LiveInv, LiveTypes
  <2>5. OpenHeard' BY <1>4, <1>6, <1>9, <2>2, <2>3 DEF OpenHeard
  <2>6. NewUntilFed' /\ AgreeOnceFed'
    BY <1>1, <1>10, <2>1 DEF NewUntilFed, AgreeOnceFed
  <2>7. MinuteWhole'
    <3> SUFFICES ASSUME NEW m \in DOMAIN heard', m # open'.minute
                 PROVE  LET rows == Visible(liveStore') IN
                        IF m \in DOMAIN rows THEN rows[m] = [source |-> "live", ticks |-> heard'[m]]
                        ELSE \E k \in DOMAIN rows : k - m > Lookback
      BY DEF MinuteWhole
    <3>1. m \in DOMAIN heard /\ m # open.minute /\ heard'[m] = heard[m]
      BY <1>6, <1>8, <1>11, <2>2
    <3>2. liveStore' = liveStore BY <2>1
    <3>3. LET rows == Visible(liveStore) IN
          IF m \in DOMAIN rows THEN rows[m] = [source |-> "live", ticks |-> heard[m]]
          ELSE \E k \in DOMAIN rows : k - m > Lookback
      BY <3>1 DEF LiveInv, MinuteWhole
    <3> QED BY <3>1, <3>2, <3>3
  <2> QED BY <2>1, <2>4, <2>5, <2>6, <2>7 DEF LiveInv
<1>12. CASE open.minute # at
  <2>1. open' = [minute |-> at, ticks |-> {next.tick}] BY <1>1, <1>12 DEF Hear, FirstTicks
  <2>2. open' \in [minute : Minutes \cup {-1}, ticks : SUBSET Complete]
        /\ open'.minute = at /\ open'.ticks = {next.tick}
    BY <1>3, <2>1
  <2>3. at \notin DOMAIN heard
    <3>1. open.minute \in Int BY <1>5, LiveConstants DEF Minutes
    <3> QED BY <1>3, <1>5, <1>12, <3>1
  <2>4. at \in DOMAIN heard' /\ heard'[at] = open'.ticks BY <1>6, <2>2, <2>3
  <2>5. OpenHeard' BY <1>4, <1>9, <2>2, <2>4 DEF OpenHeard
  <2>6. \A m \in DOMAIN heard' : m # at => m \in DOMAIN heard /\ heard'[m] = heard[m]
    BY <1>6, <1>8
  <2>7. CASE open.minute = -1
    <3>1. UNCHANGED <<liveStore, liveSource>> BY <1>1, <1>12, <2>7 DEF Hear
    <3>2. LiveTypes' BY <1>1, <1>4, <1>7, <2>2, <3>1 DEF LiveInv, LiveTypes
    <3>3. NewUntilFed' /\ AgreeOnceFed'
      BY <1>1, <1>10, <3>1 DEF NewUntilFed, AgreeOnceFed
    <3>4. DOMAIN heard = {}
      <4>1. \A m \in DOMAIN heard : m \in Minutes /\ m <= -1 BY <1>5, <2>7
      <4>2. \A m \in Minutes : ~ (m <= -1) BY LiveConstants DEF Minutes
      <4> QED BY <4>1, <4>2
    <3>5. MinuteWhole' BY <2>2, <2>6, <3>4 DEF MinuteWhole
    <3> QED BY <2>5, <3>1, <3>2, <3>3, <3>5 DEF LiveInv
  <2>8. CASE open.minute # -1
    <3> DEFINE c == open.minute
               row == [source |-> "live", ticks |-> open.ticks]
               old == Visible(liveStore)
               new == Visible(liveStore')
               put == Replace(old, c, row)
    <3>1. c \in Minutes /\ open.ticks \in SUBSET Complete BY <1>5, <2>8
    <3>2. /\ liveStore' = ReadAll(reads, Ingest(liveStore, c, row))
          /\ liveSource' = ReadFeatures(reads, SourceBar(liveSource, c, open.ticks))
      BY <1>1, <1>12, <2>8 DEF Hear, Close
    <3>3. /\ StoreOK(liveStore') /\ SourceOK(liveSource') /\ liveSource'.version # 0
          /\ Agree(liveStore', liveSource') /\ Series!Kept(put, new)
      BY <1>10, <3>1, <3>2, CloseShows
    <3>4. LiveTypes' BY <1>1, <1>4, <1>7, <2>2, <3>3 DEF LiveInv, LiveTypes
    <3>5. NewUntilFed' /\ AgreeOnceFed' BY <1>1, <3>3 DEF NewUntilFed, AgreeOnceFed
    <3>6. row \in LiveRows BY <3>1 DEF LiveRows
    <3>7. RowsOK(old) BY <1>10, VisibleOK
    <3>8. RowsOK(put) BY <3>1, <3>6, <3>7, ReplaceOK
    <3>9. Series!Put
      <4>1. put = [k \in DOMAIN old \cup {c} |-> IF k = c THEN row ELSE old[k]]
        BY DEF Replace
      <4> HIDE DEF row, c
      <4> QED BY <3>1, <3>3, <3>6, <4>1 DEF Series!Put, Minutes
    <3>10. MinuteWhole'
      <4> SUFFICES ASSUME NEW m \in DOMAIN heard', m # open'.minute
                   PROVE  IF m \in DOMAIN new THEN new[m] = [source |-> "live", ticks |-> heard'[m]]
                          ELSE \E k \in DOMAIN new : k - m > Lookback
        BY DEF MinuteWhole
      <4>1. m \in DOMAIN heard /\ heard'[m] = heard[m] BY <2>2, <2>6
      <4>2. m \in Int
        <5>1. m \in Minutes BY <1>5, <4>1
        <5> QED BY <5>1, LiveConstants DEF Minutes
      <4>3. m # c => IF m \in DOMAIN old THEN old[m] = [source |-> "live", ticks |-> heard[m]]
                     ELSE \E k \in DOMAIN old : k - m > Lookback
        BY <4>1 DEF LiveInv, MinuteWhole
      <4>4. heard[c] = open.ticks BY <1>5, <2>8
      <4> HIDE DEF c, old, new
      <4>5. DOMAIN put = DOMAIN old \cup {c}
            /\ \A k \in DOMAIN put : put[k] = (IF k = c THEN row ELSE old[k])
        BY DEF Replace
      <4>6. IF m \in DOMAIN put THEN put[m] = [source |-> "live", ticks |-> heard[m]]
            ELSE \E k \in DOMAIN put : k - m > Lookback
        <5>1. CASE m = c BY <4>4, <4>5, <5>1
        <5>2. CASE m # c BY <4>3, <4>5, <5>2
        <5> QED BY <5>1, <5>2
      <4>7. DOMAIN put \subseteq Minutes BY <3>8 DEF RowsOK
      <4> HIDE DEF put
      <4>8. CASE m \in DOMAIN new BY <3>3, <4>1, <4>6, <4>8 DEF Series!Kept
      <4>9. CASE m \notin DOMAIN new
        <5>1. \E k \in DOMAIN put : k - m > Lookback
          <6>1. CASE m \in DOMAIN put BY <3>3, <4>9, <6>1 DEF Series!Kept, Series!Old
          <6>2. CASE m \notin DOMAIN put BY <4>6, <6>2
          <6> QED BY <6>1, <6>2
        <5>2. \E k \in DOMAIN new : k - m > Lookback
          BY <3>3, <4>2, <4>7, <5>1, KeptNewest
        <5> QED BY <4>9, <5>2
      <4> QED BY <4>8, <4>9
    <3> QED BY <2>5, <3>4, <3>5, <3>9, <3>10 DEF LiveInv
  <2> QED BY <2>7, <2>8
<1> QED BY <1>11, <1>12

(* A tick that is lost.                                                     *)
LEMMA LostStep ==
  ASSUME LiveInv, NEW reads, LiveTick(FALSE, reads)
  PROVE  LiveInv' /\ Visible(liveStore)' = Visible(liveStore)
<1>1. /\ fed /\ fed' = fed
      /\ UNCHANGED <<offline, begin, heard, open, liveStore, liveSource>>
      /\ next' = (IF next.tick = 0 THEN [next EXCEPT !.tick = 1]
                  ELSE [minute |-> next.minute + 1, tick |-> 0])
  BY DEF LiveTick
<1>2. next \in [minute : Nat, tick : {0, 1}] /\ open.minute <= next.minute
      /\ open.minute \in Int
  BY LiveConstants DEF LiveInv, LiveTypes, OpenHeard, Minutes
<1>3. next' \in [minute : Nat, tick : {0, 1}] /\ open.minute <= next'.minute
  BY <1>1, <1>2
<1>4. LiveTypes' BY <1>1, <1>3 DEF LiveInv, LiveTypes
<1>5. OpenHeard' BY <1>1, <1>3 DEF LiveInv, OpenHeard
<1>6. NewUntilFed' /\ AgreeOnceFed' BY <1>1 DEF LiveInv, NewUntilFed, AgreeOnceFed
<1>7. MinuteWhole' BY <1>1 DEF LiveInv, MinuteWhole
<1> QED BY <1>1, <1>4, <1>5, <1>6, <1>7 DEF LiveInv

(* A reader of the data quality.                                            *)
LEMMA InspectStep ==
  ASSUME LiveInv, Inspect PROVE LiveInv' /\ Series!Forget
<1>1. /\ fed /\ liveStore' = Flush(liveStore)
      /\ UNCHANGED <<offline, begin, fed, upTo, liveSource, open, next, heard>>
  BY DEF Inspect
<1>2. StoreOK(liveStore) BY DEF LiveInv, LiveTypes
<1>3. StoreOK(liveStore') /\ Series!Kept(Visible(liveStore), Visible(liveStore'))
  BY <1>1, <1>2, FlushShows
<1>4. LiveTypes' BY <1>1, <1>3 DEF LiveInv, LiveTypes
<1>5. OpenHeard' BY <1>1 DEF LiveInv, OpenHeard
<1>6. NewUntilFed' BY <1>1 DEF NewUntilFed
<1>7. AgreeOnceFed'
  <2>1. liveSource.version # 0 /\ Agree(liveStore, liveSource)
    BY <1>1 DEF LiveInv, AgreeOnceFed
  <2>2. Agree(liveStore', liveSource) BY <1>3, <2>1 DEF Agree, Series!Kept
  <2> QED BY <1>1, <2>1, <2>2 DEF AgreeOnceFed
<1>8. MinuteWhole' BY <1>1, <1>3, WholeKept
<1> QED BY <1>3, <1>4, <1>5, <1>6, <1>7, <1>8 DEF LiveInv, Series!Forget

LEMMA LiveStep ==
  LiveInv /\ [LiveNext]_liveVars => LiveInv' /\ [Series!Next]_(Visible(liveStore))
<1> SUFFICES ASSUME LiveInv, [LiveNext]_liveVars
             PROVE  LiveInv' /\ [Series!Next]_(Visible(liveStore))
  OBVIOUS
<1>1. ASSUME NEW reads, NEW last \in (SessionStart - 1)..begin, LiveStart(last, FALSE, reads)
      PROVE  LiveInv' /\ [Series!Next]_(Visible(liveStore))
  BY <1>1, StartStep DEF Series!Next
<1>2. ASSUME NEW reads, LiveStart(-1, TRUE, reads)
      PROVE  LiveInv' /\ [Series!Next]_(Visible(liveStore))
  BY <1>2, StartStep DEF Series!Next
<1>3. ASSUME NEW reads, NEW kept \in BOOLEAN, LiveTick(kept, reads)
      PROVE  LiveInv' /\ [Series!Next]_(Visible(liveStore))
  <2>1. CASE kept = TRUE BY <1>3, <2>1, HearStep DEF Series!Next
  <2>2. CASE kept = FALSE BY <1>3, <2>2, LostStep
  <2> QED BY <2>1, <2>2
<1>4. CASE Inspect BY <1>4, InspectStep DEF Series!Next
<1>5. CASE UNCHANGED liveVars
  <2>1. UNCHANGED <<offline, begin, fed, upTo, liveStore, liveSource, open, next, heard>>
    BY <1>5 DEF liveVars
  <2>2. LiveTypes' BY <2>1 DEF LiveInv, LiveTypes
  <2>3. OpenHeard' BY <2>1 DEF LiveInv, OpenHeard
  <2>4. NewUntilFed' /\ AgreeOnceFed' BY <2>1 DEF LiveInv, NewUntilFed, AgreeOnceFed
  <2>5. MinuteWhole' BY <2>1 DEF LiveInv, MinuteWhole
  <2> QED BY <2>1, <2>2, <2>3, <2>4, <2>5 DEF LiveInv
<1> QED BY <1>1, <1>2, <1>3, <1>4, <1>5 DEF LiveNext

(* What holds of every state the live run reaches: the open minute is what *)
(* was heard of it, and the copies agree.                                   *)
THEOREM LiveInductive == LiveSpec => []LiveInv
<1>1. LiveInit => LiveInv BY LiveInitInv
<1>2. LiveInv /\ [LiveNext]_liveVars => LiveInv' BY LiveStep
<1> QED BY <1>1, <1>2, PTL DEF LiveSpec

(* Every minute the stream closed is in the store, with the ticks heard of *)
(* it and no other, or out of the lookback: DataManager.on_bar, its pending*)
(* list and the trim, and BarBuilder before them.                          *)
THEOREM ClosedMinutesWhole == LiveSpec => []MinuteWhole
<1>1. LiveInv => MinuteWhole BY DEF LiveInv
<1> QED BY <1>1, LiveInductive, PTL

(* The store and the feature registry never disagree on a price, nor serve *)
(* a resample older than their rows: DataManager.resampled and             *)
(* FeatureRegistry's cached frames.                                         *)
THEOREM CopiesAlwaysAgree == LiveSpec => []CopiesAgree
<1>1. LiveInv => CopiesAgree
  <2> SUFFICES ASSUME LiveInv, fed PROVE CopiesAgree BY DEF CopiesAgree
  <2> DEFINE st == Flush(liveStore)
             shown == Visible(liveStore)
  <2>1. StoreOK(liveStore) /\ SourceOK(liveSource) /\ Agree(liveStore, liveSource)
    BY DEF LiveInv, LiveTypes, AgreeOnceFed
  <2>2. StoreOK(st) /\ st.pending = <<>> /\ Series!Kept(shown, Visible(st))
    BY <2>1, FlushShows
  <2>3. Visible(st) = st.rows BY <2>2, VisibleFlushed
  <2> HIDE DEF st
  <2>4. \A m \in DOMAIN st.rows : m \in DOMAIN liveSource.rows
          /\ liveSource.rows[m] = st.rows[m].ticks
    BY <2>1, <2>2, <2>3 DEF Agree, Series!Kept
  <2>5. Within(liveSource.rows, DOMAIN st.rows) = Prices(st.rows)
    BY <2>4 DEF Within, Restrict, Prices
  <2>6. ASSUME NEW tf \in Timeframes
        PROVE  /\ st.frames[tf].key = st.revision =>
                    st.frames[tf].bars = Resample(Prices(st.rows), tf)
               /\ liveSource.frames[tf].key = liveSource.version =>
                    liveSource.frames[tf].bars = Resample(liveSource.rows, tf)
    BY <2>1, <2>2 DEF StoreOK, SourceOK
  <2> QED BY <2>5, <2>6 DEF CopiesAgree, st
<1> QED BY <1>1, LiveInductive, PTL

(* The store of a live run implements the series BarSeries promises its    *)
(* readers, whatever is lost on the way and whoever flushes.               *)
THEOREM StoreIsASeries == LiveSpec => StoreImplements
<1>1. LiveInit => Series!Init BY NewStoreOK DEF LiveInit, Series!Init
<1>2. LiveInv /\ [LiveNext]_liveVars => [Series!Next]_(Visible(liveStore)) BY LiveStep
<1> QED BY <1>1, <1>2, LiveInductive, PTL DEF LiveSpec, StoreImplements, Series!Spec

-----------------------------------------------------------------------------
(* Windows and sessions: buckets of minutes.                               *)

LEMMA TimesMonotone ==
  ASSUME NEW x \in Int, NEW y \in Int, NEW d \in Nat, x <= y PROVE x * d <= y * d
<1> DEFINE z == y - x
<1>1. z \in Nat /\ y = x + z OBVIOUS
<1> HIDE DEF z
<1>2. (x + z) * d = x * d + z * d BY <1>1
<1>3. z * d \in Nat BY <1>1
<1>4. x * d \in Int OBVIOUS
<1> QED BY <1>1, <1>2, <1>3, <1>4

LEMMA Quotient ==
  ASSUME NEW a \in Int, NEW d \in Nat \ {0}
  PROVE  a \div d \in Int /\ (a \div d) * d <= a /\ a < (a \div d) * d + d
OBVIOUS

LEMMA QuotientUnique ==
  ASSUME NEW a \in Int, NEW d \in Nat \ {0}, NEW x \in Int, NEW y \in Int,
         x * d <= a, a < x * d + d, y * d <= a, a < y * d + d
  PROVE  x = y
<1>1. \A u, v \in Int : u < v => u * d + d <= v * d
  <2> SUFFICES ASSUME NEW u \in Int, NEW v \in Int, u < v PROVE u * d + d <= v * d OBVIOUS
  <2>1. (u + 1) * d <= v * d BY TimesMonotone
  <2>2. (u + 1) * d = u * d + d OBVIOUS
  <2> QED BY <2>1, <2>2
<1>2. x * d \in Int /\ y * d \in Int OBVIOUS
<1>3. ~ (x < y)
  <2>1. x < y => x * d + d <= y * d BY <1>1
  <2> QED BY <1>2, <2>1
<1>4. ~ (y < x)
  <2>1. y < x => y * d + d <= x * d BY <1>1
  <2> QED BY <1>2, <2>1
<1> QED BY <1>3, <1>4

(* Buckets come in the order of their minutes.                              *)
LEMMA BucketMonotone ==
  ASSUME NEW a \in Int, NEW b \in Int, NEW tf \in Nat \ {0}, a <= b
  PROVE  Bucket(a, tf) \in Int /\ Bucket(a, tf) <= Bucket(b, tf)
<1> DEFINE p == a \div tf
           q == b \div tf
<1>1. p \in Int /\ p * tf <= a BY Quotient
<1>2. q \in Int /\ b < q * tf + tf BY Quotient
<1>3. Bucket(a, tf) = p * tf /\ Bucket(b, tf) = q * tf BY DEF Bucket
<1> HIDE DEF p, q
<1>4. p <= q
  <2> SUFFICES ASSUME q < p PROVE FALSE BY <1>1, <1>2
  <2>1. (q + 1) * tf <= p * tf BY <1>1, <1>2, TimesMonotone
  <2>2. (q + 1) * tf = q * tf + tf BY <1>2
  <2>3. p * tf \in Int /\ q * tf \in Int BY <1>1, <1>2
  <2> QED BY <1>1, <1>2, <2>1, <2>2, <2>3
<1>5. p * tf <= q * tf BY <1>1, <1>2, <1>4, TimesMonotone
<1> QED BY <1>1, <1>3, <1>5

(* The bucket a timeframe earlier is the one before.                        *)
LEMMA BucketBefore ==
  ASSUME NEW a \in Int, NEW tf \in Nat \ {0}
  PROVE  Bucket(a - tf, tf) = Bucket(a, tf) - tf
<1> DEFINE p == a \div tf
           q == (a - tf) \div tf
<1>1. p \in Int /\ p * tf <= a /\ a < p * tf + tf BY Quotient
<1>2. q \in Int /\ q * tf <= a - tf /\ a - tf < q * tf + tf BY Quotient
<1>3. Bucket(a, tf) = p * tf /\ Bucket(a - tf, tf) = q * tf BY DEF Bucket
<1> HIDE DEF p, q
<1>4. (q + 1) * tf = q * tf + tf /\ q * tf \in Int BY <1>2
<1>5. (q + 1) * tf <= a /\ a < (q + 1) * tf + tf BY <1>2, <1>4
<1>6. p = q + 1 BY <1>1, <1>2, <1>5, QuotientUnique
<1>7. p * tf = q * tf + tf BY <1>4, <1>6
<1> QED BY <1>3, <1>4, <1>7

(* A multiple of two or more minutes is not -1.                             *)
LEMMA BucketRecorded ==
  ASSUME NEW a \in Int, NEW tf \in Nat, tf >= 2 PROVE Bucket(a, tf) # -1
<1> DEFINE p == a \div tf
<1>1. p \in Int BY Quotient
<1>2. Bucket(a, tf) = p * tf BY DEF Bucket
<1> HIDE DEF p
<1>3. CASE p >= 0
  <2>1. 0 * tf <= p * tf BY <1>1, <1>3, TimesMonotone
  <2>2. 0 * tf = 0 /\ p * tf \in Int BY <1>1
  <2> QED BY <1>2, <2>1, <2>2
<1>4. CASE p < 0
  <2>1. p * tf <= (-1) * tf BY <1>1, <1>4, TimesMonotone
  <2>2. (-1) * tf = -tf /\ p * tf \in Int BY <1>1
  <2> QED BY <1>2, <2>1, <2>2
<1> QED BY <1>1, <1>3, <1>4

(* A bucket before that of `now` has no minute from `now` on: cutting the  *)
(* minutes at `now` leaves it as it was.                                    *)
LEMMA BucketCut ==
  ASSUME NEW prices, DOMAIN prices \subseteq Int, NEW now \in Int, NEW tf \in Nat \ {0},
         NEW b, b < Bucket(now, tf)
  PROVE  LET past == Within(prices, {m \in DOMAIN prices : m <= now})
         IN /\ {m \in DOMAIN past : Bucket(m, tf) = b}
                 = {m \in DOMAIN prices : Bucket(m, tf) = b}
            /\ \A m \in DOMAIN prices : Bucket(m, tf) = b => past[m] = prices[m]
<1> DEFINE past == Within(prices, {m \in DOMAIN prices : m <= now})
<1>1. past = [m \in {k \in DOMAIN prices : k <= now} |-> prices[m]]
  BY DEF Within, Restrict
<1>2. ASSUME NEW m \in DOMAIN prices, Bucket(m, tf) = b PROVE m <= now
  <2> SUFFICES ASSUME ~ (m <= now) PROVE FALSE OBVIOUS
  <2>1. m \in Int /\ now <= m OBVIOUS
  <2>2. Bucket(now, tf) \in Int /\ Bucket(now, tf) <= Bucket(m, tf) BY <2>1, BucketMonotone
  <2>3. Bucket(m, tf) \in Int BY <2>1, BucketMonotone
  <2> QED BY <1>2, <2>2, <2>3
<1> QED BY <1>1, <1>2

-----------------------------------------------------------------------------
(* Windows ctx.bars shows: those the minutes of a store fill.              *)

Shaped(st, now) ==
  /\ DOMAIN st = {"rows", "pending", "revision", "frames"}
  /\ st.pending \in Seq(Nat \X LiveRows)
  /\ Known(st) \subseteq 0..now

Stored(st) == DOMAIN Flush(st).rows
MinutesOf(S, w) == {m \in S : Bucket(m, Window) = w}

LEMMA WindowBounds == Window \in Nat \ {0} /\ Window >= 2 /\ DayLength \in Nat \ {0, 1}
BY BarConstants

LEMMA TrimDomain ==
  ASSUME NEW rows
  PROVE  DOMAIN Trim(rows) = {m \in DOMAIN rows : m >= Max(DOMAIN rows) - Lookback}
BY DEF Trim, Within, Restrict

LEMMA FlushStored ==
  ASSUME NEW now, NEW st, Shaped(st, now)
  PROVE  /\ Shaped(Flush(st), now) /\ Stored(Flush(st)) = Stored(st)
         /\ Stored(st) \subseteq Known(st)
<1>1. CASE st.pending = <<>>
  <2>1. Flush(st) = st BY <1>1 DEF Flush
  <2> QED BY <2>1 DEF Stored, Known
<1>2. CASE st.pending # <<>>
  <2> DEFINE shown == Visible(st)
             rows == Trim(shown)
             f == [st EXCEPT !.rows = rows, !.pending = <<>>]
  <2>1. Flush(st) = f BY <1>2 DEF Flush
  <2>2. DOMAIN shown = Known(st) BY DEF Visible
  <2> HIDE DEF shown
  <2>3. DOMAIN rows \subseteq Known(st) BY <2>2, TrimDomain
  <2> HIDE DEF rows
  <2>4. DOMAIN f = {"rows", "pending", "revision", "frames"} /\ f.rows = rows
        /\ f.pending = <<>>
    BY DEF Shaped
  <2> HIDE DEF f
  <2>5. Flush(f) = f BY <2>4 DEF Flush
  <2>6. PendingMinutes(f) = {} BY <2>4 DEF PendingMinutes
  <2>7. Known(f) = DOMAIN rows BY <2>4, <2>6 DEF Known
  <2>8. f.pending \in Seq(Nat \X LiveRows) BY <2>4
  <2>9. Shaped(f, now) BY <2>3, <2>4, <2>7, <2>8 DEF Shaped
  <2> QED BY <2>1, <2>3, <2>4, <2>5, <2>9 DEF Stored
<1> QED BY <1>1, <1>2

(* on_bar adds the bar's minute and loses minutes, if anything.            *)
LEMMA IngestStored ==
  ASSUME NEW now \in Nat, NEW m \in Nat, now <= m, NEW st, Shaped(st, now),
         NEW row \in LiveRows
  PROVE  /\ Shaped(Ingest(st, m, row), m)
         /\ Stored(Ingest(st, m, row)) \subseteq Stored(st) \cup {m}
<1>1. Known(st) \subseteq 0..m /\ m \in 0..m BY DEF Shaped
<1>2. CASE \A latest \in Latest(st) : m > latest
  <2> DEFINE up == <<m, row>>
             more == [st EXCEPT !.pending = Append(@, up), !.revision = @ + 1]
             n == Len(st.pending)
  <2>1. up \in Nat \X LiveRows /\ up[1] = m OBVIOUS
  <2>2. /\ DOMAIN more = {"rows", "pending", "revision", "frames"} /\ more.rows = st.rows
        /\ more.pending = Append(st.pending, up)
    BY DEF Shaped
  <2>3. Ingest(st, m, row) \in {more, Flush(more)} BY <1>2 DEF Ingest
  <2> HIDE DEF up, more
  <2>4. st.pending \in Seq(Nat \X LiveRows) /\ n \in Nat /\ DOMAIN st.pending = 1..n
    BY DEF Shaped
  <2>5. /\ more.pending \in Seq(Nat \X LiveRows) /\ DOMAIN more.pending = 1..(n + 1)
        /\ more.pending[n + 1] = up /\ \A k \in 1..n : more.pending[k] = st.pending[k]
    BY <2>1, <2>2, <2>4
  <2>6. PendingMinutes(more) = PendingMinutes(st) \cup {m}
    <3>1. \A k \in DOMAIN more.pending : k \in DOMAIN st.pending \/ k = n + 1 BY <2>4, <2>5
    <3>2. n + 1 \in DOMAIN more.pending /\ \A k \in DOMAIN st.pending : k \in DOMAIN more.pending
      BY <2>4, <2>5
    <3>3. /\ \A k \in DOMAIN st.pending : more.pending[k] = st.pending[k]
          /\ more.pending[n + 1][1] = m
      BY <2>1, <2>4, <2>5
    <3> QED BY <3>1, <3>2, <3>3 DEF PendingMinutes
  <2>7. Known(more) = Known(st) \cup {m} BY <2>2, <2>6 DEF Known
  <2>8. Shaped(more, m) BY <1>1, <2>2, <2>5, <2>7 DEF Shaped
  <2>9. Shaped(Flush(more), m) /\ Stored(Flush(more)) = Stored(more) BY <2>8, FlushStored
  <2>10. Stored(more) \subseteq Stored(st) \cup {m}
    <3>1. more.pending # <<>> BY <2>4, <2>5
    <3>2. Flush(more) = [more EXCEPT !.rows = Trim(Visible(more)), !.pending = <<>>]
      BY <3>1 DEF Flush
    <3>3. Stored(more) = DOMAIN Trim(Visible(more)) BY <2>2, <3>2 DEF Stored
    <3>4. DOMAIN Visible(more) = Known(more) BY DEF Visible
    <3> DEFINE top == Max(Known(more))
    <3>5. Stored(more) = {k \in Known(more) : k >= top - Lookback} BY <3>3, <3>4, TrimDomain
    <3>6. Known(more) \in SUBSET (0..m) /\ Known(more) # {} BY <2>7, <2>8 DEF Shaped
    <3>7. top \in Known(more) /\ \A k \in Known(more) : k <= top BY <3>6, MaxOf
    <3> HIDE DEF top
    <3>8. CASE st.pending = <<>>
      <4>1. Flush(st) = st /\ PendingMinutes(st) = {} BY <3>8 DEF Flush, PendingMinutes
      <4> QED BY <2>7, <3>5, <4>1 DEF Stored, Known
    <3>9. CASE st.pending # <<>>
      <4>1. Flush(st) = [st EXCEPT !.rows = Trim(Visible(st)), !.pending = <<>>]
        BY <3>9 DEF Flush
      <4>2. Stored(st) = DOMAIN Trim(Visible(st)) BY <4>1 DEF Stored, Shaped
      <4>3. DOMAIN Visible(st) = Known(st) BY DEF Visible
      <4> DEFINE old == Max(Known(st))
      <4>4. Stored(st) = {k \in Known(st) : k >= old - Lookback} BY <4>2, <4>3, TrimDomain
      <4>5. Known(st) \in SUBSET (0..m) /\ Known(st) # {}
        <5>1. 1 \in DOMAIN st.pending BY <2>4, <3>9
        <5> QED BY <1>1, <5>1 DEF Known, PendingMinutes
      <4>6. old \in Known(st) BY <4>5, MaxOf
      <4> HIDE DEF old
      <4>7. old <= top /\ old \in Nat /\ top \in Nat BY <2>7, <3>6, <3>7, <4>5, <4>6
      <4>8. ASSUME NEW k \in Known(st), k >= top - Lookback PROVE k >= old - Lookback
        <5>1. k \in Nat /\ Lookback \in Nat BY <4>5, BarConstants
        <5> QED BY <4>7, <4>8, <5>1
      <4> QED BY <2>7, <3>5, <4>4, <4>8
    <3> QED BY <3>8, <3>9
  <2> QED BY <2>3, <2>8, <2>9, <2>10
<1>3. CASE ~ \A latest \in Latest(st) : m > latest
  <2> DEFINE f == Flush(st)
             new == [f EXCEPT !.rows = Replace(@, m, row), !.revision = @ + 1]
  <2>1. Ingest(st, m, row) = new BY <1>3 DEF Ingest
  <2>2. Shaped(f, now) /\ Stored(st) = DOMAIN f.rows BY FlushStored DEF Stored
  <2>3. f.pending = <<>>
    <3>1. st.pending # <<>> => f.pending = <<>> BY DEF Flush, Shaped
    <3>2. st.pending = <<>> => f = st BY DEF Flush
    <3> QED BY <3>1, <3>2
  <2> HIDE DEF f
  <2>4. DOMAIN new = {"rows", "pending", "revision", "frames"} /\ new.pending = <<>>
        /\ new.rows = Replace(f.rows, m, row)
    BY <2>2, <2>3 DEF Shaped
  <2> HIDE DEF new
  <2>5. DOMAIN new.rows = DOMAIN f.rows \cup {m} BY <2>4 DEF Replace
  <2>6. PendingMinutes(new) = {} /\ Flush(new) = new BY <2>4 DEF PendingMinutes, Flush
  <2>7. Known(new) = DOMAIN f.rows \cup {m} BY <2>5, <2>6 DEF Known
  <2>8. DOMAIN f.rows \subseteq 0..m
    <3>1. Known(f) \subseteq 0..now BY <2>2 DEF Shaped
    <3>2. 0..now \subseteq 0..m OBVIOUS
    <3> QED BY <3>1, <3>2 DEF Known
  <2>9. new.pending \in Seq(Nat \X LiveRows) BY <2>4
  <2>10. Shaped(new, m) BY <1>1, <2>4, <2>7, <2>8, <2>9 DEF Shaped
  <2> QED BY <2>1, <2>2, <2>5, <2>6, <2>10 DEF Stored
<1> QED BY <1>2, <1>3

LEMMA ShownOf ==
  ASSUME NEW st
  PROVE  BarsShown(st) = {w \in {Bucket(m, Window) : m \in Stored(st)} :
                            Cardinality(MinutesOf(Stored(st), w)) = Window}
<1> DEFINE prices == Prices(Flush(st).rows)
<1>1. DOMAIN prices = Stored(st) BY DEF Prices, Stored
<1>2. Window < DayLength BY BarConstants
<1> HIDE DEF prices
<1>3. DOMAIN Resample(prices, Window)
        = {w \in {Bucket(m, Window) : m \in DOMAIN prices} :
             Cardinality({m \in DOMAIN prices : Bucket(m, Window) = w}) = Window}
  BY <1>2 DEF Resample
<1> QED BY <1>1, <1>3 DEF BarsShown, MinutesOf, prices

(* A window is shown with all of its minutes.                              *)
LEMMA WindowWhole ==
  ASSUME NEW S, S \subseteq Nat, NEW w \in Int, Cardinality(MinutesOf(S, w)) = Window
  PROVE  MinutesOf(S, w) = w..(w + Window - 1)
<1> DEFINE T == MinutesOf(S, w)
           U == w..(w + Window - 1)
<1>1. Window \in Nat \ {0} BY WindowBounds
<1>2. ASSUME NEW m \in T PROVE m \in U
  <2>1. m \in Nat /\ Bucket(m, Window) = w BY DEF MinutesOf
  <2> DEFINE q == m \div Window
  <2>2. q * Window = w BY <2>1 DEF Bucket
  <2>3. q * Window <= m /\ m < q * Window + Window BY <1>1, <2>1, Quotient
  <2> HIDE DEF q
  <2>4. w <= m /\ m < w + Window BY <2>2, <2>3
  <2> QED BY <1>1, <2>1, <2>4
<1>3. IsFiniteSet(U) /\ Cardinality(U) = Window
  <2>1. w + Window - 1 \in Int BY <1>1
  <2> QED BY <1>1, <2>1, FS_Interval
<1>4. T \in SUBSET U BY <1>2
<1> HIDE DEF T, U
<1>5. Cardinality(U) = Cardinality(T) BY <1>3 DEF T
<1>6. U = T BY <1>3, <1>4, <1>5, FS_Subset
<1> QED BY <1>6 DEF T, U

LEMMA ShownWhole ==
  ASSUME NEW now \in Nat, NEW st, Shaped(st, now), NEW w \in BarsShown(st)
  PROVE  w \in Int /\ MinutesOf(Stored(st), w) = w..(w + Window - 1) /\ w + Window - 1 <= now
<1>1. Stored(st) \subseteq 0..now BY FlushStored DEF Shaped
<1>2. w \in {Bucket(m, Window) : m \in Stored(st)} /\ Cardinality(MinutesOf(Stored(st), w)) = Window
  BY ShownOf
<1>3. w \in Int
  <2>1. PICK m \in Stored(st) : w = Bucket(m, Window) BY <1>2
  <2>2. m \in Int BY <1>1
  <2> QED BY <2>1, <2>2, WindowBounds, BucketMonotone
<1>4. MinutesOf(Stored(st), w) = w..(w + Window - 1) BY <1>1, <1>2, <1>3, WindowWhole
<1>5. w + Window - 1 \in w..(w + Window - 1) BY <1>3, WindowBounds
<1>6. w + Window - 1 \in Stored(st) BY <1>4, <1>5 DEF MinutesOf
<1> QED BY <1>1, <1>3, <1>4, <1>6

(* A bar shows at most its own window for the first time.                  *)
LEMMA IngestShown ==
  ASSUME NEW now \in Nat, NEW m \in Nat, now <= m, NEW st, Shaped(st, now),
         NEW row \in LiveRows
  PROVE  BarsShown(Ingest(st, m, row)) \subseteq BarsShown(st) \cup {Bucket(m, Window)}
<1> DEFINE grown == Ingest(st, m, row)
<1>1. Shaped(grown, m) /\ Stored(grown) \subseteq Stored(st) \cup {m} BY IngestStored
<1> HIDE DEF grown
<1>2. ASSUME NEW w \in BarsShown(grown), w # Bucket(m, Window) PROVE w \in BarsShown(st)
  <2>1. w \in Int /\ MinutesOf(Stored(grown), w) = w..(w + Window - 1) BY <1>1, ShownWhole
  <2>2. /\ w \in {Bucket(k, Window) : k \in Stored(grown)}
        /\ Cardinality(MinutesOf(Stored(grown), w)) = Window
    BY ShownOf
  <2>3. MinutesOf(Stored(grown), w) \subseteq MinutesOf(Stored(st), w) BY <1>1, <1>2 DEF MinutesOf
  <2>4. Stored(st) \subseteq 0..now BY FlushStored DEF Shaped
  <2>5. MinutesOf(Stored(st), w) \subseteq w..(w + Window - 1)
    <3> SUFFICES ASSUME NEW k \in MinutesOf(Stored(st), w) PROVE k \in w..(w + Window - 1)
      OBVIOUS
    <3>1. k \in Nat /\ Bucket(k, Window) = w BY <2>4 DEF MinutesOf
    <3> DEFINE q == k \div Window
    <3>2. q * Window = w BY <3>1 DEF Bucket
    <3>3. q * Window <= k /\ k < q * Window + Window BY <3>1, WindowBounds, Quotient
    <3> HIDE DEF q
    <3>4. w <= k /\ k < w + Window BY <3>2, <3>3
    <3> QED BY <2>1, <3>1, <3>4, WindowBounds
  <2>6. MinutesOf(Stored(st), w) = MinutesOf(Stored(grown), w) BY <2>1, <2>3, <2>5
  <2>7. w \in {Bucket(k, Window) : k \in Stored(st)} BY <1>1, <1>2, <2>2
  <2> QED BY <2>2, <2>6, <2>7, ShownOf
<1> QED BY <1>2 DEF grown

-----------------------------------------------------------------------------
(* A replay: what its preloaded features show, and the gate of fast-event  *)
(* mode.                                                                    *)

Preloaded(src) == DOMAIN src = {"rows", "version", "frames"} /\ DOMAIN src.rows \subseteq Int

(* The windows of a bar that is let through are on record with its bucket. *)
WindowOnRecord ==
  recorded # -1 =>
    \E m \in 0..clock : Completed(m) = recorded /\ seen = WindowsShown(sources["p"], m)

(* What ctx.bars shows since then is not older than the bar's own window.  *)
ShownSince ==
  recorded # -1 => \A w \in BarsShown(stores["p"]) \ seenBars : w >= recorded + Window

ReplayInv ==
  /\ corpus \in [Instruments -> SUBSET Nat]
  /\ clock \in Nat /\ (turn = "none" => clock = Start)
  /\ DOMAIN stores = Instruments /\ Shaped(stores["p"], clock)
  /\ DOMAIN sources = Instruments /\ \A i \in Instruments : Preloaded(sources[i])
  /\ WindowOnRecord /\ ShownSince /\ SkipSafe

LEMMA SetSourceRows ==
  ASSUME NEW src, DOMAIN src = {"rows", "version", "frames"}, NEW rows
  PROVE  DOMAIN SetSource(src, rows) = DOMAIN src /\ SetSource(src, rows).rows = rows
BY DEF SetSource

LEMMA ReplayInitInv == ReplayInit => ReplayInv
<1> SUFFICES ASSUME ReplayInit PROVE ReplayInv OBVIOUS
<1>1. /\ corpus \in [Instruments -> SUBSET Nat] /\ clock \in Nat /\ turn = "none"
      /\ clock = Start
  BY ReplayConstants DEF ReplayInit
<1>2. DOMAIN sources = Instruments /\ DOMAIN stores = Instruments BY DEF ReplayInit
<1>3. ASSUME NEW i \in Instruments PROVE Preloaded(sources[i])
  <2> DEFINE fetched == RowsOf(Backfilled(i), "csv")
             st == Merge(NewStore, fetched, {})
             extra == Prices(RowsOf(Replayed(i), "csv"))
             src == Preload(NewSource, st)
  <2>1. sources[i] = PreloadReplay(src, st, extra) BY DEF ReplayInit
  <2>2. DOMAIN fetched \subseteq Nat BY <1>1 DEF RowsOf, Backfilled
  <2>3. DOMAIN extra \subseteq Nat BY <1>1 DEF Prices, RowsOf, Replayed
  <2>4. st.pending = <<>> /\ DOMAIN st.rows \subseteq DOMAIN fetched
    <3> HIDE DEF fetched
    <3> QED BY DEF Merge, NewStore, Trim, Within, Restrict
  <2>5. Flush(st) = st BY <2>4 DEF Flush
  <2> HIDE DEF fetched, st, extra
  <2>6. DOMAIN Prices(st.rows) \subseteq Nat BY <2>2, <2>4 DEF Prices
  <2>7. DOMAIN Over(extra, Prices(st.rows)) \subseteq Nat BY <2>3, <2>6 DEF Over
  <2>8. DOMAIN NewSource = {"rows", "version", "frames"} BY DEF NewSource
  <2>9. DOMAIN src = {"rows", "version", "frames"} BY <2>8, SetSourceRows DEF Preload
  <2> HIDE DEF src
  <2>10. sources[i] = SetSource(src, Over(extra, Prices(st.rows)))
    BY <2>1, <2>5 DEF PreloadReplay
  <2> QED BY <2>7, <2>9, <2>10, SetSourceRows DEF Preloaded
<1>4. Shaped(stores["p"], clock)
  <2> DEFINE fetched == RowsOf(Backfilled("p"), "csv")
             st == Merge(NewStore, fetched, {})
  <2>1. stores["p"] = st BY DEF ReplayInit, Instruments
  <2>2. DOMAIN fetched \subseteq 0..clock BY <1>1 DEF RowsOf, Backfilled, Instruments
  <2> HIDE DEF fetched
  <2>3. /\ DOMAIN st = {"rows", "pending", "revision", "frames"} /\ st.pending = <<>>
        /\ DOMAIN st.rows \subseteq DOMAIN fetched
    BY DEF Merge, NewStore, Trim, Within, Restrict
  <2> HIDE DEF st
  <2>4. PendingMinutes(st) = {} BY <2>3 DEF PendingMinutes
  <2>5. Known(st) \subseteq 0..clock BY <2>2, <2>3, <2>4 DEF Known
  <2>6. st.pending \in Seq(Nat \X LiveRows) BY <2>3
  <2> QED BY <2>1, <2>3, <2>5, <2>6 DEF Shaped
<1>5. WindowOnRecord /\ ShownSince /\ SkipSafe
  BY DEF ReplayInit, WindowOnRecord, ShownSince, SkipSafe
<1> QED BY <1>1, <1>2, <1>3, <1>4, <1>5 DEF ReplayInv

(* Reading views leaves the rows of the sources alone.                     *)
LEMMA ViewsKeepRows ==
  ASSUME ReplayInv, ReadViews \/ UNCHANGED sources
  PROVE  /\ DOMAIN sources' = Instruments
         /\ \A i \in Instruments : Preloaded(sources'[i]) /\ sources'[i].rows = sources[i].rows
<1>1. DOMAIN sources = Instruments /\ \A i \in Instruments : Preloaded(sources[i])
  BY DEF ReplayInv
<1>2. ASSUME NEW src, Preloaded(src), NEW tf
      PROVE  Preloaded(ReadSource(src, tf)) /\ ReadSource(src, tf).rows = src.rows
  BY <1>2 DEF Preloaded, ReadSource
<1>3. CASE ReadViews
  <2>1. ASSUME NEW i \in Instruments
        PROVE  Preloaded(sources'[i]) /\ sources'[i].rows = sources[i].rows
    <3> DEFINE mid == ReadSource(sources[i], Window)
    <3>1. sources'[i] = ReadSource(mid, DayLength) BY <1>3 DEF ReadViews
    <3>2. Preloaded(mid) /\ mid.rows = sources[i].rows BY <1>1, <1>2
    <3> HIDE DEF mid
    <3> QED BY <1>2, <3>1, <3>2
  <2>2. DOMAIN sources' = Instruments BY <1>3 DEF ReadViews
  <2> QED BY <2>1, <2>2
<1>4. CASE UNCHANGED sources BY <1>1, <1>4
<1> QED BY <1>3, <1>4

(* The bar that arrives is one of the corpus, and not an earlier one.      *)
LEMMA ArrivesInCorpus ==
  ASSUME ReplayInv, NEW m, NEW i \in Instruments, NEW reads, Arrives(m, i, reads)
  PROVE  m \in Nat /\ clock <= m /\ clock' = m /\ corpus' = corpus /\ turn' = i
<1>1. corpus \in [Instruments -> SUBSET Nat] /\ clock \in Nat /\ (turn = "none" => clock = Start)
  BY DEF ReplayInv
<1>2. m \in corpus[i] /\ Start <= m BY DEF Arrives, IsNext, Replayed
<1>3. m \in Nat BY <1>1, <1>2
<1>4. turn = "none" \/ ~ (Rank(m, i) <= Rank(clock, turn)) BY DEF Arrives, IsNext, Done
<1>5. clock <= m
  <2>1. CASE turn = "none" BY <1>1, <1>2, <2>1
  <2>2. CASE turn # "none"
    <3>1. ~ (Rank(m, i) <= Rank(clock, turn)) BY <1>4, <2>2
    <3>2. Rank(m, i) \in {2 * m, 2 * m + 1} BY <1>3 DEF Rank
    <3>3. Rank(clock, turn) \in {2 * clock, 2 * clock + 1} BY <1>1 DEF Rank
    <3> QED BY <1>1, <1>3, <3>1, <3>2, <3>3
  <2> QED BY <2>1, <2>2
<1> QED BY <1>3, <1>5 DEF Arrives

(* What a bar of the primary instrument makes of its store; reading        *)
(* ctx.bars, which flushes, shows no more.                                  *)
LEMMA ArrivesInStore ==
  ASSUME ReplayInv, NEW m, NEW reads \in BOOLEAN, Arrives(m, "p", reads)
  PROVE  /\ DOMAIN stores' = Instruments /\ Shaped(stores'["p"], m)
         /\ BarsShown(stores'["p"]) = BarsShown(Fed(m, "p"))
         /\ BarsShown(stores'["p"]) \subseteq BarsShown(stores["p"]) \cup {Bucket(m, Window)}
<1> DEFINE st == stores["p"]
           row == [source |-> "csv", ticks |-> Complete]
           grown == Fed(m, "p")
<1>1. m \in Nat /\ clock <= m /\ clock \in Nat
  BY ArrivesInCorpus DEF Instruments, ReplayInv
<1>2. DOMAIN stores = Instruments /\ Shaped(st, clock) BY DEF ReplayInv
<1>3. row \in LiveRows BY DEF LiveRows
<1>4. grown = Ingest(st, m, row) BY DEF Fed
<1>5. stores' = [stores EXCEPT !["p"] = IF reads THEN Flush(grown) ELSE grown] BY DEF Arrives
<1>6. DOMAIN stores' = Instruments /\ stores'["p"] \in {grown, Flush(grown)}
  BY <1>2, <1>5 DEF Instruments
<1> HIDE DEF st, row, grown
<1>7. Shaped(grown, m) /\ BarsShown(grown) \subseteq BarsShown(st) \cup {Bucket(m, Window)}
  BY <1>1, <1>2, <1>3, <1>4, IngestStored, IngestShown
<1>8. Shaped(Flush(grown), m) /\ BarsShown(Flush(grown)) = BarsShown(grown)
  <2> DEFINE shown(S) == {w \in {Bucket(k, Window) : k \in S} :
                            Cardinality(MinutesOf(S, w)) = Window}
  <2>1. Shaped(Flush(grown), m) /\ Stored(Flush(grown)) = Stored(grown) BY <1>7, FlushStored
  <2>2. \A x : BarsShown(x) = shown(Stored(x)) BY ShownOf
  <2> HIDE DEF shown
  <2> QED BY <2>1, <2>2
<1>9. /\ Shaped(stores'["p"], m) /\ BarsShown(stores'["p"]) = BarsShown(grown)
      /\ BarsShown(stores'["p"]) \subseteq BarsShown(st) \cup {Bucket(m, Window)}
  <2>1. CASE stores'["p"] = grown BY <1>7, <2>1
  <2>2. CASE stores'["p"] = Flush(grown) BY <1>7, <1>8, <2>2
  <2> QED BY <1>6, <2>1, <2>2
<1> QED BY <1>6, <1>9 DEF st, grown

(* Bars of one window are shown the same windows.                          *)
LEMMA SameWindow ==
  ASSUME NEW src, NEW a \in Int, NEW b \in Int, Completed(a) = Completed(b)
  PROVE  WindowsShown(src, a) = WindowsShown(src, b)
<1>1. Window \in Nat \ {0} BY WindowBounds
<1>2. Bucket(a - Window, Window) = Bucket(a, Window) - Window
      /\ Bucket(b - Window, Window) = Bucket(b, Window) - Window
  BY <1>1, BucketBefore
<1>3. Bucket(a, Window) \in Int /\ Bucket(b, Window) \in Int BY <1>1, BucketMonotone
<1>4. Bucket(a, Window) = Bucket(b, Window) BY <1>1, <1>2, <1>3 DEF Completed
<1> QED BY <1>4, WindowBounds DEF WindowsShown, AsOf

(* A later bar has a later window than one that ends before it.            *)
LEMMA NextWindow ==
  ASSUME NEW a \in Nat, NEW b \in Nat, Bucket(a, Window) + Window - 1 = a, b > a
  PROVE  Completed(b) # Completed(a)
<1> DEFINE v == Bucket(a, Window)
           w == Bucket(b, Window)
           q == b \div Window
<1>1. Window \in Nat \ {0} BY WindowBounds
<1>2. v \in Int /\ w \in Int BY <1>1, BucketMonotone
<1>3. w = q * Window /\ b < q * Window + Window /\ q \in Int BY <1>1, Quotient DEF Bucket
<1>4. v + Window - 1 = a OBVIOUS
<1>5. Completed(b) = w - Window /\ Completed(a) = v - Window
  BY <1>1, BucketBefore DEF Completed
<1> HIDE DEF v, w, q
<1>6. b < w + Window BY <1>3
<1>7. w # v BY <1>1, <1>2, <1>4, <1>6
<1> QED BY <1>1, <1>2, <1>5, <1>7

(* A bar of the primary instrument: the gate, if it is asked.              *)
LEMMA GateKeepsInv ==
  ASSUME ReplayInv, NEW m, NEW reads \in BOOLEAN, Arrives(m, "p", reads),
         ReadViews \/ UNCHANGED sources,
         Gate(m) \/ (UNCHANGED <<recorded, seen, seenBars>> /\ skipped' = FALSE)
  PROVE  ReplayInv'
<1>1. m \in Nat /\ clock <= m /\ clock' = m /\ corpus' = corpus /\ turn' = "p"
  BY ArrivesInCorpus DEF Instruments
<1>2. /\ DOMAIN sources' = Instruments
      /\ \A i \in Instruments : Preloaded(sources'[i]) /\ sources'[i].rows = sources[i].rows
  BY ViewsKeepRows
<1>3. \A now : WindowsShown(sources'["p"], now) = WindowsShown(sources["p"], now)
  BY <1>2 DEF WindowsShown, Instruments
<1>4. /\ WindowOnRecord /\ ShownSince /\ clock \in Nat
      /\ corpus \in [Instruments -> SUBSET Nat] /\ Shaped(stores["p"], clock)
  BY DEF ReplayInv
<1>5. /\ DOMAIN stores' = Instruments /\ Shaped(stores'["p"], m)
      /\ BarsShown(stores'["p"]) = BarsShown(Fed(m, "p"))
      /\ BarsShown(stores'["p"]) \subseteq BarsShown(stores["p"]) \cup {Bucket(m, Window)}
  BY ArrivesInStore
<1>6. Window \in Nat \ {0} /\ Bucket(m, Window) \in Int BY <1>1, WindowBounds, BucketMonotone
<1>7. WindowOnRecord' /\ ShownSince' /\ SkipSafe' => ReplayInv'
  BY <1>1, <1>2, <1>4, <1>5 DEF ReplayInv
<1>8. CASE Pass(m)
  <2>1. /\ recorded' = Completed(m) /\ seen' = WindowsShown(sources["p"], m)
        /\ seenBars' = BarsShown(Fed(m, "p")) /\ skipped' = FALSE
    BY <1>8 DEF Pass
  <2>2. WindowOnRecord'
    <3>1. m \in 0..clock' BY <1>1
    <3> QED BY <1>3, <2>1, <3>1 DEF WindowOnRecord, Completed
  <2>3. ShownSince' BY <1>5, <2>1 DEF ShownSince
  <2>4. SkipSafe' BY <2>1 DEF SkipSafe
  <2> QED BY <1>7, <2>2, <2>3, <2>4
<1>9. CASE UNCHANGED <<recorded, seen, seenBars>> /\ (skipped' = FALSE \/ ~GatePasses(m))
  <2>1. recorded' = recorded /\ seen' = seen /\ seenBars' = seenBars BY <1>9
  <2>2. 0..clock \subseteq 0..m BY <1>1, <1>4
  <2>3. WindowOnRecord'
    BY <1>1, <1>3, <1>4, <2>1, <2>2 DEF WindowOnRecord, Completed
  <2>4. ASSUME recorded # -1
        PROVE  \E k \in 0..clock : /\ Completed(k) = recorded /\ seen = WindowsShown(sources["p"], k)
                                   /\ recorded + Window <= Bucket(m, Window)
    <3>1. PICK k \in 0..clock : Completed(k) = recorded /\ seen = WindowsShown(sources["p"], k)
      BY <1>4, <2>4 DEF WindowOnRecord
    <3>2. k \in Int /\ k <= m BY <1>1, <1>4
    <3>3. Completed(k) = Bucket(k, Window) - Window BY <1>6, <3>2, BucketBefore DEF Completed
    <3>4. Bucket(k, Window) \in Int /\ Bucket(k, Window) <= Bucket(m, Window)
      BY <1>1, <1>6, <3>2, BucketMonotone
    <3> QED BY <1>6, <3>1, <3>3, <3>4
  <2>5. ShownSince'
    <3> SUFFICES ASSUME recorded # -1, NEW w \in BarsShown(stores'["p"]) \ seenBars
                 PROVE  w >= recorded + Window
      BY <2>1 DEF ShownSince
    <3>1. CASE w \in BarsShown(stores["p"]) BY <1>4, <3>1 DEF ShownSince
    <3>2. CASE w = Bucket(m, Window)
      <4>1. recorded + Window <= Bucket(m, Window) BY <2>4
      <4> QED BY <1>6, <3>2, <4>1, <2>4
    <3> QED BY <1>5, <3>1, <3>2
  <2>6. SkipSafe'
    <3> SUFFICES ASSUME skipped' PROVE SkipSafe' BY DEF SkipSafe
    <3>1. recorded = Completed(m) BY <1>9 DEF GatePasses
    <3>2. m - Window \in Int /\ Completed(m) = Bucket(m, Window) - Window
      BY <1>1, <1>6, BucketBefore DEF Completed
    <3>3. recorded # -1 BY <3>1, <3>2, WindowBounds, BucketRecorded DEF Completed
    <3>4. PICK k \in 0..clock : Completed(k) = recorded /\ seen = WindowsShown(sources["p"], k)
      BY <2>4, <3>3
    <3>5. seen = WindowsShown(sources["p"], m)
      <4>1. k \in Int /\ m \in Int BY <1>1, <1>4
      <4> QED BY <3>1, <3>4, <4>1, SameWindow
    <3>6. ASSUME NEW w \in BarsShown(stores'["p"]) \ seenBars
          PROVE  /\ w + Window - 1 = m
                 /\ \A later \in corpus["p"] : later > m => Completed(later) # recorded
      <4>1. w \in Int /\ w + Window - 1 <= m BY <1>1, <1>5, ShownWhole
      <4>2. w >= recorded + Window BY <2>1, <2>5, <3>3 DEF ShownSince
      <4>3. recorded + Window = Bucket(m, Window) BY <1>6, <3>1, <3>2
      <4>4. m < Bucket(m, Window) + Window
        <5> DEFINE q == m \div Window
        <5>1. Bucket(m, Window) = q * Window BY DEF Bucket
        <5>2. m < q * Window + Window BY <1>1, <1>6, Quotient
        <5> QED BY <5>1, <5>2
      <4>5. w + Window - 1 = m /\ Bucket(m, Window) + Window - 1 = m
        BY <1>1, <1>6, <4>1, <4>2, <4>3, <4>4
      <4>6. ASSUME NEW later \in corpus["p"], later > m PROVE Completed(later) # recorded
        <5>1. later \in Nat BY <1>4 DEF Instruments
        <5> QED BY <1>1, <3>1, <4>5, <4>6, <5>1, NextWindow
      <4> QED BY <4>5, <4>6
    <3> QED BY <1>1, <1>3, <2>1, <3>5, <3>6 DEF SkipSafe, GatePasses, Completed
  <2> QED BY <1>7, <2>3, <2>5, <2>6
<1>10. Gate(m) => Pass(m) \/ (~GatePasses(m) /\ UNCHANGED <<recorded, seen, seenBars>>)
  BY DEF Gate, Skip
<1> QED BY <1>8, <1>9, <1>10

LEMMA ReplayStep == ReplayInv /\ [ReplayNext]_replayVars => ReplayInv'
<1> SUFFICES ASSUME ReplayInv, [ReplayNext]_replayVars PROVE ReplayInv' OBVIOUS
<1>1. ASSUME NEW m, NEW touched, ExecutionBar(m, touched) PROVE ReplayInv'
  <2>1. /\ Arrives(m, "x", FALSE) /\ skipped' = FALSE
        /\ UNCHANGED <<sources, recorded, seen, seenBars>>
    BY <1>1 DEF ExecutionBar
  <2>2. m \in Nat /\ clock <= m /\ clock' = m /\ corpus' = corpus /\ turn' = "x"
    BY <2>1, ArrivesInCorpus DEF Instruments
  <2>3. stores'["p"] = stores["p"] /\ DOMAIN stores' = Instruments /\ Shaped(stores["p"], m)
    <3>1. DOMAIN stores = Instruments /\ Shaped(stores["p"], clock) /\ clock \in Nat
      BY DEF ReplayInv
    <3>2. stores'["p"] = stores["p"] /\ DOMAIN stores' = Instruments
      BY <2>1, <3>1 DEF Arrives, Instruments
    <3>3. 0..clock \subseteq 0..m BY <2>2, <3>1
    <3> QED BY <3>1, <3>2, <3>3 DEF Shaped
  <2>4. WindowOnRecord'
    <3>1. 0..clock \subseteq 0..m BY <2>2 DEF ReplayInv
    <3> QED BY <2>1, <2>2, <3>1 DEF ReplayInv, WindowOnRecord, Completed
  <2>5. ShownSince' BY <2>1, <2>3 DEF ReplayInv, ShownSince
  <2>6. SkipSafe' BY <2>1 DEF SkipSafe
  <2> QED BY <2>1, <2>2, <2>3, <2>4, <2>5, <2>6 DEF ReplayInv
<1>2. ASSUME NEW m, NEW reads \in BOOLEAN, NEW enters \in BOOLEAN, FlatBar(m, reads, enters)
      PROVE  ReplayInv'
  <2>1. Arrives(m, "p", reads) /\ Gate(m) /\ (ReadViews \/ UNCHANGED sources)
    BY <1>2 DEF FlatBar
  <2> QED BY <2>1, GateKeepsInv
<1>3. ASSUME NEW m, NEW lots, NEW stops, NEW reads \in BOOLEAN, NEW enters \in BOOLEAN,
             OpenBar(m, lots, stops, reads, enters)
      PROVE  ReplayInv'
  <2>1. /\ Arrives(m, "p", reads) /\ (ReadViews \/ UNCHANGED sources)
        /\ Gate(m) \/ (UNCHANGED <<recorded, seen, seenBars>> /\ skipped' = FALSE)
    BY <1>3 DEF OpenBar
  <2> QED BY <2>1, GateKeepsInv
<1>4. CASE UNCHANGED replayVars
  <2>1. UNCHANGED <<corpus, clock, turn, stores, sources, recorded, seen, seenBars, skipped>>
    BY <1>4 DEF replayVars, barVars, decisionVars
  <2> QED BY <2>1 DEF ReplayInv, WindowOnRecord, ShownSince, SkipSafe, Completed, GatePasses
<1> QED BY <1>1, <1>2, <1>3, <1>4 DEF ReplayNext

(* What holds of every state of a replay: whatever the corpora, the bars   *)
(* are theirs, the gate's record belongs to the windows it stands for, and *)
(* ctx.bars shows no older window the gate was not asked about.             *)
THEOREM ReplayInductive == ReplaySpec => []ReplayInv
<1> QED BY ReplayInitInv, ReplayStep, PTL DEF ReplaySpec

(* _should_generate_entry of fast-event mode, of every corpus and window:  *)
(* on a bar it skips, features show what they showed when it last passed;   *)
(* a window only ctx.bars shows ends on that very bar, and the gate passes  *)
(* on whichever bar is next.                                                *)
THEOREM SkippingIsSafe == ReplaySpec => []SkipSafe
<1>1. ReplayInv => SkipSafe BY DEF ReplayInv
<1> QED BY <1>1, ReplayInductive, PTL

(* preload_bars leaks nothing: of every corpus, the minutes, the windows   *)
(* and, once its day has begun, the sessions a view shows are those of the *)
(* bars up to the clock.                                                    *)
THEOREM ViewsAlwaysPure == ReplaySpec => []ViewsPure
<1>1. ReplayInv => ViewsPure
  <2> SUFFICES ASSUME ReplayInv, NEW i \in Instruments
               PROVE  /\ AsOf(sources[i].rows, 1, clock) = KnownRows(i)
                      /\ AsOf(Resample(sources[i].rows, Window), Window, clock)
                           = AsOf(Resample(KnownRows(i), Window), Window, clock)
                      /\ (\E m \in DOMAIN KnownRows(i) : Day(m) = Day(clock)) =>
                           AsOf(Resample(sources[i].rows, DayLength), DayLength, clock)
                             = AsOf(Resample(KnownRows(i), DayLength), DayLength, clock)
    BY DEF ViewsPure
  <2> DEFINE all == sources[i].rows
             past == KnownRows(i)
  <2>1. clock \in Int /\ DOMAIN all \subseteq Int BY DEF ReplayInv, Preloaded
  <2>2. past = Within(all, {m \in DOMAIN all : m <= clock}) BY DEF KnownRows
  <2>3. AsOf(all, 1, clock) = past BY DEF AsOf, KnownRows
  <2> HIDE DEF all, past
  <2>4. DOMAIN past = {m \in DOMAIN all : m <= clock} BY <2>2 DEF Within, Restrict
  <2> DEFINE inside(rows, tf, b) == {m \in DOMAIN rows : Bucket(m, tf) = b}
             buckets(rows, tf) == {Bucket(m, tf) : m \in DOMAIN rows}
             closed(rows, tf) ==
               {b \in buckets(rows, tf) :
                  IF tf < DayLength THEN Cardinality(inside(rows, tf, b)) = tf
                  ELSE \E c \in buckets(rows, tf) : c > b}
  <2>5. \A rows, tf : Resample(rows, tf)
          = [b \in closed(rows, tf) |-> Restrict(rows, inside(rows, tf, b))]
    BY DEF Resample
  <2>6. ASSUME NEW tf \in Nat \ {0, 1}, NEW b, b < Bucket(clock, tf)
        PROVE  /\ inside(past, tf, b) = inside(all, tf, b)
               /\ Restrict(past, inside(past, tf, b)) = Restrict(all, inside(all, tf, b))
               /\ b \in buckets(past, tf) <=> b \in buckets(all, tf)
    <3>1. /\ inside(past, tf, b) = inside(all, tf, b)
          /\ \A m \in DOMAIN all : Bucket(m, tf) = b => past[m] = all[m]
      BY <2>1, <2>2, <2>6, BucketCut
    <3>2. Restrict(past, inside(past, tf, b)) = Restrict(all, inside(all, tf, b))
      BY <3>1 DEF Restrict
    <3>3. b \in buckets(past, tf) <=> inside(past, tf, b) # {} OBVIOUS
    <3>4. b \in buckets(all, tf) <=> inside(all, tf, b) # {} OBVIOUS
    <3> HIDE DEF inside, buckets
    <3> QED BY <3>1, <3>2, <3>3, <3>4
  <2>7. ASSUME NEW tf \in Nat \ {0, 1},
               \A b : b < Bucket(clock, tf) =>
                        (b \in closed(past, tf) <=> b \in closed(all, tf))
        PROVE  AsOf(Resample(all, tf), tf, clock) = AsOf(Resample(past, tf), tf, clock)
    <3> HIDE DEF inside, closed, buckets
    <3>1. ASSUME NEW rows
          PROVE  AsOf(Resample(rows, tf), tf, clock)
                   = [b \in {c \in closed(rows, tf) : c < Bucket(clock, tf)} |->
                        Restrict(rows, inside(rows, tf, b))]
      <4> DEFINE frame == Resample(rows, tf)
      <4>1. DOMAIN frame = closed(rows, tf)
            /\ \A b \in closed(rows, tf) : frame[b] = Restrict(rows, inside(rows, tf, b))
        BY <2>5
      <4> HIDE DEF frame
      <4> QED BY <4>1 DEF AsOf, Within, Restrict, frame
    <3>2. {c \in closed(all, tf) : c < Bucket(clock, tf)}
            = {c \in closed(past, tf) : c < Bucket(clock, tf)}
      BY <2>7
    <3>3. \A b \in {c \in closed(all, tf) : c < Bucket(clock, tf)} :
            Restrict(past, inside(past, tf, b)) = Restrict(all, inside(all, tf, b))
      BY <2>6
    <3> QED BY <3>1, <3>2, <3>3
  <2>8. AsOf(Resample(all, Window), Window, clock) = AsOf(Resample(past, Window), Window, clock)
    <3>1. Window \in Nat \ {0, 1} /\ Window < DayLength BY BarConstants
    <3>2. \A b : b < Bucket(clock, Window) =>
            (b \in closed(past, Window) <=> b \in closed(all, Window))
      <4> SUFFICES ASSUME NEW b, b < Bucket(clock, Window)
                   PROVE  b \in closed(past, Window) <=> b \in closed(all, Window)
        OBVIOUS
      <4>1. inside(past, Window, b) = inside(all, Window, b)
            /\ (b \in buckets(past, Window) <=> b \in buckets(all, Window))
        BY <2>6, <3>1
      <4> HIDE DEF inside, buckets
      <4> QED BY <3>1, <4>1
    <3> HIDE DEF inside, buckets, closed
    <3> QED BY <2>7, <3>1, <3>2
  <2>9. ASSUME NEW m \in DOMAIN past, Day(m) = Day(clock)
        PROVE  AsOf(Resample(all, DayLength), DayLength, clock)
                 = AsOf(Resample(past, DayLength), DayLength, clock)
    <3>1. DayLength \in Nat \ {0, 1} BY WindowBounds
    <3>2. Bucket(m, DayLength) = Bucket(clock, DayLength) BY <2>9 DEF Bucket, Day
    <3>3. Bucket(clock, DayLength) \in buckets(past, DayLength) BY <2>9, <3>2
    <3>4. Bucket(clock, DayLength) \in buckets(all, DayLength) BY <2>4, <2>9, <3>2
    <3>5. \A b : b < Bucket(clock, DayLength) =>
            (b \in closed(past, DayLength) <=> b \in closed(all, DayLength))
      <4> SUFFICES ASSUME NEW b, b < Bucket(clock, DayLength)
                   PROVE  b \in closed(past, DayLength) <=> b \in closed(all, DayLength)
        OBVIOUS
      <4>1. b \in buckets(past, DayLength) <=> b \in buckets(all, DayLength)
        BY <2>6, <3>1
      <4>2. Bucket(clock, DayLength) > b /\ ~ (DayLength < DayLength)
        <5>1. Bucket(clock, DayLength) \in Int BY <2>1, <3>1, BucketMonotone
        <5> QED BY <3>1, <5>1
      <4> HIDE DEF inside, buckets
      <4> QED BY <3>3, <3>4, <4>1, <4>2
    <3> HIDE DEF inside, buckets, closed
    <3> QED BY <2>7, <3>1, <3>5
  <2> QED BY <2>3, <2>8, <2>9 DEF all, past
<1> QED BY <1>1, ReplayInductive, PTL

-----------------------------------------------------------------------------
(* The orders of a replay. *)

Order == [kind : {"entry", "stop", "close"}, lot : 1..Trades, size : {-1, 1}, after : Nat]

(* Two orders are of different lots; or they are the close of a lot and    *)
(* the stop that was asked for beside it, the lot being one of R.          *)
Apart(o, p, R) == o.lot # p.lot \/ (o.lot \in R /\ o.kind # p.kind)
OneEach(os, R) == \A j, k \in DOMAIN os : j = k \/ Apart(os[j], os[k], R)

(* No pending order is of the lot.                                         *)
Clear(os, lot) == \A p \in Range(os) : p.lot # lot

Keeps(h, os, S) ==
  h = [T \in SUBSET DOMAIN os |->
         IF T = {} THEN <<>>
         ELSE LET x == Max(T) IN IF os[x] \in S THEN Append(h[T \ {x}], os[x]) ELSE h[T \ {x}]]

LEMMA OnlyUnfolds ==
  ASSUME NEW os, NEW S PROVE Only(os, S) = (CHOOSE h : Keeps(h, os, S))[DOMAIN os]
BY DEF Only, FoldLeft, MapThenFoldSet, Keeps

LEMMA KeepsExists ==
  ASSUME NEW os \in Seq(Order), NEW S PROVE \E h : Keeps(h, os, S)
<1> DEFINE n == Len(os)
           V == Seq(Order)
           G == [p \in V \X (1..n) |-> IF os[p[2]] \in S THEN Append(p[1], os[p[2]]) ELSE p[1]]
<1>1. n \in Nat /\ DOMAIN os = 1..n /\ <<>> \in V OBVIOUS
<1>2. G \in [V \X (1..n) -> V]
  <2> SUFFICES ASSUME NEW p \in V \X (1..n)
               PROVE  (IF os[p[2]] \in S THEN Append(p[1], os[p[2]]) ELSE p[1]) \in V
    OBVIOUS
  <2>1. p[1] \in V /\ os[p[2]] \in Order OBVIOUS
  <2>2. Append(p[1], os[p[2]]) \in V BY <2>1
  <2> QED BY <2>1, <2>2
<1> HIDE DEF n, V
<1>3. PICK h \in [SUBSET (1..n) -> V] : Folds(h, <<>>, G, 1..n)
  <2> DEFINE base == <<>>
  <2>1. base \in V BY <1>1
  <2> HIDE DEF G, base
  <2>2. \E h \in [SUBSET (1..n) -> V] : Folds(h, base, G, 1..n)
    BY <1>1, <1>2, <2>1, FoldExists
  <2> QED BY <2>2 DEF base
<1> DEFINE e == [T \in SUBSET (1..n) |->
                   IF T = {} THEN <<>>
                   ELSE LET x == Max(T) IN IF os[x] \in S THEN Append(h[T \ {x}], os[x])
                                           ELSE h[T \ {x}]]
<1>4. ASSUME NEW T \in SUBSET (1..n) PROVE h[T] = e[T]
  <2>1. CASE T = {} BY <1>3, <2>1 DEF Folds
  <2>2. CASE T # {}
    <3>1. Max(T) \in 1..n
      <4>1. T \in SUBSET (0..n) BY <1>1
      <4> QED BY <1>1, <2>2, <4>1, MaxOf
    <3>2. <<h[T \ {Max(T)}], Max(T)>> \in V \X (1..n) BY <3>1
    <3>3. h[T] = G[<<h[T \ {Max(T)}], Max(T)>>] BY <1>3, <2>2 DEF Folds
    <3> QED BY <2>2, <3>2, <3>3
  <2> QED BY <2>1, <2>2
<1>5. h = [T \in SUBSET (1..n) |-> h[T]] /\ e = [T \in SUBSET (1..n) |-> e[T]] OBVIOUS
<1>6. h = e
  <2> HIDE DEF e
  <2> QED BY <1>4, <1>5, SameFunction
<1>7. Keeps(h, os, S) BY <1>1, <1>6 DEF Keeps
<1> QED BY <1>7

(* What is kept are the orders of S that were there, none of them twice.   *)
LEMMA OnlyKeeps ==
  ASSUME NEW os \in Seq(Order), NEW S, NEW R
  PROVE  /\ Only(os, S) \in Seq(Order)
         /\ Range(Only(os, S)) = Range(os) \cap S
         /\ OneEach(os, R) => OneEach(Only(os, S), R)
<1> DEFINE n == Len(os)
           h == CHOOSE h : Keeps(h, os, S)
           kept(k) == h[1..k]
           Fine(k) == /\ kept(k) \in Seq(Order)
                      /\ \A j \in DOMAIN kept(k) :
                           kept(k)[j] \in S /\ \E i \in 1..k : kept(k)[j] = os[i]
                      /\ \A i \in 1..k : os[i] \in S => os[i] \in Range(kept(k))
                      /\ OneEach(os, R) => OneEach(kept(k), R)
<1>1. n \in Nat /\ DOMAIN os = 1..n OBVIOUS
<1>2. Keeps(h, os, S) BY KeepsExists
<1> HIDE DEF h, n
<1>3. kept(0) = <<>>
  <2>1. 1..0 = {} /\ {} \in SUBSET DOMAIN os OBVIOUS
  <2>2. h[{}] = <<>> BY <1>2, <2>1 DEF Keeps
  <2> QED BY <2>1, <2>2
<1>4. ASSUME NEW k \in 0..(n - 1)
      PROVE  kept(k + 1) = IF os[k + 1] \in S THEN Append(kept(k), os[k + 1]) ELSE kept(k)
  <2>1. k \in Nat /\ 1..(k + 1) \in SUBSET DOMAIN os BY <1>1
  <2>2. /\ 1..(k + 1) # {} /\ Max(1..(k + 1)) = k + 1
        /\ (1..(k + 1)) \ {Max(1..(k + 1))} = 1..k
    BY <2>1, LastIndex
  <2> DEFINE T == 1..(k + 1)
  <2>3. h[T] = IF T = {} THEN <<>>
               ELSE LET x == Max(T) IN IF os[x] \in S THEN Append(h[T \ {x}], os[x])
                                       ELSE h[T \ {x}]
    <3>1. T \in SUBSET DOMAIN os BY <2>1
    <3> HIDE DEF T
    <3> QED BY <1>2, <3>1 DEF Keeps
  <2> QED BY <2>2, <2>3
<1>5. Fine(0) BY <1>3 DEF OneEach
<1>6. ASSUME NEW k \in 0..(n - 1), Fine(k) PROVE Fine(k + 1)
  <2> DEFINE s == kept(k)
             o == os[k + 1]
  <2>1. k + 1 \in 1..n /\ k \in Nat /\ o \in Order BY <1>1
  <2>2. CASE o \in S
    <3>1. kept(k + 1) = Append(s, o) BY <1>4, <2>2
    <3>2. s \in Seq(Order) /\ Len(s) \in Nat /\ DOMAIN s = 1..Len(s) BY <1>6
    <3>3. Append(s, o) \in Seq(Order) /\ DOMAIN Append(s, o) = 1..(Len(s) + 1)
          /\ Append(s, o)[Len(s) + 1] = o /\ \A j \in 1..Len(s) : Append(s, o)[j] = s[j]
      <4> HIDE DEF s, o
      <4> QED BY <2>1, <3>2
    <3>4. ASSUME NEW j \in DOMAIN s
          PROVE  s[j] \in S /\ \E i \in 1..k : s[j] = os[i]
      BY <1>6
    <3>5. ASSUME OneEach(os, R), NEW i \in DOMAIN s PROVE Apart(s[i], o, R) /\ Apart(o, s[i], R)
      <4>1. PICK j \in 1..k : s[i] = os[j] BY <3>4
      <4>2. j \in DOMAIN os /\ k + 1 \in DOMAIN os /\ j # k + 1 BY <1>1, <2>1
      <4> QED BY <3>5, <4>1, <4>2 DEF OneEach
    <3>6. OneEach(os, R) => OneEach(s, R) BY <1>6
    <3>7. \A i \in 1..k : os[i] \in S => \E j \in 1..Len(s) : os[i] = s[j]
      BY <1>6, <3>2 DEF Range
    <3> HIDE DEF s, o, kept
    <3>8. ASSUME NEW j \in 1..(Len(s) + 1)
          PROVE  Append(s, o)[j] \in S /\ \E i \in 1..(k + 1) : Append(s, o)[j] = os[i]
      <4>1. CASE j \in 1..Len(s)
        <5>1. Append(s, o)[j] = s[j] /\ j \in DOMAIN s BY <3>2, <3>3, <4>1
        <5>2. PICK i \in 1..k : s[j] = os[i] BY <3>4, <5>1
        <5>3. i \in 1..(k + 1) BY <2>1
        <5> QED BY <3>4, <5>1, <5>2, <5>3
      <4>2. CASE j = Len(s) + 1
        <5>1. k + 1 \in 1..(k + 1) BY <2>1
        <5> QED BY <2>2, <3>3, <4>2, <5>1 DEF o
      <4> QED BY <3>2, <4>1, <4>2
    <3>9. ASSUME NEW i \in 1..(k + 1), os[i] \in S PROVE os[i] \in Range(Append(s, o))
      <4>1. CASE i = k + 1
        <5>1. Len(s) + 1 \in DOMAIN Append(s, o) BY <3>2, <3>3
        <5> QED BY <3>3, <4>1, <5>1 DEF o, Range
      <4>2. CASE i # k + 1
        <5>1. i \in 1..k BY <2>1, <4>2
        <5>2. PICK j \in 1..Len(s) : os[i] = s[j] BY <3>7, <3>9, <5>1
        <5>3. j \in DOMAIN Append(s, o) BY <3>2, <3>3
        <5> QED BY <3>3, <5>2, <5>3 DEF Range
      <4> QED BY <4>1, <4>2
    <3>10. ASSUME OneEach(os, R) PROVE OneEach(Append(s, o), R)
      <4> SUFFICES ASSUME NEW i \in 1..(Len(s) + 1), NEW j \in 1..(Len(s) + 1), i # j
                   PROVE  Apart(Append(s, o)[i], Append(s, o)[j], R)
        BY <3>3 DEF OneEach
      <4>1. \A x \in 1..(Len(s) + 1) : x \in DOMAIN s \/ x = Len(s) + 1 BY <3>2
      <4>2. \A x \in DOMAIN s : Apart(s[x], o, R) /\ Apart(o, s[x], R) BY <3>5, <3>10
      <4>3. \A x, y \in DOMAIN s : x = y \/ Apart(s[x], s[y], R) BY <3>6, <3>10 DEF OneEach
      <4>4. \A x \in DOMAIN s : Append(s, o)[x] = s[x] BY <3>2, <3>3
      <4> QED BY <3>3, <4>1, <4>2, <4>3, <4>4
    <3> QED BY <3>1, <3>3, <3>8, <3>9, <3>10
  <2>3. CASE o \notin S
    <3>1. kept(k + 1) = s BY <1>4, <2>3
    <3>2. \A i \in 1..k : i \in 1..(k + 1) BY <2>1
    <3>3. \A i \in 1..(k + 1) : i \in 1..k \/ i = k + 1 BY <2>1
    <3> QED BY <1>6, <2>3, <3>1, <3>2, <3>3
  <2> QED BY <2>2, <2>3
<1>7. Fine(n)
  <2> DEFINE F == {k \in 0..n : Fine(k)}
  <2> HIDE DEF Fine
  <2>1. 0 \in F BY <1>1, <1>5
  <2>2. \A k \in 0..(n - 1) : k \in F => k + 1 \in F BY <1>1, <1>6
  <2>3. n \in 0..n BY <1>1
  <2> HIDE DEF F
  <2>4. n \in F BY <1>1, <2>1, <2>2, <2>3, PrefixInduction
  <2> QED BY <2>4 DEF F
<1>8. Only(os, S) = kept(n) BY <1>1, OnlyUnfolds DEF h
<1>9. Range(kept(n)) = Range(os) \cap S
  <2>1. Range(kept(n)) \subseteq Range(os) \cap S BY <1>1, <1>7 DEF Range
  <2>2. Range(os) \cap S \subseteq Range(kept(n))
    <3> SUFFICES ASSUME NEW i \in 1..n, os[i] \in S PROVE os[i] \in Range(kept(n))
      BY <1>1 DEF Range
    <3> QED BY <1>7
  <2> QED BY <2>1, <2>2
<1> QED BY <1>7, <1>8, <1>9

Trading == [qty : [1..Trades -> Int], closing : SUBSET (1..Trades), orders : Seq(Order)]

(* An order a lot may wait for: its entry while it is flat, or what turns  *)
(* its size while it is open.                                               *)
Fits(s, o) ==
  /\ IF o.kind = "entry" THEN s.qty[o.lot] = 0 /\ o.size = 1
     ELSE s.qty[o.lot] # 0 /\ o.size = -s.qty[o.lot]
  /\ o.kind = "close" => o.lot \in s.closing

(* No lot has two orders, but for those of R; each is one it may wait for; *)
(* lots beyond `last` were not entered, and those outside R are never      *)
(* turned over.                                                             *)
InOrder(s, last, R) ==
  /\ s \in Trading /\ OneEach(s.orders, R)
  /\ \A t \in 1..Trades : s.qty[t] \in {0, 1} \/ (t \in R /\ s.qty[t] = -1)
  /\ \A o \in Range(s.orders) : Fits(s, o) /\ o.lot <= last
  /\ \A t \in 1..Trades : t > last => s.qty[t] = 0

LEMMA RangeOf ==
  ASSUME NEW os \in Seq(Order), NEW R
  PROVE  /\ Range(os) \subseteq Order
         /\ \A o : Range(Append(os, o)) = Range(os) \cup {o}
         /\ \A o \in Order : OneEach(os, R) /\ Clear(os, o.lot) => OneEach(Append(os, o), R)
<1>1. DOMAIN os = 1..Len(os) /\ Len(os) \in Nat OBVIOUS
<1>2. Range(os) \subseteq Order BY DEF Range
<1>3. ASSUME NEW o
      PROVE  /\ DOMAIN Append(os, o) = 1..(Len(os) + 1)
             /\ Append(os, o)[Len(os) + 1] = o /\ \A j \in 1..Len(os) : Append(os, o)[j] = os[j]
  OBVIOUS
<1>4. ASSUME NEW o PROVE Range(Append(os, o)) = Range(os) \cup {o}
  <2>1. \A j \in 1..(Len(os) + 1) : j \in 1..Len(os) \/ j = Len(os) + 1 BY <1>1
  <2>2. \A j \in 1..Len(os) : j \in 1..(Len(os) + 1) BY <1>1
  <2>3. Len(os) + 1 \in 1..(Len(os) + 1) BY <1>1
  <2> QED BY <1>1, <1>3, <2>1, <2>2, <2>3 DEF Range
<1>5. ASSUME NEW o \in Order, OneEach(os, R), Clear(os, o.lot) PROVE OneEach(Append(os, o), R)
  <2> SUFFICES ASSUME NEW i \in 1..(Len(os) + 1), NEW j \in 1..(Len(os) + 1), i # j
               PROVE  Apart(Append(os, o)[i], Append(os, o)[j], R)
    BY <1>3 DEF OneEach
  <2>1. \A k \in 1..(Len(os) + 1) : k \in 1..Len(os) \/ k = Len(os) + 1 BY <1>1
  <2>2. \A k \in 1..Len(os) : os[k].lot # o.lot BY <1>1, <1>5 DEF Clear, Range
  <2>3. \A k, l \in 1..Len(os) : k = l \/ Apart(os[k], os[l], R) BY <1>1, <1>5 DEF OneEach
  <2> QED BY <1>1, <1>3, <2>1, <2>2, <2>3 DEF Apart
<1> QED BY <1>2, <1>4, <1>5

(* Orders that are apart stay so when more lots are let have two.          *)
LEMMA Widened ==
  ASSUME NEW s, NEW last, NEW R, NEW W, R \subseteq W, InOrder(s, last, R)
  PROVE  InOrder(s, last, W)
<1>1. OneEach(s.orders, W) BY DEF InOrder, OneEach, Apart
<1> QED BY <1>1 DEF InOrder

LEMMA WithoutKeeps ==
  ASSUME NEW os \in Seq(Order), NEW kind, NEW lot, NEW R
  PROVE  /\ Without(kind, lot, os) \in Seq(Order)
         /\ Range(Without(kind, lot, os)) = {o \in Range(os) : ~(o.kind = kind /\ o.lot = lot)}
         /\ OneEach(os, R) => OneEach(Without(kind, lot, os), R)
<1> DEFINE S == {o \in Range(os) : ~(o.kind = kind /\ o.lot = lot)}
<1>1. Without(kind, lot, os) = Only(os, S) BY DEF Without
<1>2. Range(os) \cap S = S OBVIOUS
<1> HIDE DEF S
<1>3. /\ Only(os, S) \in Seq(Order) /\ Range(Only(os, S)) = Range(os) \cap S
      /\ OneEach(os, R) => OneEach(Only(os, S), R)
  BY OnlyKeeps
<1> QED BY <1>1, <1>2, <1>3 DEF S

(* What closes a lot, and the order its fill cancels.                      *)
Other(kind) == IF kind = "close" THEN "stop" ELSE "close"

(* The fill of an entry, and of what closes a lot.                         *)
LEMMA FilledParts ==
  ASSUME NEW s \in Trading, NEW o \in Order, NEW now \in Nat
  PROVE  LET u == Filled(s, o, now)
         IN /\ u \in Trading /\ u.qty = [s.qty EXCEPT ![o.lot] = @ + o.size]
            /\ o.kind = "entry" =>
                 /\ u.closing = s.closing
                 /\ u.orders = Append(s.orders, NewOrder("stop", o.lot, -o.size, now))
            /\ o.kind # "entry" =>
                 /\ u.closing = s.closing \ {o.lot}
                 /\ u.orders = Without(Other(o.kind), o.lot, s.orders)
<1> DEFINE u == Filled(s, o, now)
           more == [s.qty EXCEPT ![o.lot] = @ + o.size]
           stop == NewOrder("stop", o.lot, -o.size, now)
<1>1. /\ o.kind \in {"entry", "stop", "close"} /\ o.lot \in 1..Trades /\ o.size \in {-1, 1}
      /\ s.qty \in [1..Trades -> Int] /\ s.closing \in SUBSET (1..Trades) /\ s.orders \in Seq(Order)
  <2>1. o.kind \in {"entry", "stop", "close"} /\ o.lot \in 1..Trades /\ o.size \in {-1, 1}
    BY DEF Order
  <2>2. s.qty \in [1..Trades -> Int] /\ s.closing \in SUBSET (1..Trades) BY DEF Trading
  <2>3. s.orders \in Seq(Order) BY DEF Trading
  <2> QED BY <2>1, <2>2, <2>3
<1>2. more \in [1..Trades -> Int]
  <2> SUFFICES ASSUME NEW q \in [1..Trades -> Int], NEW t \in 1..Trades, NEW z \in {-1, 1}
               PROVE  [q EXCEPT ![t] = @ + z] \in [1..Trades -> Int]
    BY <1>1
  <2>1. q[t] + z \in Int OBVIOUS
  <2> QED BY <2>1
<1>3. stop \in Order
  <2>1. -o.size \in {-1, 1} BY <1>1
  <2> QED BY <1>1, <2>1 DEF NewOrder, Order
<1>4. Append(s.orders, stop) \in Seq(Order)
  <2> HIDE DEF stop
  <2> QED BY <1>1, <1>3
<1>5. s.closing \ {o.lot} \in SUBSET (1..Trades) BY <1>1
<1>6. CASE o.kind = "entry"
  <2>1. u = [s EXCEPT !.qty = more, !.closing = s.closing, !.orders = Append(s.orders, stop)]
    <3>1. u = [s EXCEPT !.qty = more, !.orders = Append(s.orders, stop)]
      BY <1>6 DEF Filled, EntryFilled
    <3> HIDE DEF u, more, stop
    <3> QED BY <3>1 DEF Trading
  <2> HIDE DEF u, more, stop
  <2>2. Append(s.orders, stop) \in Seq(Order) BY <1>4
  <2>3. /\ u \in Trading /\ u.qty = more /\ u.closing = s.closing
        /\ u.orders = Append(s.orders, stop)
    BY <1>1, <1>2, <2>1, <2>2 DEF Trading
  <2> QED BY <1>6, <2>3 DEF u, more, stop
<1>7. CASE o.kind # "entry"
  <2> DEFINE c == s.closing \ {o.lot}
             os == Without(Other(o.kind), o.lot, s.orders)
  <2>1. u = [s EXCEPT !.qty = more, !.closing = c, !.orders = os]
    <3>1. CASE o.kind = "close" BY <3>1 DEF Filled, CloseFilled, Other
    <3>2. CASE o.kind = "stop" BY <3>2 DEF Filled, StopFilled, Other
    <3> QED BY <1>1, <1>7, <3>1, <3>2
  <2>2. c \in SUBSET (1..Trades) /\ os \in Seq(Order) BY <1>1, <1>5, WithoutKeeps
  <2> HIDE DEF u, more, c, os
  <2>3. u \in Trading /\ u.qty = more /\ u.closing = c /\ u.orders = os
    BY <1>2, <2>1, <2>2 DEF Trading
  <2> QED BY <1>7, <2>3 DEF u, more, c, os
<1> QED BY <1>6, <1>7

LEMMA FilledType ==
  ASSUME NEW s \in Trading, NEW o \in Order, NEW now \in Nat
  PROVE  Filled(s, o, now) \in Trading
BY FilledParts

(* An order whose turn in a drain is still to come: one its lot waits for, *)
(* or the second of a lot of R, the first of which was filled before it.    *)
Waits(s, o, R) == Fits(s, o) /\ \A p \in Range(s.orders) : Apart(p, o, R)
Stray(s, o, R) ==
  o.kind # "entry" /\ o.lot \in R /\ s.qty[o.lot] = 0 /\ Clear(s.orders, o.lot)

(* One fill: the other lots are as they were, and what closed a lot leaves *)
(* it without orders.                                                       *)
LEMMA FilledInOrder ==
  ASSUME NEW s, NEW last \in Int, NEW R, InOrder(s, last, R), NEW now \in Nat,
         NEW o \in Order, Waits(s, o, R) \/ Stray(s, o, R), o.lot <= last
  PROVE  LET u == Filled(s, o, now)
         IN /\ InOrder(u, last, R)
            /\ \A p \in Range(u.orders) : p.lot = o.lot \/ p \in Range(s.orders)
            /\ \A t \in 1..Trades : t # o.lot =>
                 u.qty[t] = s.qty[t] /\ (t \in u.closing <=> t \in s.closing)
            /\ o.kind # "entry" => Clear(u.orders, o.lot)
            /\ o.kind # "entry" /\ Fits(s, o) => u.qty[o.lot] = 0
<1> DEFINE u == Filled(s, o, now)
           q == s.qty[o.lot] + o.size
<1>1. /\ o.kind \in {"entry", "stop", "close"} /\ o.lot \in 1..Trades /\ o.size \in {-1, 1}
      /\ s \in Trading /\ OneEach(s.orders, R)
      /\ \A t \in 1..Trades : s.qty[t] \in {0, 1} \/ (t \in R /\ s.qty[t] = -1)
      /\ \A p \in Range(s.orders) : Fits(s, p) /\ p.lot <= last
      /\ \A t \in 1..Trades : t > last => s.qty[t] = 0
  BY DEF Order, InOrder
<1>2. s.orders \in Seq(Order) /\ s.qty \in [1..Trades -> Int] BY <1>1 DEF Trading
<1>3. /\ u \in Trading /\ u.qty = [s.qty EXCEPT ![o.lot] = @ + o.size]
      /\ o.kind = "entry" =>
           /\ u.closing = s.closing
           /\ u.orders = Append(s.orders, NewOrder("stop", o.lot, -o.size, now))
      /\ o.kind # "entry" =>
           /\ u.closing = s.closing \ {o.lot}
           /\ u.orders = Without(Other(o.kind), o.lot, s.orders)
  BY <1>1, FilledParts, SMTT(60)
<1> HIDE DEF u
<1>4. Range(s.orders) \subseteq Order BY <1>2, RangeOf
<1>5. \A t \in 1..Trades : u.qty[t] = IF t = o.lot THEN q ELSE s.qty[t] BY <1>1, <1>2, <1>3
<1>6. /\ o.kind = "entry" => Waits(s, o, R) /\ s.qty[o.lot] = 0 /\ o.size = 1 /\ q = 1
      /\ o.kind # "entry" /\ Fits(s, o) => q = 0
      /\ o.kind # "entry" /\ Stray(s, o, R) => o.lot \in R /\ q \in {-1, 1}
  <2>1. ASSUME o.kind = "entry"
        PROVE  Waits(s, o, R) /\ s.qty[o.lot] = 0 /\ o.size = 1 /\ q = 1
    <3>1. Waits(s, o, R) BY <2>1 DEF Stray
    <3>2. s.qty[o.lot] = 0 /\ o.size = 1 BY <2>1, <3>1 DEF Waits, Fits
    <3> QED BY <3>1, <3>2
  <2>2. ASSUME o.kind # "entry", Fits(s, o) PROVE q = 0
    <3>1. o.size = -s.qty[o.lot] /\ s.qty[o.lot] \in Int BY <1>1, <1>2, <2>2 DEF Fits
    <3> QED BY <3>1
  <2>3. ASSUME o.kind # "entry", Stray(s, o, R) PROVE o.lot \in R /\ q \in {-1, 1}
    <3>1. o.lot \in R /\ s.qty[o.lot] = 0 BY <2>3 DEF Stray
    <3> QED BY <1>1, <3>1
  <2> QED BY <2>1, <2>2, <2>3
<1> HIDE DEF q
<1>7. q \in {0, 1} \/ (o.lot \in R /\ q = -1) BY <1>6 DEF Waits
<1>8. \A t \in 1..Trades : u.qty[t] \in {0, 1} \/ (t \in R /\ u.qty[t] = -1)
  BY <1>1, <1>5, <1>7
<1>9. \A t \in 1..Trades : t > last => u.qty[t] = 0
  <2> SUFFICES ASSUME NEW t \in 1..Trades, t > last PROVE u.qty[t] = 0 OBVIOUS
  <2>1. t # o.lot BY <1>1
  <2> QED BY <1>1, <1>5, <2>1
<1>10. \A t \in 1..Trades : t # o.lot => (t \in u.closing <=> t \in s.closing) BY <1>1, <1>3
<1>11. ASSUME NEW r \in Order, r.lot # o.lot, Fits(s, r) PROVE Fits(u, r)
  <2>1. r.lot \in 1..Trades BY DEF Order
  <2> QED BY <1>5, <1>10, <1>11, <2>1 DEF Fits
<1>12. CASE o.kind = "entry"
  <2> DEFINE p == NewOrder("stop", o.lot, -o.size, now)
  <2>1. p \in Order /\ p.lot = o.lot /\ p.kind = "stop" /\ p.size = -1
    <3>1. -o.size = -1 BY <1>6, <1>12
    <3> QED BY <1>1, <3>1 DEF NewOrder, Order
  <2>2. u.orders = Append(s.orders, p) BY <1>3, <1>12
  <2> HIDE DEF p
  <2>3. Clear(s.orders, o.lot)
    <3> SUFFICES ASSUME NEW r \in Range(s.orders), r.lot = o.lot PROVE FALSE BY DEF Clear
    <3>1. Apart(r, o, R) /\ Fits(s, r) /\ s.qty[o.lot] = 0 BY <1>1, <1>6, <1>12 DEF Waits
    <3>2. r.kind # "entry" BY <1>12, <3>1 DEF Apart
    <3> QED BY <3>1, <3>2 DEF Fits
  <2>4. Range(u.orders) = Range(s.orders) \cup {p} BY <1>2, <2>2, RangeOf
  <2>5. OneEach(u.orders, R) BY <1>1, <1>2, <2>1, <2>2, <2>3, RangeOf
  <2>6. Fits(u, p) BY <1>1, <1>5, <1>6, <1>12, <2>1 DEF Fits
  <2>7. \A r \in Range(u.orders) : Fits(u, r) /\ r.lot <= last
    BY <1>1, <1>4, <1>11, <2>1, <2>3, <2>4, <2>6 DEF Clear
  <2>8. InOrder(u, last, R) BY <1>3, <1>8, <1>9, <2>5, <2>7 DEF InOrder
  <2> QED BY <1>5, <1>10, <1>12, <2>1, <2>4, <2>8 DEF u
<1>13. CASE o.kind # "entry"
  <2>1. /\ Range(u.orders) = {r \in Range(s.orders) : ~(r.kind = Other(o.kind) /\ r.lot = o.lot)}
        /\ OneEach(u.orders, R)
    BY <1>1, <1>2, <1>3, <1>13, WithoutKeeps
  <2>2. Clear(u.orders, o.lot)
    <3> SUFFICES ASSUME NEW r \in Range(s.orders), r.kind # Other(o.kind), r.lot = o.lot
                 PROVE  FALSE
      BY <2>1 DEF Clear
    <3>1. Waits(s, o, R) BY DEF Stray, Clear
    <3>2. Apart(r, o, R) /\ Fits(s, r) /\ Fits(s, o) BY <1>1, <3>1 DEF Waits
    <3>3. r.kind # o.kind /\ r.kind # "entry" BY <1>13, <3>2 DEF Apart, Fits
    <3>4. r.kind \in {"entry", "stop", "close"} BY <1>4 DEF Order
    <3> QED BY <1>1, <1>13, <3>3, <3>4 DEF Other
  <2>3. \A r \in Range(u.orders) : Fits(u, r) /\ r.lot <= last
    BY <1>1, <1>4, <1>11, <2>1, <2>2 DEF Clear
  <2>4. InOrder(u, last, R) BY <1>3, <1>8, <1>9, <2>1, <2>3 DEF InOrder
  <2>5. Fits(s, o) => u.qty[o.lot] = 0 BY <1>1, <1>5, <1>6, <1>13
  <2> QED BY <1>5, <1>10, <2>1, <2>2, <2>4, <2>5 DEF u
<1> QED BY <1>12, <1>13

Fills(h, base, os, now) ==
  h = [T \in SUBSET DOMAIN os |->
         IF T = {} THEN base ELSE LET x == Max(T) IN Filled(h[T \ {x}], os[x], now)]

LEMMA FillsUnfold ==
  ASSUME NEW base, NEW os, NEW now
  PROVE  Drained(base, os, now)
           = (CHOOSE h : Fills(h, base, os, now))[DOMAIN os]
BY DEF Drained, FoldLeft, MapThenFoldSet, Fills

LEMMA FillsExist ==
  ASSUME NEW os \in Seq(Order), NEW base \in Trading, NEW now \in Nat
  PROVE  \E h : Fills(h, base, os, now)
<1> DEFINE n == Len(os)
           G == [p \in Trading \X (1..n) |-> Filled(p[1], os[p[2]], now)]
<1>1. n \in Nat /\ DOMAIN os = 1..n OBVIOUS
<1>2. G \in [Trading \X (1..n) -> Trading]
  <2> SUFFICES ASSUME NEW p \in Trading \X (1..n) PROVE Filled(p[1], os[p[2]], now) \in Trading
    OBVIOUS
  <2>1. p[1] \in Trading /\ os[p[2]] \in Order OBVIOUS
  <2> QED BY <2>1, FilledType
<1> HIDE DEF n
<1>3. PICK h \in [SUBSET (1..n) -> Trading] : Folds(h, base, G, 1..n)
  <2> HIDE DEF G
  <2> QED BY <1>1, <1>2, FoldExists
<1> DEFINE e == [T \in SUBSET (1..n) |->
                   IF T = {} THEN base ELSE LET x == Max(T) IN Filled(h[T \ {x}], os[x], now)]
<1>4. ASSUME NEW T \in SUBSET (1..n) PROVE h[T] = e[T]
  <2>1. CASE T = {} BY <1>3, <2>1 DEF Folds
  <2>2. CASE T # {}
    <3>1. Max(T) \in 1..n
      <4>1. T \in SUBSET (0..n) BY <1>1
      <4> QED BY <1>1, <2>2, <4>1, MaxOf
    <3>2. <<h[T \ {Max(T)}], Max(T)>> \in Trading \X (1..n) BY <3>1
    <3>3. h[T] = G[<<h[T \ {Max(T)}], Max(T)>>] BY <1>3, <2>2 DEF Folds
    <3> QED BY <2>2, <3>2, <3>3
  <2> QED BY <2>1, <2>2
<1>5. h = [T \in SUBSET (1..n) |-> h[T]] /\ e = [T \in SUBSET (1..n) |-> e[T]] OBVIOUS
<1>6. h = e
  <2> HIDE DEF e
  <2> QED BY <1>4, <1>5, SameFunction
<1>7. Fills(h, base, os, now) BY <1>1, <1>6 DEF Fills
<1> QED BY <1>7

(* All fills of a bar, whose orders were taken off the pending ones.       *)
LEMMA FillsInOrder ==
  ASSUME NEW base, NEW last \in Int, NEW R, InOrder(base, last, R), NEW now \in Nat,
         NEW os \in Seq(Order), OneEach(os, R),
         \A o \in Range(os) : Waits(base, o, R) /\ o.lot <= last
  PROVE  InOrder(Drained(base, os, now), last, R)
<1> DEFINE n == Len(os)
           h == CHOOSE h : Fills(h, base, os, now)
           at(k) == h[1..k]
           Alone(k, j) == \A i \in (k + 1)..n : i = j \/ os[i].lot # os[j].lot
           Fine(k) == /\ InOrder(at(k), last, R)
                      /\ \A j \in (k + 1)..n : \/ Waits(at(k), os[j], R)
                                               \/ Stray(at(k), os[j], R) /\ Alone(k, j)
<1>1. n \in Nat /\ DOMAIN os = 1..n /\ \A j \in 1..n : os[j] \in Order /\ os[j] \in Range(os)
  BY DEF Range
<1>2. Fills(h, base, os, now)
  <2>1. base \in Trading BY DEF InOrder
  <2> QED BY <2>1, FillsExist
<1> HIDE DEF h, n
<1>3. at(0) = base
  <2>1. 1..0 = {} /\ {} \in SUBSET DOMAIN os OBVIOUS
  <2>2. h[{}] = base BY <1>2, <2>1 DEF Fills
  <2> QED BY <2>1, <2>2
<1>4. ASSUME NEW k \in 0..(n - 1) PROVE at(k + 1) = Filled(at(k), os[k + 1], now)
  <2>1. k \in Nat /\ 1..(k + 1) \in SUBSET DOMAIN os BY <1>1
  <2>2. /\ 1..(k + 1) # {} /\ Max(1..(k + 1)) = k + 1
        /\ (1..(k + 1)) \ {Max(1..(k + 1))} = 1..k
    BY <2>1, LastIndex
  <2> DEFINE T == 1..(k + 1)
  <2>3. h[T] = IF T = {} THEN base ELSE LET x == Max(T) IN Filled(h[T \ {x}], os[x], now)
    <3>1. T \in SUBSET DOMAIN os BY <2>1
    <3> HIDE DEF T
    <3> QED BY <1>2, <3>1 DEF Fills
  <2> QED BY <2>2, <2>3
<1>5. Fine(0) BY <1>1, <1>3
<1>6. ASSUME NEW k \in 0..(n - 1), Fine(k) PROVE Fine(k + 1)
  <2> DEFINE s == at(k)
             o == os[k + 1]
             u == Filled(s, o, now)
  <2>1. k + 1 \in 1..n /\ k + 1 \in (k + 1)..n /\ o \in Order /\ o.lot <= last BY <1>1
  <2>2. /\ InOrder(s, last, R)
        /\ Waits(s, o, R) \/ (Stray(s, o, R) /\ Alone(k, k + 1))
    BY <1>6, <2>1
  <2>3. \A j \in (k + 2)..n : /\ j \in 1..n /\ j \in (k + 1)..n /\ j # k + 1 /\ os[j] \in Order
                              /\ os[j].lot \in 1..Trades
    <3>1. \A r \in Order : r.lot \in 1..Trades BY DEF Order
    <3>2. \A j \in (k + 2)..n : j \in 1..n /\ j \in (k + 1)..n /\ j # k + 1 BY <1>1
    <3> QED BY <1>1, <3>1, <3>2
  <2>4. at(k + 1) = u BY <1>4
  <2>5. ASSUME NEW j \in (k + 2)..n
        PROVE  Waits(s, os[j], R) \/ (Stray(s, os[j], R) /\ Alone(k, j))
    BY <1>6, <2>3
  <2>6. \A i, j \in 1..n : i = j \/ Apart(os[i], os[j], R) BY <1>1 DEF OneEach
  <2> DEFINE left(j) == os[j]
  <2>7. s \in Trading /\ \A t \in 1..Trades : s.qty[t] \in {0, 1} \/ s.qty[t] = -1
    BY <2>2 DEF InOrder
  <2> HIDE DEF s, at, u
  <2>8. /\ InOrder(u, last, R)
        /\ \A p \in Range(u.orders) : p.lot = o.lot \/ p \in Range(s.orders)
        /\ \A t \in 1..Trades : t # o.lot =>
             u.qty[t] = s.qty[t] /\ (t \in u.closing <=> t \in s.closing)
        /\ o.kind # "entry" => Clear(u.orders, o.lot)
        /\ o.kind # "entry" /\ Fits(s, o) => u.qty[o.lot] = 0
    <3> HIDE DEF o
    <3> QED BY <2>1, <2>2, FilledInOrder DEF u
  <2>9. ASSUME NEW j \in (k + 2)..n
        PROVE  \/ Waits(u, os[j], R)
               \/ Stray(u, os[j], R) /\ \A i \in (k + 2)..n : i = j \/ os[i].lot # os[j].lot
    <3> DEFINE r == os[j]
    <3>1. r \in Order /\ r.lot \in 1..Trades BY <2>3
    <3>2. CASE r.lot # o.lot
      <4>1. u.qty[r.lot] = s.qty[r.lot] /\ (r.lot \in u.closing <=> r.lot \in s.closing)
        BY <2>8, <3>1, <3>2
      <4>2. Fits(s, r) => Fits(u, r) BY <4>1 DEF Fits
      <4>3. (\A p \in Range(s.orders) : Apart(p, r, R)) => \A p \in Range(u.orders) : Apart(p, r, R)
        <5> HIDE DEF r, o
        <5> QED BY <2>8, <3>2 DEF Apart
      <4>4. Clear(s.orders, r.lot) => Clear(u.orders, r.lot)
        <5> HIDE DEF r, o
        <5> QED BY <2>8, <3>2 DEF Clear
      <4>5. Waits(s, r, R) => Waits(u, r, R) BY <4>2, <4>3 DEF Waits
      <4>6. Stray(s, r, R) => Stray(u, r, R) BY <4>1, <4>4 DEF Stray
      <4>7. Alone(k, j) => \A i \in (k + 2)..n : i = j \/ os[i].lot # os[j].lot BY <2>3
      <4> QED BY <2>5, <4>5, <4>6, <4>7
    <3>3. CASE r.lot = o.lot
      <4>1. ~ Alone(k, j)
        <5>1. k + 1 # j BY <2>3
        <5> QED BY <2>1, <3>3, <5>1
      <4>2. ~ Alone(k, k + 1) BY <2>3, <3>3
      <4>3. Fits(s, r) /\ Fits(s, o) BY <2>2, <2>5, <4>1, <4>2 DEF Waits
      <4>4. o.lot \in R /\ o.kind # r.kind
        <5>1. Apart(o, r, R) BY <2>1, <2>3, <2>6
        <5> QED BY <3>3, <5>1 DEF Apart
      <4>5. o.kind # "entry" /\ r.kind # "entry" BY <3>3, <4>3, <4>4 DEF Fits
      <4>6. Stray(u, r, R) BY <2>8, <3>3, <4>3, <4>4, <4>5 DEF Stray
      <4>7. ASSUME NEW i \in (k + 2)..n, i # j, os[i].lot = r.lot PROVE FALSE
        <5>1. Apart(o, os[i], R) /\ Apart(os[i], r, R) BY <2>1, <2>3, <2>6, <4>7
        <5>2. os[i].kind # o.kind /\ os[i].kind # r.kind BY <3>3, <4>7, <5>1 DEF Apart
        <5>3. ~ Alone(k, i)
          <6>1. i # k + 1 /\ os[k + 1].lot = os[i].lot BY <2>3, <3>3, <4>7
          <6> QED BY <2>1, <6>1
        <5>4. Fits(s, os[i]) BY <2>5, <5>3 DEF Waits
        <5>5. os[i].kind # "entry" BY <3>3, <4>3, <4>4, <4>5, <4>7, <5>4 DEF Fits
        <5>6. /\ os[i].kind \in {"entry", "stop", "close"} /\ o.kind \in {"entry", "stop", "close"}
              /\ r.kind \in {"entry", "stop", "close"}
          BY <2>1, <2>3 DEF Order
        <5> HIDE DEF o, r
        <5> QED BY <4>4, <4>5, <5>2, <5>5, <5>6
      <4> QED BY <4>6, <4>7
    <3> QED BY <3>2, <3>3
  <2>10. (k + 1) + 1 = k + 2 OBVIOUS
  <2> QED BY <2>4, <2>8, <2>9, <2>10
<1>7. Fine(n)
  <2> DEFINE F == {k \in 0..n : Fine(k)}
  <2> HIDE DEF Fine
  <2>1. 0 \in F BY <1>1, <1>5
  <2>2. \A k \in 0..(n - 1) : k \in F => k + 1 \in F BY <1>1, <1>6
  <2>3. n \in 0..n BY <1>1
  <2> HIDE DEF F
  <2>4. n \in F BY <1>1, <2>1, <2>2, <2>3, PrefixInduction
  <2> QED BY <2>4 DEF F
<1>8. Drained(base, os, now) = at(n) BY <1>1, FillsUnfold DEF h
<1> QED BY <1>7, <1>8

(* A sequence of the elements of a finite set, each once.                  *)
LEMMA SetToSeqOnce ==
  ASSUME NEW S, IsFiniteSet(S)
  PROVE  /\ SetToSeq(S) \in Seq(S)
         /\ \A j, k \in DOMAIN SetToSeq(S) : SetToSeq(S)[j] = SetToSeq(S)[k] => j = k
<1> DEFINE n == Cardinality(S)
<1>1. n \in Nat BY FS_CardinalityType
<1>2. \E f : f \in [1..n -> S] /\ IsInjective(f)
  <2>1. PICK f \in Bijection(1..n, S) : TRUE BY FS_CardinalityType DEF ExistsBijection
  <2>2. f \in [1..n -> S] BY DEF Bijection, Injection, Surjection
  <2>3. \A a, b \in 1..n : f[a] = f[b] => a = b
    BY DEF Bijection, Injection, Surjection, IsInjective
  <2>4. IsInjective(f) BY <2>2, <2>3 DEF IsInjective
  <2> QED BY <2>2, <2>4
<1>3. SetToSeq(S) \in [1..n -> S] /\ IsInjective(SetToSeq(S)) BY <1>2 DEF SetToSeq
<1> HIDE DEF n
<1>4. \A f : f \in [1..n -> S] => f \in Seq(S) BY <1>1
<1> QED BY <1>3, <1>4 DEF IsInjective

LEMMA Concatenated ==
  ASSUME NEW a \in Seq(Order), NEW b \in Seq(Order), NEW R
  PROVE  /\ a \o b \in Seq(Order) /\ Range(a \o b) = Range(a) \cup Range(b)
         /\ /\ OneEach(a, R) /\ OneEach(b, R)
            /\ \A o \in Range(a), p \in Range(b) : Apart(o, p, R)
            => OneEach(a \o b, R)
<1> DEFINE m == Len(a)
           n == Len(b)
<1>1. m \in Nat /\ n \in Nat /\ DOMAIN a = 1..m /\ DOMAIN b = 1..n OBVIOUS
<1>2. a \o b \in Seq(Order) /\ DOMAIN (a \o b) = 1..(m + n) OBVIOUS
<1>3. /\ \A j \in 1..m : (a \o b)[j] = a[j]
      /\ \A j \in (m + 1)..(m + n) : (a \o b)[j] = b[j - m]
  OBVIOUS
<1> DEFINE c == a \o b
<1> HIDE DEF m, n, c
<1>4. \A j \in 1..(m + n) : j \in 1..m \/ (j \in (m + 1)..(m + n) /\ j - m \in 1..n) BY <1>1
<1>5. \A j \in 1..m : j \in 1..(m + n) BY <1>1
<1>6. \A j \in 1..n : j + m \in (m + 1)..(m + n) /\ j + m \in 1..(m + n) /\ (j + m) - m = j
  BY <1>1
<1>7. Range(a) \subseteq Range(c)
  BY <1>1, <1>2, <1>3, <1>5 DEF Range, c
<1>8. Range(b) \subseteq Range(c)
  <2> SUFFICES ASSUME NEW j \in 1..n PROVE b[j] \in Range(c) BY <1>1 DEF Range
  <2>1. c[j + m] = b[(j + m) - m] BY <1>3, <1>6 DEF c
  <2>2. c[j + m] = b[j] BY <1>6, <2>1
  <2> QED BY <1>2, <1>6, <2>2 DEF Range, c
<1>9. Range(c) \subseteq Range(a) \cup Range(b)
  BY <1>1, <1>2, <1>3, <1>4 DEF Range, c
<1>10. ASSUME OneEach(a, R), OneEach(b, R), \A o \in Range(a), p \in Range(b) : Apart(o, p, R)
       PROVE  OneEach(c, R)
  <2> SUFFICES ASSUME NEW i \in 1..(m + n), NEW j \in 1..(m + n), i # j
               PROVE  Apart(c[i], c[j], R)
    BY <1>2 DEF OneEach, c
  <2>1. \A k \in 1..m : a[k] \in Range(a) BY <1>1 DEF Range
  <2>2. \A k \in 1..n : b[k] \in Range(b) BY <1>1 DEF Range
  <2>3. CASE i \in 1..m /\ j \in 1..m BY <1>1, <1>3, <1>10, <2>3 DEF OneEach, c
  <2>4. CASE i \in 1..m /\ j \notin 1..m
    <3>1. c[i] = a[i] /\ c[j] = b[j - m] /\ j - m \in 1..n BY <1>3, <1>4, <2>4 DEF c
    <3> QED BY <1>10, <2>1, <2>2, <2>4, <3>1
  <2>5. CASE i \notin 1..m /\ j \in 1..m
    <3>1. c[j] = a[j] /\ c[i] = b[i - m] /\ i - m \in 1..n BY <1>3, <1>4, <2>5 DEF c
    <3>2. Apart(c[j], c[i], R) BY <1>10, <2>1, <2>2, <2>5, <3>1
    <3> QED BY <3>2 DEF Apart
  <2>6. CASE i \notin 1..m /\ j \notin 1..m
    <3>1. c[i] = b[i - m] /\ c[j] = b[j - m] /\ i - m \in 1..n /\ j - m \in 1..n
      BY <1>3, <1>4, <2>6 DEF c
    <3>2. i - m # j - m BY <1>1
    <3> QED BY <1>1, <1>10, <3>1, <3>2 DEF OneEach
  <2> QED BY <2>3, <2>4, <2>5, <2>6
<1> QED BY <1>2, <1>7, <1>8, <1>9, <1>10 DEF c

(* Orders of one kind, one for each of some lots.                          *)
Exits(kind, lots, now) == {Exit(kind, t, now) : t \in lots}

LEMMA OrdersOf ==
  ASSUME NEW lots \in SUBSET (1..Trades), NEW kind \in {"stop", "close"}, NEW now \in Nat, NEW R,
         \A t \in lots : qty[t] \in {-1, 1}
  PROVE  LET os == SetToSeq(Exits(kind, lots, now))
         IN /\ os \in Seq(Order) /\ OneEach(os, R)
            /\ \A o \in Range(os) : o.kind = kind /\ o.lot \in lots /\ o.size = -qty[o.lot]
<1> DEFINE new == Exits(kind, lots, now)
           os == SetToSeq(new)
<1>1. IsFiniteSet(new)
  <2>1. Trades \in Nat BY ReplayConstants
  <2>2. IsFiniteSet(1..Trades) BY <2>1, FS_Interval
  <2>3. IsFiniteSet(lots) BY <2>2, FS_Subset
  <2> DEFINE f == [t \in lots |-> Exit(kind, t, now)]
  <2>4. f \in Surjection(lots, new) BY DEF Surjection, Exits
  <2> HIDE DEF f, new
  <2> QED BY <2>3, <2>4, FS_Surjection
<1>2. \A o \in new : /\ o \in Order /\ o.kind = kind /\ o.lot \in lots /\ o.size = -qty[o.lot]
                     /\ o = Exit(kind, o.lot, now)
  <2> SUFFICES ASSUME NEW t \in lots
               PROVE  LET o == Exit(kind, t, now)
                      IN /\ o \in Order /\ o.kind = kind /\ o.lot = t /\ o.size = -qty[o.lot]
                         /\ o = Exit(kind, o.lot, now)
    BY DEF Exits
  <2>1. -qty[t] \in {-1, 1} /\ t \in 1..Trades OBVIOUS
  <2> QED BY <2>1 DEF Exit, NewOrder, Order
<1> HIDE DEF new
<1>3. os \in Seq(new) /\ \A j, k \in DOMAIN os : os[j] = os[k] => j = k BY <1>1, SetToSeqOnce
<1> HIDE DEF os
<1>4. DOMAIN os = 1..Len(os) /\ \A j \in DOMAIN os : os[j] \in new BY <1>3
<1>5. new \subseteq Order BY <1>2
<1>6. os \in Seq(Order) BY <1>3, <1>5
<1>7. OneEach(os, R)
  <2> SUFFICES ASSUME NEW j \in DOMAIN os, NEW k \in DOMAIN os, os[j].lot = os[k].lot
               PROVE  j = k
    BY DEF OneEach, Apart
  <2>1. os[j] = Exit(kind, os[j].lot, now) /\ os[k] = Exit(kind, os[k].lot, now) BY <1>2, <1>4
  <2> QED BY <1>3, <2>1
<1> QED BY <1>2, <1>4, <1>6, <1>7 DEF Range, os, new

Booked == [qty |-> qty, closing |-> closing, orders |-> orders]
LotsInv == entries \in 0..Trades /\ InOrder(Booked, entries, restopped)

LEMMA BookedParts ==
  /\ Booked.qty = qty /\ Booked.closing = closing /\ Booked.orders = orders
  /\ Booked \in Trading <=> /\ qty \in [1..Trades -> Int] /\ closing \in SUBSET (1..Trades)
                            /\ orders \in Seq(Order)
<1>1. Booked.qty = qty /\ Booked.closing = closing /\ Booked.orders = orders BY DEF Booked
<1>2. Booked \in Trading <=> /\ qty \in [1..Trades -> Int] /\ closing \in SUBSET (1..Trades)
                             /\ orders \in Seq(Order)
  BY DEF Booked, Trading
<1> QED BY <1>1, <1>2

LEMMA LotsInitInv == ReplayInit => LotsInv
<1> SUFFICES ASSUME ReplayInit PROVE LotsInv OBVIOUS
<1>1. Trades \in Nat BY ReplayConstants
<1>2. qty = [t \in 1..Trades |-> 0] /\ closing = {} /\ orders = <<>> /\ entries = 0
  BY DEF ReplayInit
<1>3. Range(orders) = {} /\ OneEach(orders, restopped) /\ orders \in Seq(Order)
  BY <1>2 DEF Range, OneEach
<1>4. Booked \in Trading BY <1>2, <1>3, BookedParts
<1>5. InOrder(Booked, entries, restopped) BY <1>2, <1>3, <1>4, BookedParts DEF InOrder
<1> QED BY <1>1, <1>2, <1>5 DEF LotsInv

(* A bar of the execution instrument.                                      *)
LEMMA ExecutionKeepsLots ==
  ASSUME LotsInv, NEW m \in Nat, NEW touched, ExecutionBar(m, touched) PROVE LotsInv'
<1> DEFINE resolving == {o \in Range(orders) : Resolves(o, m, touched)}
           others == Range(orders) \ resolving
           resolved == Only(orders, resolving)
           rest == Only(orders, others)
           base == [qty |-> qty, closing |-> closing, orders |-> rest]
           s == Drained(base, resolved, m)
           R == restopped
<1>1. entries \in 0..Trades /\ InOrder(Booked, entries, R) BY DEF LotsInv
<1>2. /\ Booked \in Trading /\ OneEach(orders, R)
      /\ \A t \in 1..Trades : qty[t] \in {0, 1} \/ (t \in R /\ qty[t] = -1)
      /\ \A o \in Range(orders) : Fits(Booked, o) /\ o.lot <= entries
      /\ \A t \in 1..Trades : t > entries => qty[t] = 0
  BY <1>1, BookedParts DEF InOrder
<1>3. /\ qty \in [1..Trades -> Int] /\ closing \in SUBSET (1..Trades) /\ orders \in Seq(Order)
  BY <1>2, BookedParts
<1>4. /\ qty' = s.qty /\ closing' = s.closing /\ orders' = s.orders /\ entries' = entries
      /\ restopped' = R
  BY DEF ExecutionBar
<1>5. resolving \cap others = {} OBVIOUS
<1> HIDE DEF resolving, others, R
<1>6. /\ resolved \in Seq(Order) /\ OneEach(resolved, R)
      /\ Range(resolved) = Range(orders) \cap resolving
  BY <1>2, <1>3, OnlyKeeps
<1>7. rest \in Seq(Order) /\ OneEach(rest, R) /\ Range(rest) = Range(orders) \cap others
  BY <1>2, <1>3, OnlyKeeps
<1> HIDE DEF resolved, rest
<1>8. base.qty = qty /\ base.closing = closing /\ base.orders = rest OBVIOUS
<1>9. base \in Trading BY <1>3, <1>7 DEF Trading
<1> HIDE DEF base
<1>10. \A o \in Range(orders) : Fits(base, o) BY <1>2, <1>8, BookedParts DEF Fits
<1>11. InOrder(base, entries, R) BY <1>2, <1>7, <1>8, <1>9, <1>10 DEF InOrder
<1>12. ASSUME NEW o \in Range(resolved), NEW p \in Range(rest) PROVE Apart(p, o, R)
  <2>1. o \in Range(orders) /\ p \in Range(orders) /\ o # p BY <1>5, <1>6, <1>7
  <2>2. PICK i \in DOMAIN orders, j \in DOMAIN orders : o = orders[i] /\ p = orders[j]
    BY <2>1 DEF Range
  <2> QED BY <1>2, <2>1, <2>2 DEF OneEach
<1>13. InOrder(s, entries, R)
  <2>1. \A o \in Range(resolved) : Waits(base, o, R) /\ o.lot <= entries
    BY <1>2, <1>6, <1>8, <1>10, <1>12 DEF Waits
  <2>2. entries \in Int BY <1>1
  <2> QED BY <1>6, <1>11, <2>1, <2>2, FillsInOrder
<1> HIDE DEF s
<1>14. Booked' = s
  <2>1. s \in Trading BY <1>13 DEF InOrder
  <2> QED BY <1>4, <2>1 DEF Booked, Trading
<1> QED BY <1>1, <1>4, <1>13, <1>14 DEF LotsInv

(* The strategy's entry, submitted for a lot of its own.                   *)
LEMMA EnterKeepsLots ==
  ASSUME NEW last \in Nat, NEW s, NEW R, InOrder(s, last, R), NEW now \in Nat, last = entries,
         NEW enters \in BOOLEAN, enters => last < Trades
  PROVE  InOrder([s EXCEPT !.orders = Enter(@, enters, now)], last + IF enters THEN 1 ELSE 0, R)
<1>1. /\ s \in Trading /\ OneEach(s.orders, R)
      /\ \A t \in 1..Trades : s.qty[t] \in {0, 1} \/ (t \in R /\ s.qty[t] = -1)
      /\ \A o \in Range(s.orders) : Fits(s, o) /\ o.lot <= last
      /\ \A t \in 1..Trades : t > last => s.qty[t] = 0
  BY DEF InOrder
<1>2. s.orders \in Seq(Order) BY <1>1 DEF Trading
<1>3. Trades \in Nat BY ReplayConstants
<1>4. CASE enters
  <2> DEFINE p == NewOrder("entry", last + 1, 1, now)
             u == [s EXCEPT !.orders = Append(@, p)]
  <2>1. /\ p \in Order /\ p.lot = last + 1 /\ p.kind = "entry" /\ p.size = 1
        /\ last + 1 \in 1..Trades
    BY <1>3, <1>4 DEF NewOrder, Order
  <2>2. [s EXCEPT !.orders = Enter(@, enters, now)] = u BY <1>4 DEF Enter
  <2> HIDE DEF p
  <2>3. Append(s.orders, p) \in Seq(Order) BY <1>2, <2>1
  <2>4. /\ u \in Trading /\ u.qty = s.qty /\ u.closing = s.closing
        /\ u.orders = Append(s.orders, p)
    BY <1>1, <2>3 DEF Trading
  <2> HIDE DEF u
  <2>5. Range(u.orders) = Range(s.orders) \cup {p} BY <1>2, <2>4, RangeOf
  <2>6. Clear(s.orders, p.lot)
    <3> SUFFICES ASSUME NEW o \in Range(s.orders), o.lot = last + 1 PROVE FALSE
      BY <2>1 DEF Clear
    <3>1. o.lot <= last BY <1>1
    <3> QED BY <3>1
  <2>7. OneEach(u.orders, R) BY <1>1, <1>2, <2>1, <2>4, <2>6, RangeOf
  <2>8. Fits(u, p)
    <3>1. s.qty[last + 1] = 0 BY <1>1, <2>1
    <3> QED BY <2>1, <2>4, <3>1 DEF Fits
  <2>9. ASSUME NEW o \in Range(u.orders) PROVE Fits(u, o) /\ o.lot <= last + 1
    <3>1. CASE o = p BY <2>1, <2>8, <3>1
    <3>2. CASE o \in Range(s.orders)
      <4>1. o \in Order BY <1>2, <3>2, RangeOf
      <4>2. o.lot \in Int /\ o.lot <= last BY <1>1, <3>2, <4>1 DEF Order
      <4>3. Fits(u, o) BY <1>1, <2>4, <3>2 DEF Fits
      <4> QED BY <4>2, <4>3
    <3> QED BY <2>5, <3>1, <3>2
  <2>10. \A t \in 1..Trades : t > last + 1 => u.qty[t] = 0 BY <1>1, <2>4
  <2>11. InOrder(u, last + 1, R) BY <1>1, <2>4, <2>7, <2>9, <2>10 DEF InOrder
  <2> QED BY <1>4, <2>2, <2>11
<1>5. CASE ~enters
  <2>1. [s EXCEPT !.orders = Enter(@, enters, now)] = s BY <1>1, <1>5 DEF Enter, Trading
  <2> QED BY <1>5, <2>1
<1> QED BY <1>4, <1>5

(* The exits: stops of the lots go, their closes come.                     *)
LEMMA ClosesKeepLots ==
  ASSUME NEW last \in Nat, NEW s, NEW R, InOrder(s, last, R), s.qty = qty, NEW now \in Nat,
         NEW lots \in SUBSET (1..Trades),
         \A t \in lots : qty[t] # 0 /\ t \notin s.closing
  PROVE  /\ InOrder([s EXCEPT !.closing = @ \cup lots, !.orders = Closes(@, lots, now)], last, R)
         /\ \A stops : stops \cap lots = {} =>
              Unstopped(stops, Closes(s.orders, lots, now)) = Unstopped(stops, s.orders)
<1> DEFINE S == {o \in Range(s.orders) : ~(o.kind = "stop" /\ o.lot \in lots)}
           kept == Only(s.orders, S)
           closes == SetToSeq(Exits("close", lots, now))
           u == [s EXCEPT !.closing = @ \cup lots, !.orders = Closes(@, lots, now)]
<1>1. /\ s \in Trading /\ OneEach(s.orders, R)
      /\ \A t \in 1..Trades : s.qty[t] \in {0, 1} \/ (t \in R /\ s.qty[t] = -1)
      /\ \A o \in Range(s.orders) : Fits(s, o) /\ o.lot <= last
      /\ \A t \in 1..Trades : t > last => s.qty[t] = 0
  BY DEF InOrder
<1>2. s.orders \in Seq(Order) /\ s.closing \in SUBSET (1..Trades) BY <1>1 DEF Trading
<1>3. S = {o \in Range(s.orders) : ~(o.kind = "stop" /\ o.lot \in lots)} OBVIOUS
<1>4. Closes(s.orders, lots, now) = kept \o closes BY DEF Closes, Exits
<1>5. /\ closes \in Seq(Order) /\ OneEach(closes, R)
      /\ \A o \in Range(closes) : o.kind = "close" /\ o.lot \in lots /\ o.size = -qty[o.lot]
  <2>1. \A t \in lots : qty[t] \in {-1, 1} BY <1>1
  <2> QED BY <2>1, OrdersOf
<1> HIDE DEF S, closes
<1>6. kept \in Seq(Order) /\ OneEach(kept, R) /\ Range(kept) = Range(s.orders) \cap S
  BY <1>1, <1>2, OnlyKeeps
<1> HIDE DEF kept
<1>7. ASSUME NEW o \in Range(kept) PROVE o.lot \notin lots
  <2> SUFFICES ASSUME o.lot \in lots PROVE FALSE OBVIOUS
  <2>1. o \in Range(s.orders) /\ o \in Order /\ Fits(s, o) /\ ~(o.kind = "stop" /\ o.lot \in lots)
    BY <1>1, <1>2, <1>3, <1>6, RangeOf
  <2>2. s.qty[o.lot] # 0 /\ o.lot \notin s.closing OBVIOUS
  <2>3. o.kind \in {"entry", "stop", "close"} BY <2>1 DEF Order
  <2> QED BY <2>1, <2>2, <2>3 DEF Fits
<1> DEFINE os == kept \o closes
<1>8. os \in Seq(Order) /\ OneEach(os, R) /\ Range(os) = Range(kept) \cup Range(closes)
  <2>1. \A o \in Range(kept), p \in Range(closes) : Apart(o, p, R) BY <1>5, <1>7 DEF Apart
  <2> QED BY <1>5, <1>6, <2>1, Concatenated
<1> HIDE DEF os
<1>9. u = [s EXCEPT !.closing = s.closing \cup lots, !.orders = os] BY <1>4 DEF os
<1>10. s.closing \cup lots \in SUBSET (1..Trades) BY <1>2
<1> HIDE DEF u
<1>11. u \in Trading /\ u.qty = s.qty /\ u.closing = s.closing \cup lots /\ u.orders = os
  BY <1>1, <1>8, <1>9, <1>10 DEF Trading
<1>12. ASSUME NEW o \in Range(os) PROVE Fits(u, o) /\ o.lot <= last
  <2>1. CASE o \in Range(kept)
    <3>1. Fits(s, o) /\ o.lot <= last BY <1>1, <1>6, <2>1
    <3> QED BY <1>11, <3>1 DEF Fits
  <2>2. CASE o \in Range(closes)
    <3>1. o.kind = "close" /\ o.lot \in lots /\ o.size = -qty[o.lot] BY <1>5, <2>2
    <3>2. o.lot \in 1..Trades /\ s.qty[o.lot] # 0 BY <3>1
    <3>3. o.lot <= last
      <4>1. Trades \in Nat /\ o.lot \in Int BY <3>2, ReplayConstants
      <4> QED BY <1>1, <3>2, <4>1
    <3> QED BY <1>11, <3>1, <3>2, <3>3 DEF Fits
  <2> QED BY <1>8, <2>1, <2>2
<1>13. InOrder(u, last, R) BY <1>1, <1>8, <1>11, <1>12 DEF InOrder
<1>14. ASSUME NEW stops, stops \cap lots = {}
       PROVE  Unstopped(stops, os) = Unstopped(stops, s.orders)
  <2>1. ASSUME NEW t \in stops
        PROVE  (\E o \in Range(os) : o.kind = "stop" /\ o.lot = t)
                 <=> (\E o \in Range(s.orders) : o.kind = "stop" /\ o.lot = t)
    <3>1. t \notin lots BY <1>14
    <3> QED BY <1>3, <1>5, <1>6, <1>8, <3>1
  <2> QED BY <2>1 DEF Unstopped
<1> QED BY <1>4, <1>13, <1>14 DEF u, os

(* New stops, of lots that have none; a lot whose close is pending then    *)
(* has two orders.                                                          *)
LEMMA RestopsKeepLots ==
  ASSUME NEW last \in Nat, NEW s, NEW R, InOrder(s, last, R), s.qty = qty, NEW now \in Nat,
         NEW stops \in SUBSET (1..Trades), \A t \in stops : qty[t] # 0,
         Unstopped(stops, s.orders) \cap s.closing \subseteq R
  PROVE  InOrder([s EXCEPT !.orders = Restops(@, stops, now)], last, R)
<1> DEFINE U == Unstopped(stops, s.orders)
           more == SetToSeq(Exits("stop", U, now))
           os == s.orders \o more
           u == [s EXCEPT !.orders = Restops(@, stops, now)]
<1>1. /\ s \in Trading /\ OneEach(s.orders, R)
      /\ \A t \in 1..Trades : s.qty[t] \in {0, 1} \/ (t \in R /\ s.qty[t] = -1)
      /\ \A o \in Range(s.orders) : Fits(s, o) /\ o.lot <= last
      /\ \A t \in 1..Trades : t > last => s.qty[t] = 0
  BY DEF InOrder
<1>2. s.orders \in Seq(Order) BY <1>1 DEF Trading
<1>3. /\ U \in SUBSET (1..Trades)
      /\ \A t \in U : qty[t] # 0 /\ \A o \in Range(s.orders) : ~(o.kind = "stop" /\ o.lot = t)
  BY DEF Unstopped
<1>4. U \cap s.closing \subseteq R OBVIOUS
<1>5. Restops(s.orders, stops, now) = os BY DEF Restops, Exits
<1> HIDE DEF U
<1>6. /\ more \in Seq(Order) /\ OneEach(more, R)
      /\ \A o \in Range(more) : o.kind = "stop" /\ o.lot \in U /\ o.size = -qty[o.lot]
  <2>1. \A t \in U : qty[t] \in {-1, 1} BY <1>1, <1>3
  <2> QED BY <1>3, <2>1, OrdersOf
<1> HIDE DEF more
<1>7. ASSUME NEW o \in Range(s.orders), NEW p \in Range(more) PROVE Apart(o, p, R)
  <2> SUFFICES ASSUME o.lot = p.lot PROVE o.lot \in R /\ o.kind # p.kind BY DEF Apart
  <2>1. o \in Order /\ Fits(s, o) BY <1>1, <1>2, RangeOf
  <2>2. p.lot \in U /\ p.kind = "stop" BY <1>6
  <2>3. s.qty[o.lot] # 0 /\ o.kind # "stop" BY <1>3, <2>2
  <2>4. o.kind = "close" BY <2>1, <2>3 DEF Order, Fits
  <2>5. o.lot \in s.closing BY <2>1, <2>4 DEF Fits
  <2> QED BY <1>4, <2>2, <2>4, <2>5
<1>8. os \in Seq(Order) /\ OneEach(os, R) /\ Range(os) = Range(s.orders) \cup Range(more)
  BY <1>1, <1>2, <1>6, <1>7, Concatenated
<1>9. u = [s EXCEPT !.orders = os] BY <1>5
<1> HIDE DEF os, u
<1>10. u \in Trading /\ u.qty = s.qty /\ u.closing = s.closing /\ u.orders = os
  BY <1>1, <1>8, <1>9 DEF Trading
<1>11. ASSUME NEW o \in Range(os) PROVE Fits(u, o) /\ o.lot <= last
  <2>1. CASE o \in Range(s.orders)
    <3>1. Fits(s, o) /\ o.lot <= last BY <1>1, <2>1
    <3> QED BY <1>10, <3>1 DEF Fits
  <2>2. CASE o \in Range(more)
    <3>1. o.kind = "stop" /\ o.lot \in U /\ o.size = -qty[o.lot] BY <1>6, <2>2
    <3>2. o.lot \in 1..Trades /\ s.qty[o.lot] # 0 BY <1>3, <3>1
    <3>3. o.lot <= last
      <4>1. Trades \in Nat /\ o.lot \in Int BY <3>2, ReplayConstants
      <4> QED BY <1>1, <3>2, <4>1
    <3> QED BY <1>10, <3>1, <3>2, <3>3 DEF Fits
  <2> QED BY <1>8, <2>1, <2>2
<1>12. InOrder(u, last, R) BY <1>1, <1>8, <1>10, <1>11 DEF InOrder
<1> QED BY <1>12 DEF u

LEMMA FlatKeepsLots ==
  ASSUME LotsInv, NEW m \in Nat, NEW reads, NEW enters \in BOOLEAN, FlatBar(m, reads, enters)
  PROVE  LotsInv'
<1> DEFINE u == [Booked EXCEPT !.orders = Enter(@, enters, m)]
<1>1. entries \in 0..Trades /\ InOrder(Booked, entries, restopped) BY DEF LotsInv
<1>2. Trades \in Nat BY ReplayConstants
<1>3. /\ enters => entries < Trades
      /\ orders' = Enter(orders, enters, m) /\ entries' = entries + (IF enters THEN 1 ELSE 0)
      /\ UNCHANGED <<qty, closing, restopped>>
  BY DEF FlatBar
<1>4. InOrder(u, entries + IF enters THEN 1 ELSE 0, restopped)
  BY <1>1, <1>2, <1>3, EnterKeepsLots
<1>5. Booked' = u BY <1>3 DEF Booked
<1>6. entries' \in 0..Trades BY <1>1, <1>2, <1>3
<1> HIDE DEF u
<1> QED BY <1>3, <1>4, <1>5, <1>6 DEF LotsInv

LEMMA OpenKeepsLots ==
  ASSUME LotsInv, NEW m \in Nat, NEW lots, NEW stops, NEW reads, NEW enters \in BOOLEAN,
         OpenBar(m, lots, stops, reads, enters)
  PROVE  LotsInv'
<1> DEFINE R == restopped \cup (Unstopped(stops, orders) \cap closing)
           s == [Booked EXCEPT !.closing = @ \cup lots, !.orders = Closes(@, lots, m)]
           v == [s EXCEPT !.orders = Restops(@, stops, m)]
           u == [v EXCEPT !.orders = Enter(@, enters, m)]
<1>1. entries \in 0..Trades /\ InOrder(Booked, entries, restopped) BY DEF LotsInv
<1>2. Trades \in Nat /\ entries \in Nat BY <1>1, ReplayConstants
<1>3. /\ lots \subseteq OpenLots \ closing /\ stops \subseteq OpenLots \ lots
      /\ closing' = closing \cup lots /\ restopped' = R
      /\ enters => entries < Trades
      /\ orders' = Enter(Restops(Closes(orders, lots, m), stops, m), enters, m)
      /\ entries' = entries + (IF enters THEN 1 ELSE 0) /\ qty' = qty
  BY DEF OpenBar
<1>4. /\ lots \in SUBSET (1..Trades) /\ \A t \in lots : qty[t] # 0 /\ t \notin closing
      /\ stops \in SUBSET (1..Trades) /\ \A t \in stops : qty[t] # 0
      /\ stops \cap lots = {}
  BY <1>3 DEF OpenLots
<1>5. InOrder(Booked, entries, R) BY <1>1, Widened
<1>6. R = restopped \cup (Unstopped(stops, orders) \cap closing) OBVIOUS
<1> HIDE DEF R
<1>7. /\ InOrder(s, entries, R)
      /\ Unstopped(stops, Closes(orders, lots, m)) = Unstopped(stops, orders)
  <2>1. \A t \in lots : qty[t] # 0 /\ t \notin Booked.closing BY <1>4, BookedParts
  <2>2. Booked.qty = qty /\ Booked.orders = orders BY BookedParts
  <2> DEFINE b == Booked
  <2>3. b.qty = qty /\ InOrder(b, entries, R) /\ \A t \in lots : qty[t] # 0 /\ t \notin b.closing
    BY <1>5, <2>1, <2>2
  <2>4. s = [b EXCEPT !.closing = @ \cup lots, !.orders = Closes(@, lots, m)] OBVIOUS
  <2> HIDE DEF s, b
  <2>5. /\ InOrder([b EXCEPT !.closing = @ \cup lots, !.orders = Closes(@, lots, m)], entries, R)
        /\ \A S : S \cap lots = {} =>
             Unstopped(S, Closes(b.orders, lots, m)) = Unstopped(S, b.orders)
    BY <1>2, <1>4, <2>3, ClosesKeepLots, ZenonT(30)
  <2>6. b.orders = orders BY <2>2 DEF b
  <2>7. Unstopped(stops, Closes(orders, lots, m)) = Unstopped(stops, orders)
    BY <1>4, <2>5, <2>6
  <2> QED BY <2>4, <2>5, <2>7
<1>8. s = [qty |-> qty, closing |-> closing \cup lots, orders |-> Closes(orders, lots, m)]
  <2> DEFINE c == closing \cup lots
             os == Closes(orders, lots, m)
  <2>1. s = [Booked EXCEPT !.closing = c, !.orders = os] BY BookedParts
  <2> HIDE DEF s, c, os
  <2>2. s = [qty |-> qty, closing |-> c, orders |-> os] BY <2>1 DEF Booked
  <2> QED BY <2>2 DEF c, os
<1> HIDE DEF s
<1>9. InOrder(v, entries, R)
  <2>1. /\ s.qty = qty /\ s.closing = closing \cup lots /\ s.orders = Closes(orders, lots, m)
    BY <1>8
  <2>2. Unstopped(stops, s.orders) \subseteq stops BY DEF Unstopped
  <2>3. Unstopped(stops, s.orders) \cap s.closing \subseteq R
    BY <1>4, <1>6, <1>7, <2>1, <2>2
  <2> QED BY <1>2, <1>4, <1>7, <2>1, <2>3, RestopsKeepLots
<1>10. v = [qty |-> qty, closing |-> closing \cup lots,
            orders |-> Restops(Closes(orders, lots, m), stops, m)]
  BY <1>8
<1> HIDE DEF v
<1>11. InOrder(u, entries + IF enters THEN 1 ELSE 0, R) BY <1>2, <1>3, <1>9, EnterKeepsLots
<1>12. Booked' = u BY <1>3, <1>10 DEF Booked
<1>13. entries' \in 0..Trades BY <1>1, <1>2, <1>3
<1> HIDE DEF u
<1> QED BY <1>3, <1>11, <1>12, <1>13 DEF LotsInv

LEMMA LotsStep == LotsInv /\ ReplayInv /\ [ReplayNext]_replayVars => LotsInv'
<1> SUFFICES ASSUME LotsInv, ReplayInv, [ReplayNext]_replayVars PROVE LotsInv' OBVIOUS
<1>1. ASSUME NEW m, NEW touched, ExecutionBar(m, touched) PROVE LotsInv'
  <2>1. m \in Nat BY <1>1, ArrivesInCorpus DEF ExecutionBar, Instruments
  <2> QED BY <1>1, <2>1, ExecutionKeepsLots
<1>2. ASSUME NEW m, NEW reads, NEW enters \in BOOLEAN, FlatBar(m, reads, enters) PROVE LotsInv'
  <2>1. m \in Nat BY <1>2, ArrivesInCorpus DEF FlatBar, Instruments
  <2> QED BY <1>2, <2>1, FlatKeepsLots
<1>3. ASSUME NEW m, NEW lots, NEW stops, NEW reads, NEW enters \in BOOLEAN,
             OpenBar(m, lots, stops, reads, enters)
      PROVE  LotsInv'
  <2>1. m \in Nat BY <1>3, ArrivesInCorpus DEF OpenBar, Instruments
  <2> QED BY <1>3, <2>1, OpenKeepsLots
<1>4. CASE UNCHANGED replayVars
  <2>1. UNCHANGED <<qty, closing, orders, entries, restopped>> BY <1>4 DEF replayVars, tradeVars
  <2>2. Booked' = Booked BY <2>1 DEF Booked
  <2> QED BY <2>1, <2>2 DEF LotsInv
<1> QED BY <1>1, <1>2, <1>3, <1>4 DEF ReplayNext

(* on_bar, the drain of its fills, submit_close and ensure_protective_stop: *)
(* however many lots a replay trades and whichever stops its bars touch, a  *)
(* lot is open with the size of its entry or flat; one that was given a     *)
(* stop beside its pending close may be turned over, by that size at most.  *)
THEOREM LotsAlwaysOpenOrFlat == ReplaySpec => []LotsOpenOrFlat
<1>1. LotsInv => LotsOpenOrFlat BY BookedParts DEF LotsInv, InOrder, LotsOpenOrFlat
<1> QED BY <1>1, ReplayInductive, LotsInitInv, LotsStep, PTL DEF ReplaySpec

-----------------------------------------------------------------------------
(* Splitting a window: stores that lose nothing recent.                    *)

Upto == 0..Final

(* Of the minutes that came the store knows all but those out of the       *)
(* lookback.                                                                *)
KnowsRecent(st, S) ==
  /\ DOMAIN st = {"rows", "pending", "revision", "frames"}
  /\ st.pending \in Seq(Nat \X LiveRows)
  /\ Known(st) \subseteq S
  /\ \A m \in S \ Known(st) : \E c \in S : c - m > Lookback

LEMMA ChunkBounds == Final \in Nat /\ Lookback \in Nat /\ WarmBars \in Nat /\ Upto \subseteq Nat
BY ChunkConstants, BarConstants DEF Upto

(* What is trimmed off is older than the lookback of a minute that stays.  *)
LEMMA TrimmedOld ==
  ASSUME NEW rows, DOMAIN rows \subseteq Upto
  PROVE  \A m \in DOMAIN rows \ DOMAIN Trim(rows) : \E c \in DOMAIN rows : c - m > Lookback
<1> SUFFICES ASSUME NEW m \in DOMAIN rows \ DOMAIN Trim(rows)
             PROVE  \E c \in DOMAIN rows : c - m > Lookback
  OBVIOUS
<1> DEFINE top == Max(DOMAIN rows)
<1>1. DOMAIN rows \in SUBSET (0..Final) /\ DOMAIN rows # {} BY DEF Upto
<1>2. top \in DOMAIN rows BY <1>1, ChunkBounds, MaxOf
<1>3. ~ (m >= top - Lookback) BY TrimDomain
<1> HIDE DEF top
<1>4. top \in Int /\ m \in Int BY <1>1, <1>2
<1>5. top - m > Lookback BY <1>3, <1>4, ChunkBounds
<1> QED BY <1>2, <1>5

LEMMA FlushKnows ==
  ASSUME NEW S \in SUBSET Upto, NEW st, KnowsRecent(st, S)
  PROVE  KnowsRecent(Flush(st), S) /\ Flush(st).pending = <<>>
<1>1. CASE st.pending = <<>>
  <2>1. Flush(st) = st BY <1>1 DEF Flush
  <2> QED BY <1>1, <2>1
<1>2. CASE st.pending # <<>>
  <2> DEFINE shown == Visible(st)
             rows == Trim(shown)
             f == [st EXCEPT !.rows = rows, !.pending = <<>>]
  <2>1. Flush(st) = f BY <1>2 DEF Flush
  <2>2. DOMAIN shown = Known(st) BY DEF Visible
  <2>3. DOMAIN shown \subseteq S /\ DOMAIN shown \subseteq Upto BY <2>2 DEF KnowsRecent
  <2> HIDE DEF shown
  <2>4. DOMAIN rows \subseteq DOMAIN shown BY TrimDomain
  <2>5. \A m \in DOMAIN shown \ DOMAIN rows : \E c \in DOMAIN shown : c - m > Lookback
    BY <2>3, TrimmedOld
  <2> HIDE DEF rows
  <2>6. DOMAIN f = {"rows", "pending", "revision", "frames"} /\ f.rows = rows
        /\ f.pending = <<>>
    BY DEF KnowsRecent
  <2> HIDE DEF f
  <2>7. PendingMinutes(f) = {} BY <2>6 DEF PendingMinutes
  <2>8. Known(f) = DOMAIN rows BY <2>6, <2>7 DEF Known
  <2>9. ASSUME NEW m \in S \ Known(f) PROVE \E c \in S : c - m > Lookback
    <3>1. CASE m \in Known(st) BY <2>2, <2>3, <2>5, <2>8, <3>1
    <3>2. CASE m \notin Known(st) BY <3>2 DEF KnowsRecent
    <3> QED BY <3>1, <3>2
  <2>10. f.pending \in Seq(Nat \X LiveRows) BY <2>6
  <2> QED BY <2>1, <2>3, <2>4, <2>6, <2>8, <2>9, <2>10 DEF KnowsRecent
<1> QED BY <1>1, <1>2

LEMMA IngestKnows ==
  ASSUME NEW S \in SUBSET Upto, NEW st, KnowsRecent(st, S), NEW m \in Upto, NEW row \in LiveRows
  PROVE  KnowsRecent(Ingest(st, m, row), S \cup {m})
<1> DEFINE all == S \cup {m}
<1>1. all \in SUBSET Upto /\ m \in Nat /\ m \in all /\ S \subseteq all BY ChunkBounds
<1>2. CASE \A latest \in Latest(st) : m > latest
  <2> DEFINE up == <<m, row>>
             more == [st EXCEPT !.pending = Append(@, up), !.revision = @ + 1]
  <2>1. up \in Nat \X LiveRows /\ up[1] = m BY <1>1
  <2>2. /\ DOMAIN more = {"rows", "pending", "revision", "frames"} /\ more.rows = st.rows
        /\ more.pending = Append(st.pending, up)
    BY DEF KnowsRecent
  <2>3. Ingest(st, m, row) \in {more, Flush(more)} BY <1>2 DEF Ingest
  <2> HIDE DEF up, more
  <2>4. st.pending \in Seq(Nat \X LiveRows) /\ Len(st.pending) \in Nat
        /\ DOMAIN st.pending = 1..Len(st.pending)
    BY DEF KnowsRecent
  <2>5. /\ more.pending \in Seq(Nat \X LiveRows)
        /\ DOMAIN more.pending = 1..(Len(st.pending) + 1)
        /\ more.pending[Len(st.pending) + 1] = up
        /\ \A k \in 1..Len(st.pending) : more.pending[k] = st.pending[k]
    BY <2>1, <2>2, <2>4
  <2>6. PendingMinutes(more) = PendingMinutes(st) \cup {m}
    <3>1. \A k \in DOMAIN more.pending : k \in DOMAIN st.pending \/ k = Len(st.pending) + 1
      BY <2>4, <2>5
    <3>2. /\ \A k \in DOMAIN st.pending : k \in DOMAIN more.pending
          /\ Len(st.pending) + 1 \in DOMAIN more.pending
      BY <2>4, <2>5
    <3>3. /\ \A k \in DOMAIN st.pending : more.pending[k] = st.pending[k]
          /\ more.pending[Len(st.pending) + 1][1] = m
      BY <2>1, <2>4, <2>5
    <3> QED BY <3>1, <3>2, <3>3 DEF PendingMinutes
  <2>7. Known(more) = Known(st) \cup {m} BY <2>2, <2>6 DEF Known
  <2>8. KnowsRecent(more, all) BY <1>1, <2>2, <2>5, <2>7 DEF KnowsRecent
  <2>9. KnowsRecent(Flush(more), all)
    <3> HIDE DEF all
    <3> QED BY <1>1, <2>8, FlushKnows
  <2> QED BY <2>3, <2>8, <2>9
<1>3. CASE ~ \A latest \in Latest(st) : m > latest
  <2> DEFINE f == Flush(st)
             new == [f EXCEPT !.rows = Replace(@, m, row), !.revision = @ + 1]
  <2>1. Ingest(st, m, row) = new BY <1>3 DEF Ingest
  <2>2. KnowsRecent(f, S) /\ f.pending = <<>> BY FlushKnows
  <2> HIDE DEF f
  <2>3. DOMAIN new = {"rows", "pending", "revision", "frames"} /\ new.pending = <<>>
        /\ new.rows = Replace(f.rows, m, row)
    BY <2>2 DEF KnowsRecent
  <2> HIDE DEF new
  <2>4. DOMAIN new.rows = DOMAIN f.rows \cup {m} BY <2>3 DEF Replace
  <2>5. PendingMinutes(new) = {} /\ PendingMinutes(f) = {} BY <2>2, <2>3 DEF PendingMinutes
  <2>6. Known(new) = Known(f) \cup {m} BY <2>4, <2>5 DEF Known
  <2>7. new.pending \in Seq(Nat \X LiveRows) BY <2>3
  <2> QED BY <1>1, <2>1, <2>2, <2>3, <2>6, <2>7 DEF KnowsRecent
<1> QED BY <1>2, <1>3

LEMMA MergeKnows ==
  ASSUME NEW S \in SUBSET Upto
  PROVE  LET st == Merge(NewStore, Rows(S), {})
         IN /\ KnowsRecent(st, S) /\ st.pending = <<>>
            /\ (\A a, b \in S : a - b <= Lookback) => st.rows = Rows(S)
<1> DEFINE st == Merge(NewStore, Rows(S), {})
           fetched == Rows(S)
           kept == Within(fetched, {m \in DOMAIN fetched :
                                      ~(m \in {} /\ fetched[m].source = "csv")})
<1>1. st = [NewStore EXCEPT !.rows = Trim(kept),
                            !.revision = @ + (IF kept = <<>> THEN 0 ELSE 1)]
  BY DEF Merge
<1>2. fetched = [m \in S |-> [source |-> "csv", ticks |-> Complete]] BY DEF Rows
<1>3. kept = fetched
  <2> HIDE DEF fetched
  <2>1. DOMAIN fetched \cap {m \in DOMAIN fetched : ~(m \in {} /\ fetched[m].source = "csv")}
          = DOMAIN fetched
    OBVIOUS
  <2>2. kept = [m \in DOMAIN fetched |-> fetched[m]] BY <2>1 DEF Within, Restrict
  <2> QED BY <1>2, <2>2
<1> HIDE DEF kept, st
<1>4. /\ DOMAIN st = {"rows", "pending", "revision", "frames"} /\ st.pending = <<>>
      /\ st.rows = Trim(fetched)
  BY <1>1, <1>3 DEF NewStore
<1>5. DOMAIN fetched = S BY <1>2
<1> HIDE DEF fetched
<1>6. PendingMinutes(st) = {} BY <1>4 DEF PendingMinutes
<1>7. Known(st) = DOMAIN Trim(fetched) BY <1>4, <1>6 DEF Known
<1>8. Known(st) \subseteq S BY <1>5, <1>7, TrimDomain
<1>9. \A m \in S \ Known(st) : \E c \in S : c - m > Lookback BY <1>5, <1>7, TrimmedOld
<1>10. st.pending \in Seq(Nat \X LiveRows) BY <1>4
<1>11. KnowsRecent(st, S) BY <1>4, <1>8, <1>9, <1>10 DEF KnowsRecent
<1>12. ASSUME \A a, b \in S : a - b <= Lookback PROVE st.rows = fetched
  <2>1. \A m \in S : m \in DOMAIN Trim(fetched)
    <3> SUFFICES ASSUME NEW m \in S, m \notin DOMAIN Trim(fetched) PROVE FALSE OBVIOUS
    <3>1. PICK c \in S : c - m > Lookback BY <1>7, <1>9
    <3>2. c - m <= Lookback BY <1>12
    <3>3. c \in Nat /\ m \in Nat BY ChunkBounds
    <3> QED BY <3>1, <3>2, <3>3, ChunkBounds
  <2>2. S \cap {m \in S : m >= Max(S) - Lookback} = S BY <1>5, <2>1, TrimDomain
  <2>3. Trim(fetched) = [m \in S |-> fetched[m]] BY <1>5, <2>2 DEF Trim, Within, Restrict
  <2>4. fetched = [m \in S |-> fetched[m]] BY <1>2, <1>5
  <2> QED BY <1>4, <2>3, <2>4
<1> QED BY <1>4, <1>11, <1>12 DEF st, fetched

(* Covered, of any bars.                                                    *)
CoveredIn(h, now) == Cardinality(h \cap ((now - Lookback)..now)) > WarmBars * Window

(* A store that has the lookback of a covered minute is warm.              *)
LEMMA CoveredWarm ==
  ASSUME NEW S \in SUBSET Upto, NEW st, KnowsRecent(st, S), NEW now \in Nat, NEW h,
         \A c \in S : c <= now, h \cap ((now - Lookback)..now) \subseteq S, CoveredIn(h, now)
  PROVE  Warm(st, WarmBars)
<1> DEFINE T == h \cap ((now - Lookback)..now)
           n == Len(st.pending)
           P == PendingMinutes(st)
           R == DOMAIN st.rows
           need == WarmBars * Window
<1>1. IsFiniteSet(Upto) BY ChunkBounds, FS_Interval DEF Upto
<1>2. T \subseteq Known(st)
  <2> SUFFICES ASSUME NEW m \in T, m \notin Known(st) PROVE FALSE OBVIOUS
  <2>1. m \in S OBVIOUS
  <2>2. PICK c \in S : c - m > Lookback BY <2>1 DEF KnowsRecent
  <2>3. c <= now /\ c \in Nat /\ m \in Nat /\ m >= now - Lookback BY <2>1, ChunkBounds
  <2> QED BY <2>2, <2>3, ChunkBounds
<1>3. Known(st) = R \cup P /\ Known(st) \subseteq S BY DEF Known, KnowsRecent
<1>4. IsFiniteSet(R) /\ IsFiniteSet(P) /\ IsFiniteSet(R \cup P)
  <2>1. R \in SUBSET Upto /\ P \in SUBSET Upto /\ R \cup P \in SUBSET Upto BY <1>3
  <2> HIDE DEF R, P
  <2> QED BY <1>1, <2>1, FS_Subset
<1>5. n \in Nat /\ Cardinality(P) <= n
  <2>1. st.pending \in Seq(Nat \X LiveRows) /\ n \in Nat /\ DOMAIN st.pending = 1..n
    BY DEF KnowsRecent
  <2> DEFINE f == [k \in 1..n |-> st.pending[k][1]]
  <2>2. f \in Surjection(1..n, P) BY <2>1 DEF Surjection, PendingMinutes
  <2>3. IsFiniteSet(1..n) /\ Cardinality(1..n) = n
    <3> HIDE DEF n
    <3> QED BY <2>1, FS_Interval
  <2> HIDE DEF f, P, n
  <2> QED BY <2>1, <2>2, <2>3, FS_Surjection
<1> HIDE DEF n, P, R, T
<1>6. /\ Cardinality(R) \in Nat /\ Cardinality(P) \in Nat /\ Cardinality(T) \in Nat
      /\ Cardinality(T) <= Cardinality(R) + Cardinality(P)
  <2>1. Cardinality(R) \in Nat /\ Cardinality(P) \in Nat /\ Cardinality(R \cup P) \in Nat
    BY <1>4, FS_CardinalityType
  <2>2. Cardinality(R \cup P) = Cardinality(R) + Cardinality(P) - Cardinality(R \cap P)
    BY <1>4, FS_Union
  <2>3. IsFiniteSet(R \cap P) BY <1>4, FS_Intersection
  <2>4. Cardinality(R \cap P) \in Nat BY <2>3, FS_CardinalityType
  <2>5. T \in SUBSET (R \cup P) BY <1>2, <1>3
  <2>6. IsFiniteSet(T) /\ Cardinality(T) <= Cardinality(R \cup P) BY <1>4, <2>5, FS_Subset
  <2>7. Cardinality(T) \in Nat BY <2>6, FS_CardinalityType
  <2> QED BY <2>1, <2>2, <2>4, <2>6, <2>7
<1>7. Window \in Nat \ {0} /\ need \in Nat /\ Cardinality(T) > need
  <2>1. Window \in Nat \ {0} BY WindowBounds
  <2> QED BY <2>1, ChunkBounds DEF CoveredIn, T
<1> DEFINE count == Cardinality(R) + n
<1>8. count \in Nat /\ count - 1 >= need /\ count - 1 >= 0 BY <1>5, <1>6, <1>7
<1>9. Max({0, count - 1}) = count - 1
  <2> DEFINE c == count - 1
  <2>1. c \in Nat BY <1>8
  <2> HIDE DEF c
  <2>2. \E x \in {0, c} : \A y \in {0, c} : x >= y BY <2>1
  <2>3. Max({0, c}) \in {0, c} /\ \A y \in {0, c} : Max({0, c}) >= y BY <2>2 DEF Max
  <2>4. Max({0, c}) = c BY <2>1, <2>3
  <2> QED BY <2>4 DEF c
<1> DEFINE c == count - 1
           q == c \div Window
<1>10. q \in Int /\ c < q * Window + Window BY <1>7, <1>8, Quotient
<1>11. q >= WarmBars
  <2>1. c >= need /\ c \in Nat BY <1>8
  <2> HIDE DEF c, q
  <2> SUFFICES ASSUME q + 1 <= WarmBars PROVE FALSE BY <1>10, ChunkBounds
  <2>2. (q + 1) * Window <= WarmBars * Window BY <1>7, <1>10, ChunkBounds, TimesMonotone
  <2>3. (q + 1) * Window = q * Window + Window /\ q * Window \in Int BY <1>7, <1>10
  <2> QED BY <1>7, <1>10, <2>1, <2>2, <2>3
<1> QED BY <1>9, <1>11 DEF Warm, R, n

(* A bucket and the minutes in it.                                          *)
LEMMA BucketHolds ==
  ASSUME NEW m \in Int, NEW tf \in Nat \ {0}
  PROVE  Bucket(m, tf) \in Int /\ Bucket(m, tf) <= m /\ m < Bucket(m, tf) + tf
<1> DEFINE p == m \div tf
<1>1. p \in Int /\ p * tf <= m /\ m < p * tf + tf BY Quotient
<1>2. Bucket(m, tf) = p * tf BY DEF Bucket
<1> HIDE DEF p
<1>3. p * tf \in Int BY <1>1
<1> QED BY <1>1, <1>2, <1>3

(* A session starts a window.                                               *)
LEMMA SessionAligned ==
  ASSUME NEW d \in Int, NEW m \in Int, d * DayLength <= m
  PROVE  d * DayLength \in Int /\ d * DayLength <= Bucket(m, Window)
<1>1. Window \in Nat \ {0} /\ DayLength \in Nat /\ DayLength % Window = 0
  BY BarConstants
<1> DEFINE q == DayLength \div Window
<1>2. q \in Int /\ DayLength = q * Window BY <1>1
<1> HIDE DEF q
<1>3. d * DayLength = (d * q) * Window /\ d * q \in Int /\ d * DayLength \in Int
  <2>1. \A w \in Nat : d * (q * w) = (d * q) * w BY <1>2
  <2>2. d * q \in Int BY <1>2
  <2>3. (d * q) * Window \in Int BY <1>1, <2>2
  <2> QED BY <1>1, <1>2, <2>1, <2>2, <2>3
<1> DEFINE p == m \div Window
           e == d * q
<1>4. p \in Int /\ m < p * Window + Window BY <1>1, Quotient
<1>5. Bucket(m, Window) = p * Window BY DEF Bucket
<1>6. e \in Int /\ e * Window <= m BY <1>3
<1>7. d * DayLength = e * Window BY <1>3
<1> HIDE DEF p, e
<1>8. e <= p
  <2> SUFFICES ASSUME p + 1 <= e PROVE FALSE BY <1>4, <1>6
  <2>1. (p + 1) * Window <= e * Window BY <1>1, <1>4, <1>6, TimesMonotone
  <2>2. (p + 1) * Window = p * Window + Window /\ p * Window \in Int /\ e * Window \in Int
    BY <1>1, <1>4, <1>6
  <2> QED BY <1>1, <1>4, <1>6, <2>1, <2>2
<1>9. e * Window <= p * Window BY <1>1, <1>4, <1>6, <1>8, TimesMonotone
<1> QED BY <1>3, <1>5, <1>7, <1>9

(* The gate asks on the first bar of each window that comes to it.         *)
FirstIn(S, m) == \A b \in S : b < m => Bucket(b, Window) # Bucket(m, Window)
RecordedAt(at) == IF at = -1 THEN -1 ELSE Bucket(at - Window, Window)

LEMMA AsksFirst ==
  ASSUME NEW S \in SUBSET Nat, NEW at \in S \cup {-1}, NEW now \in S, now > at,
         \A b \in S : b > at => now <= b
  PROVE  /\ (Bucket(now - Window, Window) # RecordedAt(at)) <=> FirstIn(S, now)
         /\ RecordedAt(now) = Bucket(now - Window, Window)
<1>1. Window \in Nat \ {0} /\ Window >= 2 BY WindowBounds
<1>2. now \in Nat /\ now # -1 OBVIOUS
<1>3. RecordedAt(now) = Bucket(now - Window, Window) BY <1>2 DEF RecordedAt
<1>4. \A m \in Int : Bucket(m - Window, Window) = Bucket(m, Window) - Window
                     /\ Bucket(m, Window) \in Int
  BY <1>1, BucketBefore, BucketHolds
<1>5. CASE at = -1
  <2>1. now - Window \in Int BY <1>1, <1>2
  <2>2. Bucket(now - Window, Window) # -1 BY <1>1, <2>1, BucketRecorded
  <2>3. FirstIn(S, now)
    <3> SUFFICES ASSUME NEW b \in S, b < now PROVE FALSE BY DEF FirstIn
    <3>1. b \in Nat /\ b > at BY <1>5
    <3> QED BY <1>2, <3>1
  <2> QED BY <1>3, <1>5, <2>2, <2>3 DEF RecordedAt
<1>6. CASE at # -1
  <2>1. at \in S /\ at \in Nat BY <1>6
  <2>2. RecordedAt(at) = Bucket(at, Window) - Window BY <1>4, <1>6, <2>1 DEF RecordedAt
  <2>3. (Bucket(now - Window, Window) # RecordedAt(at))
          <=> Bucket(now, Window) # Bucket(at, Window)
    <3>1. Bucket(now, Window) \in Int /\ Bucket(at, Window) \in Int
          /\ Bucket(now - Window, Window) = Bucket(now, Window) - Window
      BY <1>2, <1>4, <2>1
    <3> QED BY <1>1, <2>2, <3>1
  <2>4. FirstIn(S, now) => Bucket(now, Window) # Bucket(at, Window)
    BY <2>1 DEF FirstIn
  <2>5. ASSUME NEW b \in S, b < now, Bucket(b, Window) = Bucket(now, Window)
        PROVE  Bucket(now, Window) = Bucket(at, Window)
    <3>1. b \in Nat /\ b <= at BY <1>2, <2>1, <2>5
    <3>2. Bucket(b, Window) <= Bucket(at, Window) /\ Bucket(at, Window) <= Bucket(now, Window)
      BY <1>1, <1>2, <2>1, <3>1, BucketMonotone
    <3>3. Bucket(now, Window) \in Int /\ Bucket(at, Window) \in Int BY <1>2, <1>4, <2>1
    <3> QED BY <2>5, <3>2, <3>3
  <2> QED BY <1>3, <2>3, <2>4, <2>5 DEF FirstIn
<1> QED BY <1>5, <1>6

(* What a context shows depends on the rows from `from` to `now` alone.    *)
LEMMA ViewSame ==
  ASSUME NEW r, NEW s, DOMAIN r \subseteq Int, DOMAIN s \subseteq Int,
         NEW now \in Int, NEW from \in Int, now \in DOMAIN r, now \in DOMAIN s,
         \A m \in Int : from <= m /\ m <= now => (m \in DOMAIN r <=> m \in DOMAIN s),
         \A m \in DOMAIN r : from <= m /\ m <= now => r[m] = s[m]
  PROVE  View(r, now, from) = View(s, now, from)
<1>1. /\ Window \in Nat \ {0, 1} /\ DayLength \in Nat \ {0, 1} /\ Window < DayLength
      /\ ~ (DayLength < DayLength)
  BY BarConstants
<1> DEFINE inside(rows, tf, b) == {m \in DOMAIN rows : Bucket(m, tf) = b}
           buckets(rows, tf) == {Bucket(m, tf) : m \in DOMAIN rows}
           closed(rows, tf) ==
             {b \in buckets(rows, tf) :
                IF tf < DayLength THEN Cardinality(inside(rows, tf, b)) = tf
                ELSE \E c \in buckets(rows, tf) : c > b}
           Shown(rows, tf) ==
             Within(AsOf(IF tf = 1 THEN rows ELSE Resample(rows, tf), tf, now),
                    {b \in DOMAIN AsOf(IF tf = 1 THEN rows ELSE Resample(rows, tf), tf, now) :
                       b >= from})
<1>2. \A rows, tf : Resample(rows, tf)
        = [b \in closed(rows, tf) |-> Restrict(rows, inside(rows, tf, b))]
  BY DEF Resample
<1>3. ASSUME NEW rows, DOMAIN rows \subseteq Int
      PROVE  Shown(rows, 1) = [m \in {k \in DOMAIN rows : from <= k /\ k <= now} |-> rows[m]]
  <2> DEFINE frame == AsOf(rows, 1, now)
  <2>1. frame = [m \in {k \in DOMAIN rows : k <= now} |-> rows[m]]
    BY DEF AsOf, Within, Restrict
  <2>2. Shown(rows, 1) = Within(frame, {b \in DOMAIN frame : b >= from}) OBVIOUS
  <2> HIDE DEF frame, Shown
  <2>3. DOMAIN frame \cap {b \in DOMAIN frame : b >= from}
          = {k \in DOMAIN rows : from <= k /\ k <= now}
    BY <1>3, <2>1
  <2> QED BY <2>1, <2>2, <2>3 DEF Within, Restrict
<1>4. Shown(r, 1) = Shown(s, 1)
  <2>1. {k \in DOMAIN r : from <= k /\ k <= now} = {k \in DOMAIN s : from <= k /\ k <= now}
    OBVIOUS
  <2> HIDE DEF Shown
  <2> QED BY <1>3, <2>1
<1>5. ASSUME NEW tf \in {Window, DayLength}, NEW rows
      PROVE  Shown(rows, tf)
               = [b \in {c \in closed(rows, tf) : c < Bucket(now, tf) /\ c >= from} |->
                    Restrict(rows, inside(rows, tf, b))]
  <2> DEFINE frame == Resample(rows, tf)
             cut == AsOf(frame, tf, now)
  <2>1. tf # 1 BY <1>1
  <2>2. DOMAIN frame = closed(rows, tf)
        /\ \A b \in closed(rows, tf) : frame[b] = Restrict(rows, inside(rows, tf, b))
    <3> HIDE DEF closed, inside
    <3> QED BY <1>2
  <2>3. Shown(rows, tf) = Within(cut, {b \in DOMAIN cut : b >= from}) BY <2>1
  <2> HIDE DEF frame, Shown, closed, inside
  <2>4. cut = [b \in {c \in closed(rows, tf) : c < Bucket(now, tf)} |-> frame[b]]
    BY <2>1, <2>2 DEF AsOf, Within, Restrict
  <2> HIDE DEF cut
  <2> QED BY <2>2, <2>3, <2>4 DEF Within, Restrict
<1>6. ASSUME NEW tf \in {Window, DayLength}, NEW b, b < Bucket(now, tf), b >= from, b \in Int
      PROVE  /\ inside(r, tf, b) = inside(s, tf, b)
             /\ Restrict(r, inside(r, tf, b)) = Restrict(s, inside(s, tf, b))
             /\ b \in buckets(r, tf) <=> b \in buckets(s, tf)
  <2>1. tf \in Nat \ {0} BY <1>1
  <2>2. ASSUME NEW m \in Int, Bucket(m, tf) = b PROVE from <= m /\ m <= now
    <3>1. b <= m /\ Bucket(now, tf) <= now /\ Bucket(now, tf) \in Int BY <2>1, <2>2, BucketHolds
    <3>2. m <= now
      <4> SUFFICES ASSUME now <= m PROVE m <= now OBVIOUS
      <4>1. Bucket(now, tf) <= Bucket(m, tf) BY <2>1, BucketMonotone
      <4> QED BY <1>6, <2>2, <3>1, <4>1
    <3> QED BY <1>6, <3>1, <3>2
  <2>3. inside(r, tf, b) = inside(s, tf, b) BY <2>2
  <2>4. \A m \in inside(r, tf, b) : r[m] = s[m] BY <2>2
  <2>5. /\ b \in buckets(r, tf) <=> inside(r, tf, b) # {}
        /\ b \in buckets(s, tf) <=> inside(s, tf, b) # {}
    OBVIOUS
  <2> HIDE DEF inside, buckets
  <2>6. Restrict(r, inside(r, tf, b)) = Restrict(s, inside(s, tf, b))
    BY <2>3, <2>4 DEF Restrict
  <2> QED BY <2>3, <2>5, <2>6
<1>7. ASSUME NEW tf \in {Window, DayLength}, NEW rows \in {r, s}
      PROVE  Bucket(now, tf) \in buckets(rows, tf) /\ buckets(rows, tf) \subseteq Int
             /\ Bucket(now, tf) \in Int
  <2>1. tf \in Nat \ {0} /\ DOMAIN rows \subseteq Int /\ now \in DOMAIN rows BY <1>1
  <2> QED BY <2>1, BucketHolds
<1>8. ASSUME NEW tf \in {Window, DayLength} PROVE Shown(r, tf) = Shown(s, tf)
  <2> DEFINE Kept(rows) == {c \in closed(rows, tf) : c < Bucket(now, tf) /\ c >= from}
  <2>1. ASSUME NEW b, b < Bucket(now, tf), b >= from, b \in Int
        PROVE  b \in closed(r, tf) <=> b \in closed(s, tf)
    <3>1. /\ inside(r, tf, b) = inside(s, tf, b)
          /\ b \in buckets(r, tf) <=> b \in buckets(s, tf)
      BY <1>6, <2>1
    <3>2. /\ Bucket(now, tf) \in buckets(r, tf) /\ Bucket(now, tf) \in buckets(s, tf)
          /\ Bucket(now, tf) > b
      <4>1. Bucket(now, tf) \in Int BY <1>7
      <4> QED BY <1>7, <2>1, <4>1
    <3> HIDE DEF inside, buckets
    <3> QED BY <3>1, <3>2
  <2>2. closed(r, tf) \subseteq Int /\ closed(s, tf) \subseteq Int
    <3>1. buckets(r, tf) \subseteq Int /\ buckets(s, tf) \subseteq Int
      <4> HIDE DEF buckets
      <4> QED BY <1>7
    <3> HIDE DEF buckets, inside
    <3> QED BY <3>1
  <2> HIDE DEF closed, Shown, inside
  <2>3. Kept(r) = Kept(s) BY <2>1, <2>2
  <2>4. \A b \in Kept(r) : Restrict(r, inside(r, tf, b)) = Restrict(s, inside(s, tf, b))
    BY <1>6, <2>2
  <2>5. /\ Shown(r, tf) = [b \in Kept(r) |-> Restrict(r, inside(r, tf, b))]
        /\ Shown(s, tf) = [b \in Kept(s) |-> Restrict(s, inside(s, tf, b))]
    BY <1>5
  <2> HIDE DEF Kept
  <2> QED BY <2>3, <2>4, <2>5
<1>9. \A rows : View(rows, now, from) = [tf \in {1} \cup Timeframes |-> Shown(rows, tf)]
  BY DEF View
<1> HIDE DEF Shown
<1> QED BY <1>4, <1>8, <1>9 DEF Timeframes

LEMMA MinOf ==
  ASSUME NEW S \in SUBSET Nat, S # {}
  PROVE  Min(S) \in S /\ \A y \in S : Min(S) <= y
<1> DEFINE R == OpToRel(<, Nat)
<1>1. PICK t \in S : \A y \in S : ~ (<<y, t>> \in R)
  <2>1. IsWellFoundedOn(R, Nat) BY NatLessThanWellFounded
  <2> HIDE DEF R
  <2> QED BY <2>1, WFMin
<1>2. \A y \in S : t <= y
  <2> SUFFICES ASSUME NEW y \in S PROVE t <= y OBVIOUS
  <2>1. t \in Nat /\ y \in Nat OBVIOUS
  <2>2. ~ (y < t) BY <1>1, <2>1 DEF OpToRel
  <2> QED BY <2>1, <2>2
<1> QED BY <1>2 DEF Min

-----------------------------------------------------------------------------
(* The chunks of a window.                                                 *)

Increasing(s, n) == \A i, j \in 1..n : i < j => s[i] < s[j]

LEMMA IncreasingExists ==
  ASSUME NEW b \in Nat, NEW S \in SUBSET (0..b)
  PROVE  \E s \in [1..Cardinality(S) -> S] : Increasing(s, Cardinality(S))
<1> DEFINE F == {T \in SUBSET S : \E s \in [1..Cardinality(T) -> T] : Increasing(s, Cardinality(T))}
<1>1. IsFiniteSet(S)
  <2>1. IsFiniteSet(0..b) BY FS_Interval
  <2> QED BY <2>1, FS_Subset
<1>2. ASSUME NEW n \in Nat, \A T \in SUBSET S : Cardinality(T) < n => T \in F,
             NEW T \in SUBSET S, Cardinality(T) = n
      PROVE  T \in F
  <2>1. IsFiniteSet(T) BY <1>1, FS_Subset
  <2>2. CASE T = {}
    <3>1. Cardinality(T) = 0 BY <2>2, FS_EmptySet
    <3> DEFINE s == [i \in 1..0 |-> 0]
    <3>2. s \in [1..0 -> T] /\ Increasing(s, 0) BY DEF Increasing
    <3> QED BY <3>1, <3>2
  <2>3. CASE T # {}
    <3> DEFINE x == Max(T)
               U == T \ {x}
    <3>1. x \in T /\ \A y \in T : y <= x
      <4>1. T \in SUBSET (0..b) OBVIOUS
      <4> QED BY <2>3, <4>1, MaxOf
    <3> HIDE DEF x
    <3>2. Cardinality(U) = n - 1 /\ n - 1 \in Nat
      <4>1. Cardinality(U) = n - 1 BY <1>2, <2>1, <3>1, FS_RemoveElement
      <4>2. IsFiniteSet(U) BY <2>1, FS_RemoveElement
      <4>3. Cardinality(U) \in Nat BY <4>2, FS_CardinalityType
      <4> QED BY <4>1, <4>3
    <3>3. U \in SUBSET S /\ Cardinality(U) < n
      <4>1. U \in SUBSET S OBVIOUS
      <4> HIDE DEF U
      <4> QED BY <1>2, <3>2, <4>1
    <3>4. U \in F
      <4> HIDE DEF F
      <4> QED BY <1>2, <3>3
    <3>5. PICK s \in [1..(n - 1) -> U] : Increasing(s, n - 1) BY <3>2, <3>4
    <3> DEFINE r == [i \in 1..n |-> IF i < n THEN s[i] ELSE x]
    <3>6. \A i \in 1..n : i \in 1..(n - 1) \/ i = n BY <1>2
    <3>7. \A i \in 1..(n - 1) : i \in 1..n /\ i < n /\ s[i] \in U BY <1>2
    <3>8. r \in [1..n -> T] BY <3>1, <3>6, <3>7
    <3>9. \A i \in 1..(n - 1) : r[i] = s[i] /\ s[i] < x
      <4>1. \A y \in U : y < x BY <3>1
      <4> QED BY <3>7, <4>1
    <3>10. Increasing(r, n)
      <4> SUFFICES ASSUME NEW i \in 1..n, NEW j \in 1..n, i < j PROVE r[i] < r[j]
        BY DEF Increasing
      <4>1. i \in 1..(n - 1) BY <1>2
      <4>2. CASE j = n
        <5>1. r[j] = x BY <4>2
        <5> HIDE DEF r
        <5> QED BY <3>9, <4>1, <5>1
      <4>3. CASE j \in 1..(n - 1) BY <3>5, <3>9, <4>1, <4>3 DEF Increasing
      <4> QED BY <3>6, <4>2, <4>3
    <3> HIDE DEF r
    <3> QED BY <1>2, <3>8, <3>10
  <2> QED BY <2>2, <2>3
<1>3. \A T \in SUBSET S : T \in F
  <2> HIDE DEF F
  <2> QED BY <1>1, <1>2, CardinalityInduction
<1> QED BY <1>3

(* An increasing sequence of as many elements of a set has them all.       *)
LEMMA IncreasingAll ==
  ASSUME NEW S \in SUBSET Nat, IsFiniteSet(S), NEW n \in Nat, n = Cardinality(S),
         NEW s \in [1..n -> S], Increasing(s, n)
  PROVE  \A x \in S : \E i \in 1..n : s[i] = x
<1>1. \A i, j \in 1..n : s[i] = s[j] => i = j
  <2> SUFFICES ASSUME NEW i \in 1..n, NEW j \in 1..n, s[i] = s[j], i # j PROVE FALSE OBVIOUS
  <2>1. i < j \/ j < i OBVIOUS
  <2>2. s[i] \in Nat /\ s[j] \in Nat OBVIOUS
  <2>3. s[i] < s[j] \/ s[j] < s[i] BY <2>1 DEF Increasing
  <2> QED BY <2>2, <2>3
<1>2. s \in Injection(1..n, S) BY <1>1 DEF Injection, IsInjective
<1>3. IsFiniteSet(1..n) /\ Cardinality(1..n) = n BY FS_Interval
<1>4. s \in Surjection(1..n, S) BY <1>2, <1>3, FS_Injection
<1> QED BY <1>4 DEF Surjection

(* The days of a window, in order.                                         *)
DatesOK(ds, h, f) ==
  /\ ds \in Seq(Nat) /\ Len(ds) \in Nat \ {0} /\ Increasing(ds, Len(ds))
  /\ \A m \in h \cap (f..Final) : \E i \in 1..Len(ds) : ds[i] = Day(m)

LEMMA DatesAre ==
  ASSUME NEW h \in SUBSET Nat, NEW f \in Nat, Dates(h, f) # <<>>
  PROVE  DatesOK(Dates(h, f), h, f)
<1> DEFINE days == {Day(m) : m \in h \cap (f..Final)}
           n == Cardinality(days)
           ds == Dates(h, f)
<1>1. \A m \in h \cap (f..Final) : Day(m) \in 0..Final
  <2> SUFFICES ASSUME NEW m \in Nat, m <= Final PROVE Day(m) \in 0..Final OBVIOUS
  <2>1. DayLength \in Nat \ {0} BY WindowBounds
  <2> DEFINE q == m \div DayLength
  <2>2. q \in Int /\ q * DayLength <= m /\ m < q * DayLength + DayLength BY <2>1, Quotient
  <2> HIDE DEF q
  <2>3. q >= 0
    <3> SUFFICES ASSUME q <= -1 PROVE FALSE BY <2>2
    <3>1. q * DayLength <= (-1) * DayLength BY <2>1, <2>2, TimesMonotone
    <3>2. (-1) * DayLength = -DayLength /\ q * DayLength \in Int BY <2>1, <2>2
    <3> QED BY <2>1, <2>2, <3>1, <3>2
  <2>4. q <= q * DayLength
    <3>1. 1 * q <= DayLength * q BY <2>1, <2>2, <2>3, TimesMonotone
    <3> QED BY <2>1, <2>2, <3>1
  <2>5. q <= Final
    <3>1. q * DayLength \in Int BY <2>1, <2>2
    <3> QED BY <2>2, <2>4, <3>1, ChunkBounds
  <2> QED BY <2>2, <2>3, <2>5, ChunkBounds DEF Day, q
<1>2. days \in SUBSET (0..Final) /\ days \in SUBSET Nat BY <1>1
<1>3. IsFiniteSet(days) /\ n \in Nat
  <2>1. IsFiniteSet(0..Final) BY ChunkBounds, FS_Interval
  <2> HIDE DEF days
  <2> QED BY <1>2, <2>1, FS_Subset, FS_CardinalityType
<1>4. \E s \in [1..n -> days] : Increasing(s, n)
  <2> HIDE DEF days
  <2> QED BY <1>2, ChunkBounds, IncreasingExists
<1>5. ds \in [1..n -> days] /\ Increasing(ds, n)
  <2>1. ds = CHOOSE s \in [1..n -> days] : \A i, j \in 1..n : i < j => s[i] < s[j]
    BY DEF Dates
  <2> HIDE DEF days, ds, n
  <2> QED BY <1>4, <2>1 DEF Increasing
<1>6. \A x \in days : \E i \in 1..n : ds[i] = x
  <2> HIDE DEF days, ds
  <2> QED BY <1>2, <1>3, <1>5, IncreasingAll
<1>7. ds \in Seq(Nat) /\ Len(ds) = n
  <2> HIDE DEF days, ds, n
  <2>1. \A s : s \in [1..n -> days] => s \in Seq(days) /\ Len(s) = n BY <1>3
  <2>2. ds \in Seq(days) BY <1>5, <2>1
  <2>3. ds \in Seq(Nat) BY <1>2, <2>2, SeqMonotonic
  <2> QED BY <1>5, <2>1, <2>3
<1>8. n # 0
  <2> HIDE DEF ds, n
  <2> QED BY <1>7, EmptySeq DEF ds
<1> HIDE DEF ds, n
<1>9. \A m \in h \cap (f..Final) : \E i \in 1..n : ds[i] = Day(m) BY <1>6
<1> QED BY <1>3, <1>5, <1>7, <1>8, <1>9 DEF DatesOK, ds

(* A share of what is left, rounded up, leaves every chunk to come its day.*)
LEMMA ShareSize ==
  ASSUME NEW spare \in Nat, NEW m \in Nat \ {0}, NEW left, left = spare + m
  PROVE  LET size == (left + m - 1) \div m
         IN size \in Int /\ 1 <= size /\ size <= spare + 1 /\ (m = 1 => size = left)
<1> DEFINE a == left + m - 1
           size == a \div m
<1>1. a \in Int /\ a = spare + m + m - 1 OBVIOUS
<1>2. size \in Int /\ size * m <= a /\ a < size * m + m BY <1>1, Quotient
<1> HIDE DEF a, size
<1>3. size * m \in Int BY <1>2
<1>4. 1 <= size
  <2> SUFFICES ASSUME size <= 0 PROVE FALSE BY <1>2
  <2>1. size * m <= 0 * m BY <1>2, TimesMonotone
  <2>2. 0 * m = 0 OBVIOUS
  <2> QED BY <1>1, <1>2, <1>3, <2>1, <2>2
<1>5. size <= spare + 1
  <2> SUFFICES ASSUME spare + 2 <= size PROVE FALSE BY <1>2
  <2>1. (spare + 2) * m <= size * m BY <1>2, TimesMonotone
  <2>2. (spare + 2) * m = m * spare + 2 * m /\ m * spare \in Int OBVIOUS
  <2>3. 1 * spare <= m * spare BY TimesMonotone
  <2>4. 1 * spare = spare /\ 2 * m = m + m OBVIOUS
  <2> QED BY <1>1, <1>2, <1>3, <2>1, <2>2, <2>3, <2>4
<1>6. m = 1 => size = left
  <2> SUFFICES ASSUME m = 1 PROVE size = left OBVIOUS
  <2>1. size * m = size BY <1>2
  <2> QED BY <1>1, <1>2, <2>1
<1> QED BY <1>2, <1>4, <1>5, <1>6 DEF size, a

(* The fold of _split_dates, and what it makes piece by piece: days in     *)
(* order, none in two pieces and none in none.                              *)
NoPieces == [chunks |-> <<>>, start |-> 0]
Splits(h, ds, n) ==
  h = [T \in SUBSET DOMAIN [k \in 1..n |-> k] |->
         IF T = {} THEN NoPieces
         ELSE LET x == Max(T) IN Share(ds, n, h[T \ {x}], [k \in 1..n |-> k][x])]

LEMMA SplitUnfolds ==
  ASSUME NEW ds, NEW n
  PROVE  SplitDates(ds, n)
           = (CHOOSE h : Splits(h, ds, n))[DOMAIN [k \in 1..n |-> k]].chunks
BY DEF SplitDates, FoldLeft, MapThenFoldSet, Splits, NoPieces

LEMMA SplitsExist ==
  ASSUME NEW ds \in Seq(Nat), NEW n \in Nat
  PROVE  \E h : Splits(h, ds, n)
<1> DEFINE All == {SubSeq(ds, p[1], p[2]) : p \in Int \X Int}
           V == [chunks : Seq(All), start : Int]
           G == [p \in V \X (1..n) |-> Share(ds, n, p[1], p[2])]
           keys == [k \in 1..n |-> k]
<1>1. NoPieces \in V BY DEF NoPieces
<1>2. ASSUME NEW c \in V, NEW k \in 1..n PROVE Share(ds, n, c, k) \in V
  <2> DEFINE size == (Len(ds) - c.start + n - k) \div (n - k + 1)
             s == SubSeq(ds, c.start + 1, c.start + size)
  <2>1. c.start \in Int /\ c.chunks \in Seq(All) /\ Len(ds) \in Nat
    <3> HIDE DEF All
    <3> QED OBVIOUS
  <2>2. n - k + 1 \in Nat \ {0} /\ Len(ds) - c.start + n - k \in Int BY <2>1
  <2>3. size \in Int BY <2>2, Quotient
  <2> HIDE DEF size
  <2>4. s \in All
    <3>1. c.start + 1 \in Int /\ c.start + size \in Int BY <2>1, <2>3
    <3> DEFINE p == <<c.start + 1, c.start + size>>
    <3>2. p \in Int \X Int /\ p[1] = c.start + 1 /\ p[2] = c.start + size BY <3>1
    <3> HIDE DEF p
    <3>3. s = SubSeq(ds, p[1], p[2]) BY <3>2
    <3> HIDE DEF s
    <3> QED BY <3>2, <3>3
  <2>5. Share(ds, n, c, k) = [chunks |-> Append(c.chunks, s), start |-> c.start + size]
    BY DEF Share, size
  <2> HIDE DEF s, All
  <2>6. Append(c.chunks, s) \in Seq(All) BY <2>1, <2>4
  <2> QED BY <2>1, <2>3, <2>5, <2>6
<1> HIDE DEF V
<1>3. G \in [V \X (1..n) -> V]
  <2> SUFFICES ASSUME NEW p \in V \X (1..n) PROVE Share(ds, n, p[1], p[2]) \in V OBVIOUS
  <2>1. p[1] \in V /\ p[2] \in 1..n OBVIOUS
  <2> QED BY <1>2, <2>1
<1>4. PICK h \in [SUBSET (1..n) -> V] : Folds(h, NoPieces, G, 1..n)
  <2> HIDE DEF G
  <2> QED BY <1>1, <1>3, FoldExists
<1> DEFINE e == [T \in SUBSET (1..n) |->
                   IF T = {} THEN NoPieces
                   ELSE LET x == Max(T) IN Share(ds, n, h[T \ {x}], keys[x])]
<1>5. ASSUME NEW T \in SUBSET (1..n) PROVE h[T] = e[T]
  <2>1. CASE T = {} BY <1>4, <2>1 DEF Folds
  <2>2. CASE T # {}
    <3>1. Max(T) \in 1..n /\ T \in SUBSET (1..n)
      <4>1. T \in SUBSET (0..n) OBVIOUS
      <4> QED BY <2>2, <4>1, MaxOf
    <3>2. <<h[T \ {Max(T)}], Max(T)>> \in V \X (1..n) BY <3>1
    <3>3. h[T] = G[<<h[T \ {Max(T)}], Max(T)>>] BY <1>4, <2>2 DEF Folds
    <3>4. keys[Max(T)] = Max(T) BY <3>1
    <3> HIDE DEF keys
    <3> QED BY <2>2, <3>2, <3>3, <3>4
  <2> QED BY <2>1, <2>2
<1>6. h = [T \in SUBSET (1..n) |-> h[T]] /\ e = [T \in SUBSET (1..n) |-> e[T]] OBVIOUS
<1>7. h = e
  <2> HIDE DEF e
  <2> QED BY <1>5, <1>6, SameFunction
<1>8. DOMAIN keys = 1..n OBVIOUS
<1>9. Splits(h, ds, n) BY <1>7, <1>8 DEF Splits
<1> QED BY <1>9

Lo(ch) == ch[1]
Hi(ch) == ch[Len(ch)]

Pieces == Seq(Seq(Nat))
SplitOK(c, ds, n, k) ==
  /\ c.start \in 0..Len(ds) /\ Len(ds) - c.start >= n - k /\ (k = n => c.start = Len(ds))
  /\ c.chunks \in Pieces /\ Len(c.chunks) = k
  /\ \A j \in 1..k : \E p, q \in 1..c.start :
       p <= q /\ Lo(c.chunks[j]) = ds[p] /\ Hi(c.chunks[j]) = ds[q]
  /\ \A i, j \in 1..k : i < j => Hi(c.chunks[i]) < Lo(c.chunks[j])
  /\ \A i \in 1..c.start : \E j \in 1..k :
       Lo(c.chunks[j]) <= ds[i] /\ ds[i] <= Hi(c.chunks[j])

(* How many of the N - s days that are left the next of n chunks gets when *)
(* k have had theirs.                                                       *)
ShareOf(N, s, n, k) == (N - s + n - (k + 1)) \div (n - (k + 1) + 1)

LEMMA ShareFits ==
  ASSUME NEW N \in Nat, NEW s \in 0..N, NEW n \in Nat \ {0}, NEW k \in 0..(n - 1), N - s >= n - k
  PROVE  /\ ShareOf(N, s, n, k) \in Int /\ s + 1 \in 1..N /\ s + ShareOf(N, s, n, k) \in 1..N
         /\ s + 1 <= s + ShareOf(N, s, n, k) /\ N - (s + ShareOf(N, s, n, k)) >= n - (k + 1)
         /\ (k + 1 = n => s + ShareOf(N, s, n, k) = N)
<1> DEFINE m == n - k
           left == N - s
           spare == left - m
           size == (left + m - 1) \div m
           given == ShareOf(N, s, n, k)
<1>1. m \in Nat \ {0} /\ spare \in Nat /\ left = spare + m OBVIOUS
<1>2. size \in Int /\ 1 <= size /\ size <= spare + 1 /\ (m = 1 => size = left)
  <2> HIDE DEF m, left, spare
  <2> QED BY <1>1, ShareSize
<1>3. given = size
  <2>1. N - s + n - (k + 1) = left + m - 1 /\ n - (k + 1) + 1 = m OBVIOUS
  <2> QED BY <2>1 DEF ShareOf
<1> HIDE DEF size, given
<1>4. /\ s + 1 \in 1..N /\ s + size \in 1..N /\ s + 1 <= s + size
      /\ N - (s + size) >= n - (k + 1) /\ (k + 1 = n => s + size = N)
  BY <1>1, <1>2
<1> QED BY <1>2, <1>3, <1>4 DEF given

(* The days from..to as one more piece.                                     *)
PiecesOK(chunks, ds, s, k) ==
  /\ chunks \in Pieces /\ Len(chunks) = k
  /\ \A j \in 1..k : \E p, q \in 1..s :
       p <= q /\ Lo(chunks[j]) = ds[p] /\ Hi(chunks[j]) = ds[q]
  /\ \A i, j \in 1..k : i < j => Hi(chunks[i]) < Lo(chunks[j])
  /\ \A i \in 1..s : \E j \in 1..k : Lo(chunks[j]) <= ds[i] /\ ds[i] <= Hi(chunks[j])

LEMMA PieceEnds ==
  ASSUME NEW ds \in Seq(Nat), NEW from \in 1..Len(ds), NEW to \in 1..Len(ds), from <= to
  PROVE  LET piece == SubSeq(ds, from, to)
         IN piece \in Seq(Nat) /\ Lo(piece) = ds[from] /\ Hi(piece) = ds[to]
<1> DEFINE piece == SubSeq(ds, from, to)
           n == to - from + 1
<1>1. from \in Int /\ to \in Int /\ Len(ds) \in Nat OBVIOUS
<1>2. \A i \in from..to : i \in 1..Len(ds) BY <1>1
<1>3. \A i \in from..to : ds[i] \in Nat BY <1>2
<1>4. n \in Nat /\ 1 \in 1..n /\ n \in 1..n /\ from + 1 - 1 = from /\ from + n - 1 = to
  BY <1>1
<1>5. /\ piece \in Seq(Nat) /\ Len(piece) = (IF from <= to THEN n ELSE 0)
      /\ \A i \in 1..n : piece[i] = ds[from + i - 1]
  BY <1>1, <1>3, SubSeqProperties
<1> HIDE DEF n, piece
<1>6. Len(piece) = n BY <1>5
<1>7. piece[1] = ds[from] /\ piece[n] = ds[to] BY <1>4, <1>5
<1> QED BY <1>5, <1>6, <1>7 DEF Lo, Hi, piece

LEMMA PieceAdded ==
  ASSUME NEW ds, NEW N \in Nat, \A i \in 1..N : ds[i] \in Nat, Increasing(ds, N),
         NEW s \in 0..N, NEW k \in Nat, NEW chunks, PiecesOK(chunks, ds, s, k),
         NEW from \in 1..N, NEW to \in 1..N, from = s + 1, from <= to,
         NEW piece \in Seq(Nat), Lo(piece) = ds[from], Hi(piece) = ds[to]
  PROVE  PiecesOK(Append(chunks, piece), ds, to, k + 1)
<1> DEFINE more == Append(chunks, piece)
<1>1. /\ more \in Pieces /\ Len(more) = k + 1 /\ more[k + 1] = piece
      /\ \A j \in 1..k : more[j] = chunks[j]
  <2>1. chunks \in Seq(Seq(Nat)) /\ Len(chunks) = k BY DEF PiecesOK, Pieces
  <2> DEFINE E == Seq(Nat)
  <2>2. chunks \in Seq(E) /\ piece \in E BY <2>1
  <2> HIDE DEF E
  <2>3. /\ more \in Seq(E) /\ Len(more) = Len(chunks) + 1 /\ more[Len(chunks) + 1] = piece
        /\ \A j \in 1..Len(chunks) : more[j] = chunks[j]
    <3> HIDE DEF more
    <3> QED BY <2>2, AppendProperties DEF more
  <2> QED BY <2>1, <2>3 DEF E, Pieces
<1> HIDE DEF more
<1>2. \A j \in 1..(k + 1) : j \in 1..k \/ j = k + 1 OBVIOUS
<1>3. \A j \in 1..k : j \in 1..(k + 1) OBVIOUS
<1>4. \A i \in 1..s : i \in 1..to /\ i \in 1..N /\ i < from OBVIOUS
<1>5. k + 1 \in 1..(k + 1) /\ from \in 1..to /\ to \in 1..to OBVIOUS
<1>6. ASSUME NEW j \in 1..k
      PROVE  \E p, q \in 1..s : /\ p <= q /\ ds[q] < ds[from]
                                /\ Lo(more[j]) = ds[p] /\ Hi(more[j]) = ds[q]
  <2>1. PICK p \in 1..s, q \in 1..s : p <= q /\ Lo(chunks[j]) = ds[p] /\ Hi(chunks[j]) = ds[q]
    BY DEF PiecesOK
  <2>2. ds[q] < ds[from] BY <1>4, <2>1 DEF Increasing
  <2> QED BY <1>1, <2>1, <2>2
<1>7. ASSUME NEW j \in 1..(k + 1)
      PROVE  \E p, q \in 1..to : p <= q /\ Lo(more[j]) = ds[p] /\ Hi(more[j]) = ds[q]
  <2>1. CASE j \in 1..k BY <1>4, <1>6, <2>1
  <2>2. CASE j = k + 1 BY <1>1, <1>5, <2>2
  <2> QED BY <1>2, <2>1, <2>2
<1>8. ASSUME NEW i \in 1..(k + 1), NEW j \in 1..(k + 1), i < j
      PROVE  Hi(more[i]) < Lo(more[j])
  <2>1. i \in 1..k BY <1>8
  <2>2. CASE j \in 1..k BY <1>1, <1>8, <2>1, <2>2 DEF PiecesOK
  <2>3. CASE j = k + 1 BY <1>1, <1>6, <2>1, <2>3
  <2> QED BY <1>2, <2>2, <2>3
<1>9. ASSUME NEW i \in 1..to
      PROVE  \E j \in 1..(k + 1) : Lo(more[j]) <= ds[i] /\ ds[i] <= Hi(more[j])
  <2>1. CASE i \in 1..s
    <3>1. PICK j \in 1..k : Lo(chunks[j]) <= ds[i] /\ ds[i] <= Hi(chunks[j])
      BY <2>1 DEF PiecesOK
    <3> QED BY <1>1, <1>3, <3>1
  <2>2. CASE i \notin 1..s
    <3>1. i \in 1..N /\ from <= i /\ i <= to BY <2>2
    <3>2. ds[from] \in Nat /\ ds[i] \in Nat /\ ds[to] \in Nat BY <3>1
    <3>3. from < i => ds[from] < ds[i] BY <3>1 DEF Increasing
    <3>4. i < to => ds[i] < ds[to] BY <3>1 DEF Increasing
    <3>5. (from < i \/ from = i) /\ (i < to \/ i = to) BY <3>1
    <3>6. ds[from] <= ds[i] /\ ds[i] <= ds[to] BY <3>2, <3>3, <3>4, <3>5
    <3> QED BY <1>1, <1>5, <3>6
  <2> QED BY <2>1, <2>2
<1> QED BY <1>1, <1>7, <1>8, <1>9 DEF PiecesOK, more

LEMMA ShareKeeps ==
  ASSUME NEW ds \in Seq(Nat), Increasing(ds, Len(ds)), NEW n \in Nat \ {0},
         NEW k \in 0..(n - 1), NEW c, SplitOK(c, ds, n, k)
  PROVE  SplitOK(Share(ds, n, c, k + 1), ds, n, k + 1)
<1> DEFINE N == Len(ds)
           s == c.start
           size == (Len(ds) - c.start + n - (k + 1)) \div (n - (k + 1) + 1)
           piece == SubSeq(ds, c.start + 1, c.start + size)
           from == s + 1
           to == s + size
           u == Share(ds, n, c, k + 1)
<1>1. N \in Nat /\ \A i \in 1..N : ds[i] \in Nat OBVIOUS
<1>2. s \in 0..N /\ N - s >= n - k /\ PiecesOK(c.chunks, ds, s, k)
  BY DEF SplitOK, PiecesOK
<1>3. u = [chunks |-> Append(c.chunks, piece), start |-> to] BY DEF Share
<1>4. piece = SubSeq(ds, from, to) OBVIOUS
<1>5. size = ShareOf(N, s, n, k) BY DEF ShareOf
<1> HIDE DEF N, s, size, piece, u
<1>6. /\ from \in 1..N /\ to \in 1..N /\ from <= to
      /\ N - to >= n - (k + 1) /\ (k + 1 = n => to = N)
  <2>1. N - s >= n - k /\ s \in 0..N /\ N \in Nat BY <1>1, <1>2
  <2> QED BY <1>5, <2>1, ShareFits
<1>7. from = s + 1 OBVIOUS
<1> HIDE DEF from, to
<1>8. piece \in Seq(Nat) /\ Lo(piece) = ds[from] /\ Hi(piece) = ds[to]
  BY <1>4, <1>6, PieceEnds DEF N
<1>9. k \in Nat /\ Increasing(ds, N) BY DEF N
<1>10. PiecesOK(u.chunks, ds, to, k + 1)
  <2>1. PiecesOK(Append(c.chunks, piece), ds, to, k + 1)
    BY <1>1, <1>2, <1>6, <1>7, <1>8, <1>9, PieceAdded
  <2> QED BY <1>3, <2>1
<1>11. u.start = to BY <1>3
<1>12. to \in 0..N BY <1>1, <1>6
<1> QED BY <1>6, <1>10, <1>11, <1>12 DEF SplitOK, PiecesOK, N, u

LEMMA SplitMakes ==
  ASSUME NEW ds \in Seq(Nat), Increasing(ds, Len(ds)), NEW n \in 1..Len(ds)
  PROVE  \E c : SplitOK(c, ds, n, n) /\ SplitDates(ds, n) = c.chunks
<1> DEFINE h == CHOOSE h : Splits(h, ds, n)
           at(k) == h[1..k]
           keys == [k \in 1..n |-> k]
<1>1. n \in Nat \ {0} /\ Len(ds) \in Nat /\ n <= Len(ds) OBVIOUS
<1>2. Splits(h, ds, n) BY <1>1, SplitsExist
<1> HIDE DEF h
<1>3. DOMAIN keys = 1..n OBVIOUS
<1>4. at(0) = NoPieces
  <2>1. 1..0 = {} /\ {} \in SUBSET DOMAIN keys OBVIOUS
  <2>2. h[{}] = NoPieces BY <1>2, <2>1 DEF Splits
  <2> QED BY <2>1, <2>2
<1>5. ASSUME NEW k \in 0..(n - 1) PROVE at(k + 1) = Share(ds, n, at(k), k + 1)
  <2>1. k \in Nat /\ k + 1 \in 1..n /\ 1..(k + 1) \in SUBSET DOMAIN keys BY <1>1, <1>3
  <2>2. /\ 1..(k + 1) # {} /\ Max(1..(k + 1)) = k + 1
        /\ (1..(k + 1)) \ {Max(1..(k + 1))} = 1..k
    BY <2>1, LastIndex
  <2>3. keys[k + 1] = k + 1 BY <2>1
  <2> DEFINE T == 1..(k + 1)
  <2>4. h[T] = IF T = {} THEN NoPieces
               ELSE LET x == Max(T) IN Share(ds, n, h[T \ {x}], keys[x])
    <3>1. T \in SUBSET DOMAIN keys BY <2>1
    <3> HIDE DEF T
    <3> QED BY <1>2, <3>1 DEF Splits
  <2> HIDE DEF keys
  <2> QED BY <2>2, <2>3, <2>4
<1>6. SplitOK(at(0), ds, n, 0)
  <2>1. NoPieces.start = 0 /\ NoPieces.chunks = <<>> BY DEF NoPieces
  <2>2. <<>> \in Pieces /\ Len(<<>>) = 0 BY EmptySeq DEF Pieces
  <2> HIDE DEF at
  <2> QED BY <1>1, <1>4, <2>1, <2>2 DEF SplitOK
<1>7. SplitOK(at(n), ds, n, n)
  <2> DEFINE F == {k \in 0..n : SplitOK(at(k), ds, n, k)}
  <2>1. 0 \in F BY <1>1, <1>6
  <2>2. \A k \in 0..(n - 1) : k \in F => k + 1 \in F
    <3> SUFFICES ASSUME NEW k \in 0..(n - 1), k \in F PROVE k + 1 \in F OBVIOUS
    <3>1. SplitOK(at(k), ds, n, k) /\ k + 1 \in 0..n BY <1>1
    <3> HIDE DEF at
    <3>2. SplitOK(at(k + 1), ds, n, k + 1) BY <1>1, <1>5, <3>1, ShareKeeps
    <3> QED BY <3>1, <3>2
  <2>3. n \in 0..n BY <1>1
  <2> HIDE DEF F
  <2>4. n \in F BY <1>1, <2>1, <2>2, <2>3, PrefixInduction
  <2> QED BY <2>4 DEF F
<1>8. SplitDates(ds, n) = at(n).chunks BY <1>3, SplitUnfolds DEF h
<1> QED BY <1>7, <1>8

(* What the workers are given: whole sessions, each with all that was      *)
(* loaded of its lookback, every bar of the window with one of them, and   *)
(* the chunks one after the other.                                          *)
ChunkOK(c, h, f) ==
  /\ c.start \in Nat /\ \E d \in Nat : c.start = d * DayLength
  /\ c.warmup \subseteq Loaded(h, f) /\ c.active \subseteq Loaded(h, f)
  /\ \A b \in c.warmup : c.start - Lookback <= b /\ b < c.start
  /\ \A m \in c.active : c.start <= m
  /\ \A m \in c.active : \A b \in Loaded(h, f) :
       /\ c.start <= b /\ b <= m => b \in c.active
       /\ c.start - Lookback <= b /\ b < c.start => b \in c.warmup

WorkOK(w, h, f) ==
  /\ \A k \in DOMAIN w : ChunkOK(w[k], h, f)
  /\ \A m \in h \cap (f..Final) : \E k \in DOMAIN w : m \in w[k].active
  /\ \A j, k \in DOMAIN w : \A m \in w[k].active :
       w[j].start <= m => w[j].start <= w[k].start

LEMMA LoadedUpto ==
  ASSUME NEW h \in SUBSET Nat, NEW f \in Nat
  PROVE  Loaded(h, f) \in SUBSET Upto /\ h \cap (f..Final) \subseteq Loaded(h, f)
BY ChunkBounds DEF Loaded, Upto

LEMMA PayloadOK ==
  ASSUME NEW h \in SUBSET Nat, NEW f \in Nat, NEW dates, Lo(dates) \in Nat, Hi(dates) \in Nat
  PROVE  /\ ChunkOK(Payload(h, f, dates), h, f)
         /\ Payload(h, f, dates).start = Lo(dates) * DayLength
         /\ \A m \in Loaded(h, f) :
              m \in Payload(h, f, dates).active
                <=> Lo(dates) * DayLength <= m /\ m < Hi(dates) * DayLength + DayLength
<1> DEFINE L == Loaded(h, f)
           s == Lo(dates) * DayLength
           e == Hi(dates) * DayLength + DayLength - 1
           c == Payload(h, f, dates)
<1>1. DayLength \in Nat \ {0} BY WindowBounds
<1>2. s \in Nat /\ e \in Int /\ Hi(dates) * DayLength \in Nat BY <1>1
<1>3. \E d \in Nat : s = d * DayLength OBVIOUS
<1>4. L \subseteq Nat BY LoadedUpto, ChunkBounds
<1>5. c = [start |-> s, warmup |-> L \cap ((s - Lookback)..(s - 1)), active |-> L \cap (s..e)]
  BY DEF Payload, Bounds, Lo, Hi
<1>6. \A m \in L : s <= m /\ m <= e <=> s <= m /\ m < Hi(dates) * DayLength + DayLength
  BY <1>1, <1>2, <1>4
<1> HIDE DEF L, s, e, c
<1>7. /\ c.start = s /\ c.warmup = L \cap ((s - Lookback)..(s - 1)) /\ c.active = L \cap (s..e)
  BY <1>5
<1>8. \A b \in L : b \in c.warmup <=> s - Lookback <= b /\ b < s BY <1>2, <1>4, <1>7, ChunkBounds
<1>9. \A b \in L : b \in c.active <=> s <= b /\ b <= e
  <2>1. s \in Int /\ e \in Int BY <1>2
  <2>2. \A b \in L : b \in s..e <=> s <= b /\ b <= e BY <1>4, <2>1
  <2> QED BY <1>7, <2>2
<1>10. c.warmup \subseteq L /\ c.active \subseteq L BY <1>7
<1>11. \A m \in c.active : \A b \in L : s <= b /\ b <= m => b \in c.active
  <2> SUFFICES ASSUME NEW m \in c.active, NEW b \in L, s <= b, b <= m PROVE b \in c.active
    OBVIOUS
  <2>1. m \in L /\ m \in Nat /\ b \in Nat BY <1>4, <1>10
  <2>2. m <= e BY <1>9, <2>1
  <2> QED BY <1>2, <1>9, <2>1, <2>2
<1>12. ChunkOK(c, h, f)
  BY <1>2, <1>3, <1>7, <1>8, <1>9, <1>10, <1>11 DEF ChunkOK, L
<1> QED BY <1>6, <1>7, <1>9, <1>12 DEF L, c, s

LEMMA DayOf ==
  ASSUME NEW m \in Nat
  PROVE  Day(m) \in Int /\ Day(m) * DayLength \in Int /\ Day(m) * DayLength <= m
         /\ m < Day(m) * DayLength + DayLength
<1>1. DayLength \in Nat \ {0} BY WindowBounds
<1> DEFINE q == m \div DayLength
<1>2. q \in Int /\ q * DayLength <= m /\ m < q * DayLength + DayLength BY <1>1, Quotient
<1>3. Day(m) = q BY DEF Day
<1> HIDE DEF q
<1> QED BY <1>1, <1>2, <1>3

LEMMA ChunksWork ==
  ASSUME NEW h \in SUBSET Nat, NEW f \in Nat, Dates(h, f) # <<>>
  PROVE  WorkOK(Chunks(h, f), h, f)
<1> DEFINE ds == Dates(h, f)
           n == Min({Workers, Len(ds)})
           parts == SplitDates(ds, n)
           w == Chunks(h, f)
           N == Len(ds)
<1>1. DatesOK(ds, h, f) BY DatesAre
<1>2. w = [k \in 1..n |-> Payload(h, f, parts[k])] BY DEF Chunks
<1> HIDE DEF ds, w
<1>3. /\ ds \in Seq(Nat) /\ Increasing(ds, N) /\ N \in Nat \ {0}
      /\ \A m \in h \cap (f..Final) : \E i \in 1..N : ds[i] = Day(m)
  BY <1>1 DEF DatesOK
<1>4. n \in 1..N
  <2> DEFINE S == {Workers, N}
  <2>1. S \in SUBSET Nat /\ S # {} BY <1>3, ChunkConstants
  <2>2. Workers \in Nat \ {0} /\ N \in S BY ChunkConstants
  <2>3. n = Min(S) /\ S \subseteq Nat \ {0} BY <1>3, <2>2
  <2> HIDE DEF S, n, N
  <2>4. n \in S /\ n <= N BY <2>1, <2>2, <2>3, MinOf
  <2> QED BY <1>3, <2>3, <2>4
<1>5. PICK c : SplitOK(c, ds, n, n) /\ parts = c.chunks
  <2> HIDE DEF n
  <2> QED BY <1>3, <1>4, SplitMakes
<1> HIDE DEF n, parts
<1>6. /\ n \in Nat
      /\ \A k \in 1..n : \E p, q \in 1..N : p <= q /\ Lo(parts[k]) = ds[p] /\ Hi(parts[k]) = ds[q]
      /\ \A i, k \in 1..n : i < k => Hi(parts[i]) < Lo(parts[k])
      /\ \A i \in 1..N : \E k \in 1..n : Lo(parts[k]) <= ds[i] /\ ds[i] <= Hi(parts[k])
  <2>1. c.start = N /\ n \in Nat BY <1>3, <1>4, <1>5 DEF SplitOK
  <2> HIDE DEF N
  <2> QED BY <1>5, <2>1 DEF SplitOK
<1>7. \A i \in 1..N : ds[i] \in Nat BY <1>3
<1> HIDE DEF N
<1>8. \A k \in 1..n : Lo(parts[k]) \in Nat /\ Hi(parts[k]) \in Nat /\ Lo(parts[k]) <= Hi(parts[k])
  <2> SUFFICES ASSUME NEW k \in 1..n
               PROVE  Lo(parts[k]) \in Nat /\ Hi(parts[k]) \in Nat /\ Lo(parts[k]) <= Hi(parts[k])
    OBVIOUS
  <2>1. PICK p \in 1..N, q \in 1..N : p <= q /\ Lo(parts[k]) = ds[p] /\ Hi(parts[k]) = ds[q]
    BY <1>6
  <2>2. ds[p] \in Nat /\ ds[q] \in Nat BY <1>7
  <2>3. p < q => ds[p] < ds[q] BY <1>3 DEF Increasing
  <2>4. p < q \/ p = q BY <1>3, <2>1
  <2> QED BY <2>1, <2>2, <2>3, <2>4
<1>9. DOMAIN w = 1..n /\ \A k \in 1..n : w[k] = Payload(h, f, parts[k]) BY <1>2
<1>10. \A k \in 1..n :
         /\ ChunkOK(w[k], h, f) /\ w[k].start = Lo(parts[k]) * DayLength
         /\ \A m \in Loaded(h, f) :
              m \in w[k].active
                <=> Lo(parts[k]) * DayLength <= m /\ m < Hi(parts[k]) * DayLength + DayLength
  <2> SUFFICES ASSUME NEW k \in 1..n
               PROVE  /\ ChunkOK(w[k], h, f) /\ w[k].start = Lo(parts[k]) * DayLength
                      /\ \A m \in Loaded(h, f) :
                           m \in w[k].active
                             <=> /\ Lo(parts[k]) * DayLength <= m
                                 /\ m < Hi(parts[k]) * DayLength + DayLength
    OBVIOUS
  <2> DEFINE dates == parts[k]
  <2>1. Lo(dates) \in Nat /\ Hi(dates) \in Nat /\ w[k] = Payload(h, f, dates) BY <1>8, <1>9
  <2> HIDE DEF dates
  <2>2. /\ ChunkOK(Payload(h, f, dates), h, f)
        /\ Payload(h, f, dates).start = Lo(dates) * DayLength
        /\ \A m \in Loaded(h, f) :
             m \in Payload(h, f, dates).active
               <=> Lo(dates) * DayLength <= m /\ m < Hi(dates) * DayLength + DayLength
    BY <2>1, PayloadOK
  <2> QED BY <2>1, <2>2 DEF dates
<1>11. DayLength \in Nat \ {0} /\ Loaded(h, f) \subseteq Nat /\ h \cap (f..Final) \subseteq Loaded(h, f)
  BY WindowBounds, LoadedUpto, ChunkBounds
<1>12. ASSUME NEW m \in h \cap (f..Final) PROVE \E k \in 1..n : m \in w[k].active
  <2>1. PICK i \in 1..N : ds[i] = Day(m) BY <1>3
  <2>2. PICK k \in 1..n : Lo(parts[k]) <= Day(m) /\ Day(m) <= Hi(parts[k]) BY <1>6, <2>1
  <2>3. Day(m) * DayLength <= m /\ m < Day(m) * DayLength + DayLength /\ Day(m) \in Nat /\ m \in Nat
    BY <1>7, <2>1, DayOf
  <2> DEFINE lo == Lo(parts[k])
             hi == Hi(parts[k])
             d == Day(m)
  <2>4. lo \in Nat /\ hi \in Nat /\ d \in Nat /\ lo <= d /\ d <= hi BY <1>8, <2>2, <2>3
  <2> HIDE DEF lo, hi, d
  <2>5. lo * DayLength <= d * DayLength /\ d * DayLength <= hi * DayLength
        /\ lo * DayLength \in Nat /\ d * DayLength \in Nat /\ hi * DayLength \in Nat
    BY <1>11, <2>4, TimesMonotone
  <2>6. lo * DayLength <= m /\ m < hi * DayLength + DayLength
    <3>1. d * DayLength <= m /\ m < d * DayLength + DayLength /\ m \in Nat BY <2>3 DEF d
    <3> QED BY <1>11, <2>5, <3>1
  <2> QED BY <1>10, <1>11, <2>6 DEF lo, hi
<1>13. ASSUME NEW j \in 1..n, NEW k \in 1..n, NEW m \in w[k].active, w[j].start <= m
       PROVE  w[j].start <= w[k].start
  <2> DEFINE a == Lo(parts[j])
             b == Lo(parts[k])
             e == Hi(parts[k])
  <2>1. /\ a \in Nat /\ b \in Nat /\ e \in Nat /\ w[j].start = a * DayLength
        /\ w[k].start = b * DayLength
    BY <1>8, <1>10
  <2>2. m \in Loaded(h, f) BY <1>10 DEF ChunkOK
  <2>3. m < e * DayLength + DayLength /\ m \in Nat BY <1>10, <1>11, <2>2
  <2>4. k < j => e < a BY <1>6
  <2>5. j < k => a < b
    <3>1. j < k => Hi(parts[j]) < Lo(parts[k]) BY <1>6
    <3> DEFINE g == Hi(parts[j])
    <3>2. g \in Nat /\ a <= g /\ a \in Nat /\ b \in Nat /\ (j < k => g < b) BY <1>8, <2>1, <3>1
    <3> HIDE DEF a, b, g
    <3> QED BY <3>2
  <2>6. j = k => a = b OBVIOUS
  <2>7. k < j \/ j < k \/ j = k
    <3>1. n \in Nat BY <1>6
    <3> QED BY <3>1
  <2> HIDE DEF a, b, e
  <2>8. ~ (e < a)
    <3> SUFFICES ASSUME e < a PROVE FALSE OBVIOUS
    <3>0. e + 1 \in Nat /\ a \in Nat /\ e + 1 <= a BY <2>1
    <3>1. (e + 1) * DayLength <= a * DayLength BY <1>11, <3>0, TimesMonotone
    <3>2. (e + 1) * DayLength = e * DayLength + DayLength /\ e * DayLength \in Nat
          /\ a * DayLength \in Nat
      BY <1>11, <2>1
    <3> DEFINE p == e * DayLength
               q == a * DayLength
    <3>3. q <= m /\ m < p + DayLength /\ p + DayLength <= q
      <4>1. q <= m BY <1>13, <2>1
      <4>2. m < p + DayLength BY <2>3
      <4>3. p + DayLength <= q
        <5> DEFINE r == (e + 1) * DayLength
        <5>1. r <= q /\ r = p + DayLength BY <3>1, <3>2
        <5> HIDE DEF p, q, r
        <5> QED BY <5>1
      <4> QED BY <4>1, <4>2, <4>3
    <3>4. p \in Nat /\ q \in Nat BY <3>2
    <3> HIDE DEF p, q
    <3> QED BY <1>11, <2>3, <3>3, <3>4
  <2>9. a <= b BY <2>1, <2>4, <2>5, <2>6, <2>7, <2>8
  <2> QED BY <1>11, <2>1, <2>9, TimesMonotone
<1> QED BY <1>9, <1>10, <1>12, <1>13 DEF WorkOK, w

(* A minute is compared by the lookback of the chunk that has it.          *)
FromIn(h, f, m) ==
  Max({Chunks(h, f)[k].start : k \in {j \in DOMAIN Chunks(h, f) : Chunks(h, f)[j].start <= m}})
    - Lookback

LEMMA FromIs ==
  ASSUME NEW h \in SUBSET Nat, NEW f \in Nat, WorkOK(Chunks(h, f), h, f),
         NEW k \in DOMAIN Chunks(h, f), NEW m \in Chunks(h, f)[k].active
  PROVE  FromIn(h, f, m) = Chunks(h, f)[k].start - Lookback
<1> DEFINE w == Chunks(h, f)
           S == {w[j].start : j \in {i \in DOMAIN w : w[i].start <= m}}
<1>1. FromIn(h, f, m) = Max(S) - Lookback BY DEF FromIn
<1> HIDE DEF w
<1>2. /\ \A j \in DOMAIN w : ChunkOK(w[j], h, f)
      /\ \A j \in DOMAIN w : w[j].start <= m => w[j].start <= w[k].start
  BY DEF WorkOK, w
<1>3. \A j \in DOMAIN w : w[j].start \in Nat BY <1>2 DEF ChunkOK
<1>4. k \in DOMAIN w /\ w[k].start <= m /\ m \in Nat
  <2>1. ChunkOK(w[k], h, f) BY <1>2 DEF w
  <2>2. m \in Loaded(h, f) /\ w[k].start <= m BY <2>1 DEF ChunkOK, w
  <2> QED BY <2>2, LoadedUpto, ChunkBounds DEF w
<1>5. S \in SUBSET (0..m) BY <1>3, <1>4
<1>6. w[k].start \in S /\ \A x \in S : x <= w[k].start BY <1>2, <1>4
<1> HIDE DEF S
<1>7. Max(S) \in S /\ \A x \in S : x <= Max(S) BY <1>4, <1>5, <1>6, MaxOf
<1>8. Max(S) = w[k].start
  <2>1. w[k].start \in Nat BY <1>3, <1>4
  <2>2. Max(S) \in 0..m BY <1>5, <1>7
  <2>3. Max(S) \in Nat BY <2>2
  <2>4. Max(S) <= w[k].start /\ w[k].start <= Max(S) BY <1>6, <1>7
  <2> QED BY <2>1, <2>3, <2>4
<1> QED BY <1>1, <1>8 DEF w

(* The sources: a worker's has all it was given, the replay's all loaded.  *)
LEMMA ChunkRows ==
  ASSUME NEW h \in SUBSET Nat, NEW f \in Nat, NEW c, ChunkOK(c, h, f)
  PROVE  ChunkSource(c) = [m \in c.warmup \cup c.active |-> Complete]
<1> DEFINE warmed == Merge(NewStore, Rows(c.warmup), {})
           loaded == Preload(NewSource, warmed)
           extra == Prices(Rows(c.active))
           all == Over(extra, Prices(Rows(c.warmup)))
<1>1. c.warmup \in SUBSET Upto /\ c.active \in SUBSET Upto BY LoadedUpto DEF ChunkOK
<1>2. \A a, b \in c.warmup : a - b <= Lookback
  <2> SUFFICES ASSUME NEW a \in c.warmup, NEW b \in c.warmup PROVE a - b <= Lookback OBVIOUS
  <2>1. a \in Nat /\ b \in Nat /\ c.start \in Nat BY <1>1, ChunkBounds DEF ChunkOK
  <2>2. a < c.start /\ c.start - Lookback <= b BY DEF ChunkOK
  <2> QED BY <2>1, <2>2, ChunkBounds
<1>3. warmed.pending = <<>> /\ warmed.rows = Rows(c.warmup) BY <1>1, <1>2, MergeKnows
<1> HIDE DEF warmed
<1>4. Flush(warmed) = warmed BY <1>3 DEF Flush
<1>5. ChunkSource(c) = PreloadReplay(loaded, warmed, extra).rows BY DEF ChunkSource, warmed
<1> HIDE DEF extra
<1>6. PreloadReplay(loaded, warmed, extra) = SetSource(loaded, all)
  BY <1>3, <1>4 DEF PreloadReplay
<1>7. "rows" \in DOMAIN loaded
  <2>1. loaded = SetSource(NewSource, Prices(Flush(warmed).rows)) BY DEF Preload
  <2> QED BY <2>1 DEF SetSource, NewSource
<1> HIDE DEF loaded, all
<1>8. SetSource(loaded, all).rows = all BY <1>7 DEF SetSource
<1>9. /\ DOMAIN Prices(Rows(c.warmup)) = c.warmup /\ DOMAIN extra = c.active
      /\ \A m \in c.warmup : Prices(Rows(c.warmup))[m] = Complete
      /\ \A m \in c.active : extra[m] = Complete
  BY DEF Prices, Rows, extra
<1>10. all = [m \in c.active \cup c.warmup |->
                IF m \in c.active THEN extra[m] ELSE Prices(Rows(c.warmup))[m]]
  BY <1>9 DEF all, Over
<1>11. c.active \cup c.warmup = c.warmup \cup c.active OBVIOUS
<1>12. all = [m \in c.warmup \cup c.active |-> Complete] BY <1>9, <1>10, <1>11
<1> QED BY <1>5, <1>6, <1>8, <1>12

(* What fast-event mode would ask with at a minute.                        *)
EntryIn(h, f, m) ==
  [at |-> m, view |-> View([b \in Loaded(h, f) |-> Complete], m, FromIn(h, f, m))]

LEMMA EntryIs ==
  ASSUME NEW m
  PROVE  [at |-> m, view |-> View(WholeSource, m, From(m))] = EntryIn(history, first, m)
<1>1. WholeSource = [b \in Loaded(history, first) |-> Complete]
  BY DEF WholeSource, Prices, Rows, Loaded
<1>2. From(m) = FromIn(history, first, m) BY DEF From, FromIn, ChunkOf
<1> QED BY <1>1, <1>2 DEF EntryIn

(* A worker's question at a minute shows the same.                         *)
LEMMA CandidateIs ==
  ASSUME NEW h \in SUBSET Nat, NEW f \in Nat, WorkOK(Chunks(h, f), h, f),
         NEW k \in DOMAIN Chunks(h, f), NEW m \in Chunks(h, f)[k].active
  PROVE  [at |-> m, view |-> View(ChunkSource(Chunks(h, f)[k]), m,
                                  Chunks(h, f)[k].start - Lookback)] = EntryIn(h, f, m)
<1> DEFINE c == Chunks(h, f)[k]
           L == Loaded(h, f)
           r == [b \in c.warmup \cup c.active |-> Complete]
           s == [b \in L |-> Complete]
           from == c.start - Lookback
<1>1. ChunkOK(c, h, f) BY DEF WorkOK
<1>2. FromIn(h, f, m) = from BY FromIs
<1>3. m \in c.active OBVIOUS
<1> HIDE DEF c
<1>4. ChunkSource(c) = r BY <1>1, ChunkRows
<1>5. /\ c.start \in Nat /\ c.warmup \subseteq L /\ c.active \subseteq L
      /\ \A b \in L : /\ c.start <= b /\ b <= m => b \in c.active
                      /\ c.start - Lookback <= b /\ b < c.start => b \in c.warmup
  BY <1>1, <1>3 DEF ChunkOK
<1>6. L \subseteq Nat BY LoadedUpto, ChunkBounds
<1> HIDE DEF L
<1>7. from \in Int /\ m \in Nat /\ m \in L
  <2>1. m \in L BY <1>3, <1>5
  <2>2. from \in Int BY <1>5, ChunkBounds
  <2> QED BY <1>6, <2>1, <2>2
<1>8. \A b \in Int : from <= b /\ b <= m => (b \in DOMAIN r <=> b \in DOMAIN s)
  <2> SUFFICES ASSUME NEW b \in Int, from <= b, b <= m
               PROVE  b \in c.warmup \cup c.active <=> b \in L
    OBVIOUS
  <2>1. c.start <= b \/ b < c.start BY <1>5
  <2> QED BY <1>5, <2>1
<1>9. DOMAIN r \subseteq Int /\ DOMAIN s \subseteq Int /\ m \in DOMAIN r /\ m \in DOMAIN s
  <2>1. \A b \in L : b \in Int BY <1>6
  <2>2. \A b \in c.warmup \cup c.active : b \in L BY <1>5
  <2> QED BY <1>3, <1>7, <2>1, <2>2
<1>10. \A b \in DOMAIN r : from <= b /\ b <= m => r[b] = s[b] BY <1>5
<1> HIDE DEF r, s, from
<1>11. View(r, m, from) = View(s, m, from) BY <1>7, <1>8, <1>9, <1>10, ViewSame
<1> QED BY <1>2, <1>4, <1>11 DEF EntryIn, from, s, c, L

-----------------------------------------------------------------------------
(* A bar opens a window for its worker where it does for the replay: its   *)
(* chunk starts a session, and so a window.  The first bar of a window     *)
(* that starts inside a session is the one that does not.                  *)
WindowBars(h, f) == h \cap (f..Final)
Aligned(h, f, m) == Day(f) * DayLength # f => m # Min(WindowBars(h, f))

LEMMA FirstBoth ==
  ASSUME NEW h \in SUBSET Nat, NEW f \in Nat, NEW c, ChunkOK(c, h, f),
         NEW m \in c.active, m \in WindowBars(h, f), Aligned(h, f, m)
  PROVE  FirstIn(c.active, m) <=> FirstIn(WindowBars(h, f), m)
<1> DEFINE W == WindowBars(h, f)
           B(b) == Bucket(b, Window)
<1>1. Window \in Nat \ {0} BY WindowBounds
<1>2. /\ W \subseteq Loaded(h, f) /\ W \in SUBSET Nat /\ c.active \subseteq Loaded(h, f)
      /\ \A b \in W : f <= b
      /\ \A b \in Loaded(h, f) : b \in Nat /\ (f <= b => b \in W)
  BY LoadedUpto, ChunkBounds DEF ChunkOK, WindowBars, Loaded
<1>3. m \in Nat /\ m \in W BY <1>2
<1> HIDE DEF W
<1>4. PICK d \in Nat : c.start = d * DayLength BY DEF ChunkOK
<1>5. \A b \in Nat : B(b) \in Int /\ B(b) <= b BY <1>1, BucketHolds
<1>6. FirstIn(c.active, m) => FirstIn(W, m)
  <2> SUFFICES ASSUME NEW b \in W, b < m, B(b) = B(m), FirstIn(c.active, m) PROVE FALSE
    BY DEF FirstIn
  <2>1. c.start <= m BY DEF ChunkOK
  <2>2. c.start <= B(m) /\ c.start \in Int BY <1>3, <1>4, <2>1, SessionAligned
  <2>3. b \in Nat BY <1>2
  <2>4. c.start <= b BY <1>3, <1>5, <2>2, <2>3
  <2>5. b \in c.active BY <1>2, <1>3, <2>3, <2>4 DEF ChunkOK
  <2> QED BY <2>5 DEF FirstIn
<1>7. FirstIn(W, m) => FirstIn(c.active, m)
  <2> SUFFICES ASSUME NEW b \in c.active, b < m, B(b) = B(m), FirstIn(W, m) PROVE FALSE
    BY DEF FirstIn
  <2>1. b \in Nat /\ b \notin W
    <3>1. b \in Nat BY <1>2
    <3> QED BY <3>1 DEF FirstIn
  <2>2. b < f BY <1>2, <2>1
  <2>3. CASE Day(f) * DayLength = f
    <3>1. f <= m /\ Day(f) \in Int BY <1>2, <1>3, DayOf
    <3>2. f <= B(m) BY <1>3, <2>3, <3>1, SessionAligned
    <3> QED BY <1>3, <1>5, <2>1, <2>2, <3>2
  <2>4. CASE Day(f) * DayLength # f
    <3> DEFINE a == Min(W)
    <3>1. a \in W /\ a <= m BY <1>2, <1>3, MinOf
    <3>2. a # m BY <2>4 DEF Aligned, W
    <3> HIDE DEF a
    <3>3. a \in Nat /\ a < m /\ b <= a BY <1>2, <1>3, <2>1, <2>2, <3>1, <3>2
    <3>4. B(b) <= B(a) /\ B(a) <= B(m) BY <1>1, <1>3, <2>1, <3>3, BucketMonotone
    <3>5. B(a) = B(m) BY <1>3, <1>5, <2>1, <3>3, <3>4
    <3> QED BY <3>1, <3>3, <3>5 DEF FirstIn
  <2> QED BY <2>3, <2>4
<1> QED BY <1>6, <1>7 DEF W

(* One that dispatches the bars S after a warm-up: its store knows the     *)
(* recent ones, its gate what it saw last.                                  *)
Dispatched(warm, S, at) == warm \cup {b \in S : b <= at}
ReaderOK(warm, S, at, noted, store) ==
  /\ at \in S \cup {-1} /\ noted = RecordedAt(at)
  /\ KnowsRecent(store, Dispatched(warm, S, at))

CsvRow == [source |-> "csv", ticks |-> Complete]
Left(S, at) == {m \in S : m > at}

LEMMA ReaderStep ==
  ASSUME NEW warm \in SUBSET Upto, NEW S \in SUBSET Upto, NEW at, NEW noted, NEW store,
         ReaderOK(warm, S, at, noted, store), Left(S, at) # {},
         \A a \in warm : \A b \in S : a <= b
  PROVE  LET now == Min(Left(S, at))
             asks == Bucket(now - Window, Window) # noted
             st == Ingest(store, now, CsvRow)
         IN /\ now \in S /\ now > at
            /\ asks <=> FirstIn(S, now)
            /\ ReaderOK(warm, S, now, IF asks THEN Bucket(now - Window, Window) ELSE noted, st)
            /\ \A b \in S : b <= now => b <= at \/ b = now
            /\ \A h : CoveredIn(h, now) /\ h \cap ((now - Lookback)..now) \subseteq warm \cup S
                        => Warm(st, WarmBars)
<1> DEFINE left == Left(S, at)
           now == Min(left)
           asks == Bucket(now - Window, Window) # noted
           st == Ingest(store, now, CsvRow)
           old == Dispatched(warm, S, at)
           new == Dispatched(warm, S, now)
<1>1. S \in SUBSET Nat /\ warm \in SUBSET Nat /\ at \in S \cup {-1} /\ noted = RecordedAt(at)
      /\ KnowsRecent(store, old)
  BY ChunkBounds DEF ReaderOK
<1>2. left \in SUBSET Nat BY <1>1 DEF Left
<1> HIDE DEF left
<1>3. now \in left /\ \A b \in left : now <= b BY <1>2, MinOf DEF left
<1> HIDE DEF now
<1>4. now \in S /\ now > at /\ \A b \in S : b > at => now <= b BY <1>3 DEF left, Left
<1>5. now \in Nat /\ at \in Int BY <1>1, <1>4
<1>6. (asks <=> FirstIn(S, now)) /\ RecordedAt(now) = Bucket(now - Window, Window)
  BY <1>1, <1>4, AsksFirst
<1>7. \A b \in S : b <= now => b <= at \/ b = now
  <2> SUFFICES ASSUME NEW b \in S, b <= now, ~ (b <= at) PROVE b = now OBVIOUS
  <2>1. b \in Nat BY <1>1
  <2>2. b > at BY <1>5, <2>1
  <2> QED BY <1>4, <1>5, <2>1, <2>2
<1>8. new = old \cup {now}
  <2>1. \A b \in S : b <= at => b <= now
    <3> SUFFICES ASSUME NEW b \in S, b <= at PROVE b <= now OBVIOUS
    <3>1. b \in Nat BY <1>1
    <3> QED BY <1>4, <1>5, <3>1
  <2>2. now <= now BY <1>5
  <2> QED BY <1>4, <1>7, <2>1, <2>2 DEF Dispatched
<1>9. old \in SUBSET Upto /\ new \in SUBSET Upto /\ now \in Upto BY <1>4 DEF Dispatched
<1>10. CsvRow \in LiveRows BY DEF CsvRow, LiveRows
<1>11. KnowsRecent(st, new)
  <2> HIDE DEF old, new
  <2> QED BY <1>1, <1>8, <1>9, <1>10, IngestKnows
<1>12. (IF asks THEN Bucket(now - Window, Window) ELSE noted) = RecordedAt(now) BY <1>6
<1>13. ReaderOK(warm, S, now, IF asks THEN Bucket(now - Window, Window) ELSE noted, st)
  <2> HIDE DEF st, asks
  <2> QED BY <1>4, <1>11, <1>12 DEF ReaderOK
<1>14. ASSUME NEW h, CoveredIn(h, now), h \cap ((now - Lookback)..now) \subseteq warm \cup S
       PROVE  Warm(st, WarmBars)
  <2>1. \A b \in new : b <= now
    <3>1. \A b \in warm : b <= now BY <1>4
    <3> QED BY <3>1 DEF Dispatched
  <2>2. h \cap ((now - Lookback)..now) \subseteq new BY <1>14 DEF Dispatched
  <2> HIDE DEF st, new
  <2> QED BY <1>5, <1>9, <1>11, <1>14, <2>1, <2>2, CoveredWarm
<1> QED BY <1>4, <1>6, <1>7, <1>13, <1>14 DEF left, now

(* What a worker has asked.                                                 *)
AskedOK(h, f, A, at, asked) ==
  /\ \A s \in asked : \E m \in A : m <= at /\ FirstIn(A, m) /\ s = EntryIn(h, f, m)
  /\ \A m \in A : m <= at /\ FirstIn(A, m) /\ f <= m /\ CoveredIn(h, m)
                    => EntryIn(h, f, m) \in asked

WorkerOK(h, f, c, at, noted, store, asked) ==
  ReaderOK(c.warmup, c.active, at, noted, store) /\ AskedOK(h, f, c.active, at, asked)

LEMMA WorkerStep ==
  ASSUME NEW h \in SUBSET Nat, NEW f \in Nat, WorkOK(Chunks(h, f), h, f),
         NEW k \in DOMAIN Chunks(h, f), NEW c, c = Chunks(h, f)[k],
         NEW at, NEW noted, NEW store, NEW asked,
         WorkerOK(h, f, c, at, noted, store, asked), Left(c.active, at) # {}
  PROVE  LET now == Min(Left(c.active, at))
             asks == Bucket(now - Window, Window) # noted
             st == Ingest(store, now, CsvRow)
             new == [at |-> now, view |-> View(ChunkSource(c), now, c.start - Lookback)]
         IN WorkerOK(h, f, c, now, IF asks THEN Bucket(now - Window, Window) ELSE noted, st,
                     asked \cup (IF asks /\ Warm(st, WarmBars) THEN {new} ELSE {}))
<1> DEFINE A == c.active
           now == Min(Left(A, at))
           asks == Bucket(now - Window, Window) # noted
           st == Ingest(store, now, CsvRow)
           more == asked \cup (IF asks /\ Warm(st, WarmBars) THEN {EntryIn(h, f, now)} ELSE {})
           marked == IF asks THEN Bucket(now - Window, Window) ELSE noted
<1>1. ChunkOK(c, h, f) BY DEF WorkOK
<1>2. c.warmup \in SUBSET Upto /\ A \in SUBSET Upto /\ A \in SUBSET Nat
  BY <1>1, LoadedUpto, ChunkBounds DEF ChunkOK
<1>3. \A a \in c.warmup : \A b \in A : a <= b
  <2> SUFFICES ASSUME NEW a \in c.warmup, NEW b \in A PROVE a <= b OBVIOUS
  <2>1. a < c.start /\ c.start <= b /\ c.start \in Nat BY <1>1 DEF ChunkOK
  <2>2. a \in Nat /\ b \in Nat BY <1>2, ChunkBounds
  <2> QED BY <2>1, <2>2
<1>4. ReaderOK(c.warmup, A, at, noted, store) /\ AskedOK(h, f, A, at, asked) /\ Left(A, at) # {}
  BY DEF WorkerOK
<1> HIDE DEF A
<1>5. /\ now \in A /\ now > at /\ (asks <=> FirstIn(A, now))
      /\ ReaderOK(c.warmup, A, now, marked, st)
      /\ \A b \in A : b <= now => b <= at \/ b = now
      /\ CoveredIn(h, now) /\ h \cap ((now - Lookback)..now) \subseteq c.warmup \cup A
           => Warm(st, WarmBars)
  BY <1>2, <1>3, <1>4, ReaderStep
<1> HIDE DEF now, st, asks, marked
<1>6. [at |-> now, view |-> View(ChunkSource(c), now, c.start - Lookback)] = EntryIn(h, f, now)
  BY <1>5, CandidateIs DEF A
<1>7. f <= now => h \cap ((now - Lookback)..now) \subseteq c.warmup \cup A
  <2> SUFFICES ASSUME f <= now, NEW b \in h, b \in (now - Lookback)..now
               PROVE  b \in c.warmup \cup A
    OBVIOUS
  <2>1. now \in Loaded(h, f) /\ c.start \in Nat /\ c.start <= now BY <1>1, <1>5 DEF ChunkOK, A
  <2>2. now \in Nat /\ b \in Nat /\ now <= Final /\ now - Lookback <= b /\ b <= now
    <3>1. now \in Upto BY <2>1, LoadedUpto
    <3> QED BY <3>1, ChunkBounds DEF Upto
  <2>3. b \in Loaded(h, f) BY <2>2, ChunkBounds DEF Loaded
  <2>4. c.start - Lookback <= b /\ (c.start <= b \/ b < c.start) BY <2>1, <2>2, ChunkBounds
  <2> QED BY <1>1, <1>5, <2>2, <2>3, <2>4 DEF ChunkOK, A
<1>8. AskedOK(h, f, A, now, more)
  <2>1. ASSUME NEW s \in more
        PROVE  \E m \in A : m <= now /\ FirstIn(A, m) /\ s = EntryIn(h, f, m)
    <3>1. CASE s \in asked
      <4>1. PICK m \in A : m <= at /\ FirstIn(A, m) /\ s = EntryIn(h, f, m)
        BY <1>4, <3>1 DEF AskedOK
      <4>2. m <= now
        <5>1. m \in Nat /\ now \in Nat BY <1>2, <1>5
        <5>2. at \in A \cup {-1} BY <1>4 DEF ReaderOK
        <5>3. at \in Int BY <1>2, <5>2
        <5> QED BY <1>5, <4>1, <5>1, <5>3
      <4> QED BY <4>1, <4>2
    <3>2. CASE s \notin asked
      <4>1. asks /\ s = EntryIn(h, f, now) BY <3>2
      <4>2. now <= now BY <1>2, <1>5
      <4> QED BY <1>5, <4>1, <4>2
    <3> QED BY <3>1, <3>2
  <2>2. ASSUME NEW m \in A, m <= now, FirstIn(A, m), f <= m, CoveredIn(h, m)
        PROVE  EntryIn(h, f, m) \in more
    <3>1. CASE m <= at BY <1>4, <2>2, <3>1 DEF AskedOK
    <3>2. CASE m = now BY <1>5, <1>7, <2>2, <3>2
    <3> QED BY <1>5, <2>2, <3>1, <3>2
  <2> HIDE DEF more
  <2> QED BY <2>1, <2>2 DEF AskedOK
<1>9. WorkerOK(h, f, c, now, marked, st, more)
  <2> HIDE DEF more
  <2> QED BY <1>5, <1>8 DEF WorkerOK, A
<1> QED BY <1>6, <1>9 DEF now, st, asks, marked, A

-----------------------------------------------------------------------------
(* The replay. *)

Compared(h, f, es) == {s \in es : CoveredIn(h, s.at) /\ Aligned(h, f, s.at)}

(* What the engine was given: the questions of the chunks.                 *)
SignalsOK(h, f, w, given) ==
  /\ \A s \in given : \E k \in DOMAIN w : \E m \in w[k].active :
       FirstIn(w[k].active, m) /\ s = EntryIn(h, f, m)
  /\ \A k \in DOMAIN w : \A m \in w[k].active :
       FirstIn(w[k].active, m) /\ f <= m /\ CoveredIn(h, m) => EntryIn(h, f, m) \in given

LEMMA GivenAt ==
  ASSUME NEW h \in SUBSET Nat, NEW f \in Nat, NEW w, WorkOK(w, h, f), NEW given,
         SignalsOK(h, f, w, given), NEW m \in WindowBars(h, f), Aligned(h, f, m), CoveredIn(h, m)
  PROVE  {s \in given : s.at = m} = IF FirstIn(WindowBars(h, f), m) THEN {EntryIn(h, f, m)} ELSE {}
<1> DEFINE W == WindowBars(h, f)
<1>1. \A b : EntryIn(h, f, b).at = b BY DEF EntryIn
<1>2. \A k \in DOMAIN w : m \in w[k].active => (FirstIn(w[k].active, m) <=> FirstIn(W, m))
  BY FirstBoth DEF WorkOK
<1>3. PICK k \in DOMAIN w : m \in w[k].active BY DEF WorkOK, WindowBars
<1>4. f <= m
  <2>1. m \in f..Final BY DEF WindowBars
  <2> QED BY <2>1
<1> HIDE DEF W
<1>5. FirstIn(W, m) => EntryIn(h, f, m) \in given BY <1>2, <1>3, <1>4 DEF SignalsOK
<1>6. ASSUME NEW s \in given, s.at = m PROVE s = EntryIn(h, f, m) /\ FirstIn(W, m)
  <2>1. PICK j \in DOMAIN w : \E b \in w[j].active :
          FirstIn(w[j].active, b) /\ s = EntryIn(h, f, b)
    BY DEF SignalsOK
  <2>2. PICK b \in w[j].active : FirstIn(w[j].active, b) /\ s = EntryIn(h, f, b) BY <2>1
  <2>3. b = m BY <1>1, <1>6, <2>2
  <2> QED BY <1>2, <2>2, <2>3
<1> QED BY <1>1, <1>5, <1>6 DEF W

WarmupBars(h, f) == h \cap ((f - Lookback)..f)

LEMMA PreloadedOK ==
  ASSUME NEW h \in SUBSET Nat, NEW f \in Nat, WindowBars(h, f) # {}
  PROVE  /\ WarmupBars(h, f) \in SUBSET Upto /\ WindowBars(h, f) \in SUBSET Upto
         /\ \A a \in WarmupBars(h, f) : \A b \in WindowBars(h, f) : a <= b
<1>1. f <= Final
  <2>1. PICK m \in h : m \in f..Final BY DEF WindowBars
  <2> QED BY <2>1, ChunkBounds
<1>2. \A a \in WarmupBars(h, f) : a \in Nat /\ a <= f BY DEF WarmupBars
<1>3. \A b \in WindowBars(h, f) : b \in Nat /\ f <= b /\ b <= Final BY DEF WindowBars
<1>4. \A a \in WarmupBars(h, f) : a \in Upto
  <2> SUFFICES ASSUME NEW a \in Nat, a <= f PROVE a \in Upto BY <1>2
  <2> QED BY <1>1, ChunkBounds DEF Upto
<1>5. \A a \in WarmupBars(h, f) : \A b \in WindowBars(h, f) : a <= b
  <2> SUFFICES ASSUME NEW a \in Nat, a <= f, NEW b \in Nat, f <= b PROVE a <= b BY <1>2, <1>3
  <2> QED OBVIOUS
<1>6. \A b \in WindowBars(h, f) : b \in Upto BY <1>3, ChunkBounds DEF Upto
<1> QED BY <1>4, <1>5, <1>6

LEMMA WholeStep ==
  ASSUME NEW h \in SUBSET Nat, NEW f \in Nat, WorkOK(Chunks(h, f), h, f), NEW given,
         SignalsOK(h, f, Chunks(h, f), given),
         NEW at, NEW noted, NEW store,
         ReaderOK(WarmupBars(h, f), WindowBars(h, f), at, noted, store),
         Left(WindowBars(h, f), at) # {},
         NEW e, NEW x, Compared(h, f, e) = Compared(h, f, x)
  PROVE  LET now == Min(Left(WindowBars(h, f), at))
             asks == Bucket(now - Window, Window) # noted
             st == Ingest(store, now, CsvRow)
             warm == Warm(st, WarmBars)
         IN /\ ReaderOK(WarmupBars(h, f), WindowBars(h, f), now,
                        IF asks THEN Bucket(now - Window, Window) ELSE noted, st)
            /\ Compared(h, f, e \cup (IF warm THEN {s \in given : s.at = now} ELSE {}))
                 = Compared(h, f, x \cup (IF asks /\ warm THEN {EntryIn(h, f, now)} ELSE {}))
<1> DEFINE W == WindowBars(h, f)
           P == WarmupBars(h, f)
           now == Min(Left(W, at))
           asks == Bucket(now - Window, Window) # noted
           st == Ingest(store, now, CsvRow)
           warm == Warm(st, WarmBars)
           marked == IF asks THEN Bucket(now - Window, Window) ELSE noted
           de == IF warm THEN {s \in given : s.at = now} ELSE {}
           dx == IF asks /\ warm THEN {EntryIn(h, f, now)} ELSE {}
<1>1. W # {} BY DEF Left
<1>2. P \in SUBSET Upto /\ W \in SUBSET Upto /\ \A a \in P : \A b \in W : a <= b
  BY <1>1, PreloadedOK
<1>3. ReaderOK(P, W, at, noted, store) /\ Left(W, at) # {} OBVIOUS
<1>4. \A b \in h : b \in W <=> f <= b /\ b <= Final BY ChunkBounds DEF WindowBars
<1>5. \A b \in h : b \in P <=> f - Lookback <= b /\ b <= f BY ChunkBounds DEF WarmupBars
<1> HIDE DEF W, P
<1>6. /\ now \in W /\ (asks <=> FirstIn(W, now)) /\ ReaderOK(P, W, now, marked, st)
      /\ CoveredIn(h, now) /\ h \cap ((now - Lookback)..now) \subseteq P \cup W => warm
  BY <1>2, <1>3, ReaderStep
<1> HIDE DEF now, asks, st, warm, marked
<1>7. h \cap ((now - Lookback)..now) \subseteq P \cup W
  <2> SUFFICES ASSUME NEW b \in h, b \in (now - Lookback)..now PROVE b \in P \cup W OBVIOUS
  <2>1. now \in h
    <3>1. now \in WindowBars(h, f) BY <1>6 DEF W
    <3> QED BY <3>1 DEF WindowBars
  <2>2. now \in Nat /\ b \in Nat /\ f <= now /\ now <= Final /\ now - Lookback <= b /\ b <= now
    <3>1. now \in Nat /\ b \in Nat BY <2>1
    <3>2. f <= now /\ now <= Final BY <1>4, <1>6, <2>1
    <3>3. now - Lookback <= b /\ b <= now BY <3>1, ChunkBounds
    <3> QED BY <3>1, <3>2, <3>3
  <2>3. f <= b \/ (f - Lookback <= b /\ b <= f) BY <2>2, ChunkBounds
  <2>4. b <= Final BY <2>2, ChunkBounds
  <2> QED BY <1>4, <1>5, <2>3, <2>4
<1>8. CoveredIn(h, now) /\ Aligned(h, f, now) => de = dx
  <2> SUFFICES ASSUME CoveredIn(h, now), Aligned(h, f, now) PROVE de = dx OBVIOUS
  <2>1. warm BY <1>6, <1>7
  <2>2. {s \in given : s.at = now} = IF FirstIn(W, now) THEN {EntryIn(h, f, now)} ELSE {}
    BY <1>6, GivenAt DEF W
  <2> QED BY <1>6, <2>1, <2>2
<1>9. \A s \in de \cup dx : s.at = now
  <2>1. EntryIn(h, f, now).at = now BY DEF EntryIn
  <2> QED BY <2>1
<1> HIDE DEF de, dx
<1> DEFINE u == e \cup de
           v == x \cup dx
<1>10. u = e \cup de /\ v = x \cup dx OBVIOUS
<1> HIDE DEF u, v
<1>11. Compared(h, f, u) = Compared(h, f, v)
  <2>1. /\ Compared(h, f, u) = Compared(h, f, e) \cup Compared(h, f, de)
        /\ Compared(h, f, v) = Compared(h, f, x) \cup Compared(h, f, dx)
    BY <1>10 DEF Compared
  <2>2. CASE CoveredIn(h, now) /\ Aligned(h, f, now)
    <3>1. de = dx BY <1>8, <2>2
    <3> QED BY <2>1, <3>1
  <2>3. CASE ~ (CoveredIn(h, now) /\ Aligned(h, f, now))
    <3>1. Compared(h, f, de) = {} /\ Compared(h, f, dx) = {} BY <1>9, <2>3 DEF Compared
    <3> QED BY <2>1, <3>1
  <2> QED BY <2>2, <2>3
<1> QED BY <1>6, <1>11 DEF u, v, de, dx, now, asks, st, warm, marked, W, P

(* The worker k, the replay, and what the two have in common.              *)
WorkerIs(k) ==
  WorkerOK(history, first, Chunks(history, first)[k],
           chunkAt[k], chunkRecorded[k], chunkStores[k], found[k])

ChunksInv ==
  /\ history \in SUBSET Nat /\ first \in Nat /\ WindowBars(history, first) # {}
  /\ WorkOK(Chunks(history, first), history, first)
  /\ DOMAIN chunkAt = DOMAIN Chunks(history, first)
  /\ DOMAIN chunkRecorded = DOMAIN Chunks(history, first)
  /\ DOMAIN chunkStores = DOMAIN Chunks(history, first)
  /\ DOMAIN found = DOMAIN Chunks(history, first)
  /\ \A k \in DOMAIN Chunks(history, first) : WorkerIs(k)
  /\ signals # NotYet => SignalsOK(history, first, Chunks(history, first), signals)
  /\ ReaderOK(WarmupBars(history, first), WindowBars(history, first), wholeAt, wholeRecorded, wholeStore)
  /\ Compared(history, first, entered) = Compared(history, first, expected)

LEMMA WindowHasBars ==
  ASSUME NEW h \in SUBSET Nat, NEW f \in Nat, Dates(h, f) # <<>>
  PROVE  WindowBars(h, f) # {}
<1> SUFFICES ASSUME WindowBars(h, f) = {} PROVE FALSE OBVIOUS
<1> DEFINE days == {Day(m) : m \in h \cap (f..Final)}
           n == Cardinality(days)
           ds == Dates(h, f)
<1>1. days = {} BY DEF WindowBars
<1>2. ds = CHOOSE s \in [1..n -> days] : \A i, j \in 1..n : i < j => s[i] < s[j] BY DEF Dates
<1>3. n = 0 /\ days \in SUBSET (0..Final)
  <2> HIDE DEF days
  <2> QED BY <1>1, FS_EmptySet
<1> HIDE DEF days, ds
<1>4. \E s \in [1..n -> days] : Increasing(s, n) BY <1>3, ChunkBounds, IncreasingExists
<1> HIDE DEF n
<1>5. ds \in [1..n -> days] BY <1>2, <1>4 DEF Increasing
<1>6. DatesOK(ds, h, f) BY DatesAre DEF ds
<1>7. ds \in Seq(Nat) /\ Len(ds) \in Nat \ {0} BY <1>6 DEF DatesOK
<1>8. DOMAIN ds = 1..0 BY <1>3, <1>5
<1>9. DOMAIN ds = 1..Len(ds) BY <1>7
<1>10. 1 \in 1..Len(ds) BY <1>7
<1> QED BY <1>8, <1>9, <1>10

LEMMA ReaderStarts ==
  ASSUME NEW warm \in SUBSET Upto, NEW S \in SUBSET Upto
  PROVE  ReaderOK(warm, S, -1, -1, Merge(NewStore, Rows(warm), {}))
<1>1. {b \in S : b <= -1} = {}
  <2>1. \A b \in S : b \in Nat BY ChunkBounds
  <2>2. \A b \in Nat : ~ (b <= -1) OBVIOUS
  <2> QED BY <2>1, <2>2
<1>2. Dispatched(warm, S, -1) = warm BY <1>1 DEF Dispatched
<1>3. KnowsRecent(Merge(NewStore, Rows(warm), {}), warm) BY MergeKnows
<1> QED BY <1>2, <1>3 DEF ReaderOK, RecordedAt

LEMMA ChunksInitInv == ChunksInit => ChunksInv
<1> SUFFICES ASSUME ChunksInit PROVE ChunksInv OBVIOUS
<1> DEFINE h == history
           f == first
           w == Chunks(h, f)
<1>1. /\ h \in SUBSET Nat /\ f \in Nat /\ Dates(h, f) # <<>>
  BY ChunkConstants DEF ChunksInit
<1>2. WorkOK(w, h, f) /\ WindowBars(h, f) # {} BY <1>1, ChunksWork, WindowHasBars
<1>3. /\ chunkStores = [k \in DOMAIN w |-> Merge(NewStore, Rows(w[k].warmup), {})]
      /\ chunkRecorded = [k \in DOMAIN w |-> -1] /\ chunkAt = [k \in DOMAIN w |-> -1]
      /\ found = [k \in DOMAIN w |-> {}] /\ signals = NotYet
      /\ wholeStore = Merge(NewStore, Rows(WarmupBars(h, f)), {})
      /\ wholeRecorded = -1 /\ wholeAt = -1 /\ entered = {} /\ expected = {}
  BY DEF ChunksInit, ChunkOf, WarmupBars
<1> HIDE DEF h, f, w
<1>4. ASSUME NEW k \in DOMAIN w PROVE WorkerOK(h, f, w[k], -1, -1, chunkStores[k], {})
  <2>1. ChunkOK(w[k], h, f) BY <1>2 DEF WorkOK
  <2>2. w[k].warmup \in SUBSET Upto /\ w[k].active \in SUBSET Upto
    BY <1>1, <2>1, LoadedUpto DEF ChunkOK
  <2>3. ReaderOK(w[k].warmup, w[k].active, -1, -1, chunkStores[k]) BY <1>3, <2>2, ReaderStarts
  <2>4. \A m \in w[k].active : ~ (m <= -1)
    <3>1. \A m \in w[k].active : m \in Nat BY <2>2, ChunkBounds
    <3>2. \A m \in Nat : ~ (m <= -1) OBVIOUS
    <3> QED BY <3>1, <3>2
  <2>5. AskedOK(h, f, w[k].active, -1, {}) BY <2>4 DEF AskedOK
  <2> QED BY <2>3, <2>5 DEF WorkerOK
<1>5. ReaderOK(WarmupBars(h, f), WindowBars(h, f), -1, -1, wholeStore)
  BY <1>1, <1>2, <1>3, PreloadedOK, ReaderStarts
<1>6. \A k \in DOMAIN w : WorkerIs(k) BY <1>3, <1>4 DEF WorkerIs, h, f, w
<1> QED BY <1>1, <1>2, <1>3, <1>5, <1>6 DEF ChunksInv, h, f, w

LEMMA ChunkBarStep ==
  ASSUME ChunksInv, NEW k \in DOMAIN ChunkOf, ChunkBar(k)
  PROVE  ChunksInv'
<1> DEFINE h == history
           f == first
           w == Chunks(h, f)
           c == w[k]
           at == chunkAt[k]
           noted == chunkRecorded[k]
           now == Min(Left(c.active, at))
           asks == Bucket(now - Window, Window) # noted
           st == Ingest(chunkStores[k], now, CsvRow)
           new == [at |-> now, view |-> View(ChunkSource(c), now, c.start - Lookback)]
           marked == IF asks THEN Bucket(now - Window, Window) ELSE noted
           more == found[k] \cup (IF asks /\ Warm(st, WarmBars) THEN {new} ELSE {})
<1>1. k \in DOMAIN w BY DEF ChunkOf
<1>2. /\ Left(c.active, at) # {}
      /\ chunkAt' = [chunkAt EXCEPT ![k] = now] /\ chunkStores' = [chunkStores EXCEPT ![k] = st]
      /\ chunkRecorded' = [chunkRecorded EXCEPT ![k] = marked]
      /\ found' = [found EXCEPT ![k] = more]
  BY DEF ChunkBar, ChunkOf, Left, ChunkAsks, ChunkCompleted, CsvRow
<1>3. UNCHANGED <<history, first, signals, wholeStore, wholeRecorded, wholeAt, entered, expected>>
  BY DEF ChunkBar
<1>4. WorkerOK(h, f, c, at, noted, chunkStores[k], found[k])
      /\ h \in SUBSET Nat /\ f \in Nat /\ WorkOK(w, h, f)
  BY <1>1 DEF ChunksInv, WorkerIs
<1>5. WorkerOK(h, f, c, now, marked, st, more)
  <2> DEFINE store == chunkStores[k]
             asked == found[k]
  <2>1. WorkerOK(h, f, c, at, noted, store, asked) /\ c = Chunks(h, f)[k] BY <1>4
  <2>2. st = Ingest(store, now, CsvRow)
        /\ more = asked \cup (IF asks /\ Warm(st, WarmBars) THEN {new} ELSE {})
    OBVIOUS
  <2> HIDE DEF h, f, c, at, noted, store, asked
  <2> QED BY <1>1, <1>2, <1>4, <2>1, WorkerStep DEF w
<1>6. /\ DOMAIN chunkAt = DOMAIN w /\ DOMAIN chunkRecorded = DOMAIN w
      /\ DOMAIN chunkStores = DOMAIN w /\ DOMAIN found = DOMAIN w
      /\ \A j \in DOMAIN w : WorkerOK(h, f, w[j], chunkAt[j], chunkRecorded[j], chunkStores[j], found[j])
  BY DEF ChunksInv, WorkerIs
<1>7. h' = h /\ f' = f /\ w' = w BY <1>3
<1> HIDE DEF now, st, marked, more
<1>8. /\ DOMAIN chunkAt' = DOMAIN w /\ DOMAIN chunkRecorded' = DOMAIN w
      /\ DOMAIN chunkStores' = DOMAIN w /\ DOMAIN found' = DOMAIN w
      /\ chunkAt'[k] = now /\ chunkRecorded'[k] = marked /\ chunkStores'[k] = st /\ found'[k] = more
      /\ \A j \in DOMAIN w \ {k} :
           /\ chunkAt'[j] = chunkAt[j] /\ chunkRecorded'[j] = chunkRecorded[j]
           /\ chunkStores'[j] = chunkStores[j] /\ found'[j] = found[j]
  BY <1>1, <1>2, <1>6
<1> HIDE DEF w
<1>9. ASSUME NEW j \in DOMAIN w
      PROVE  WorkerOK(h, f, w[j], chunkAt'[j], chunkRecorded'[j], chunkStores'[j], found'[j])
  <2>1. CASE j = k BY <1>5, <1>8, <2>1
  <2>2. CASE j # k BY <1>6, <1>8, <2>2
  <2> QED BY <2>1, <2>2
<1>10. \A j \in DOMAIN w : WorkerIs(j)' BY <1>3, <1>9 DEF WorkerIs, w
<1> QED BY <1>3, <1>7, <1>8, <1>10 DEF ChunksInv, w

LEMMA CollectStep == ASSUME ChunksInv, Collect PROVE ChunksInv'
<1> DEFINE h == history
           f == first
           w == Chunks(h, f)
<1>1. /\ signals' = Deduped
      /\ \A k \in DOMAIN w : \A m \in w[k].active : m <= chunkAt[k]
      /\ UNCHANGED <<history, first, chunkStores, chunkRecorded, chunkAt, found,
                     wholeStore, wholeRecorded, wholeAt, entered, expected>>
  BY DEF Collect, ChunkOf
<1>2. DOMAIN found = DOMAIN w BY DEF ChunksInv
<1>3. \A k \in DOMAIN w : AskedOK(h, f, w[k].active, chunkAt[k], found[k])
  BY DEF ChunksInv, WorkerIs, WorkerOK
<1> HIDE DEF h, f, w
<1>4. SignalsOK(h, f, w, Deduped)
  <2>1. ASSUME NEW s \in Deduped
        PROVE  \E k \in DOMAIN w : \E m \in w[k].active :
                 FirstIn(w[k].active, m) /\ s = EntryIn(h, f, m)
    <3>1. PICK k \in DOMAIN w : s \in found[k] BY <1>2 DEF Deduped
    <3> QED BY <1>3, <3>1 DEF AskedOK
  <2>2. ASSUME NEW k \in DOMAIN w, NEW m \in w[k].active,
               FirstIn(w[k].active, m), f <= m, CoveredIn(h, m)
        PROVE  EntryIn(h, f, m) \in Deduped
    <3>1. EntryIn(h, f, m) \in found[k] BY <1>1, <1>3, <2>2 DEF AskedOK
    <3> QED BY <1>2, <3>1 DEF Deduped
  <2> QED BY <2>1, <2>2 DEF SignalsOK
<1>5. SignalsOK(history, first, Chunks(history, first), signals')
  BY <1>1, <1>4 DEF h, f, w
<1>6. \A k : WorkerIs(k)' <=> WorkerIs(k) BY <1>1 DEF WorkerIs
<1> QED BY <1>1, <1>5, <1>6 DEF ChunksInv

LEMMA WholeBarStep == ASSUME ChunksInv, WholeBar PROVE ChunksInv'
<1> DEFINE h == history
           f == first
           W == WindowBars(h, f)
           now == Min(Left(W, wholeAt))
           asks == Bucket(now - Window, Window) # wholeRecorded
           st == Ingest(wholeStore, now, CsvRow)
           warm == Warm(st, WarmBars)
           marked == IF asks THEN Bucket(now - Window, Window) ELSE wholeRecorded
           de == IF warm THEN {s \in signals : s.at = now} ELSE {}
           dx == IF asks /\ warm THEN {EntryIn(h, f, now)} ELSE {}
<1>1. [at |-> now, view |-> View(WholeSource, now, From(now))] = EntryIn(h, f, now)
  <2> HIDE DEF now
  <2> QED BY EntryIs
<1>2. /\ signals # NotYet /\ Left(W, wholeAt) # {}
      /\ wholeAt' = now /\ wholeStore' = st /\ wholeRecorded' = marked
      /\ entered' = entered \cup de /\ expected' = expected \cup dx
  BY <1>1 DEF WholeBar, Left, WindowBars, WholeCompleted, CsvRow, SignalsAt
<1>3. UNCHANGED <<history, first, chunkStores, chunkRecorded, chunkAt, found, signals>>
  BY DEF WholeBar
<1>4. /\ h \in SUBSET Nat /\ f \in Nat /\ WorkOK(Chunks(h, f), h, f)
      /\ SignalsOK(h, f, Chunks(h, f), signals)
      /\ ReaderOK(WarmupBars(h, f), W, wholeAt, wholeRecorded, wholeStore)
      /\ Compared(h, f, entered) = Compared(h, f, expected)
  BY <1>2 DEF ChunksInv
<1>5. /\ ReaderOK(WarmupBars(h, f), W, now, marked, st)
      /\ Compared(h, f, entered \cup de) = Compared(h, f, expected \cup dx)
  <2> DEFINE given == signals
             at == wholeAt
             noted == wholeRecorded
             store == wholeStore
             e == entered
             x == expected
  <2> HIDE DEF h, f, given, at, noted, store, e, x
  <2>1. /\ SignalsOK(h, f, Chunks(h, f), given)
        /\ ReaderOK(WarmupBars(h, f), WindowBars(h, f), at, noted, store)
        /\ Compared(h, f, e) = Compared(h, f, x) /\ Left(WindowBars(h, f), at) # {}
    BY <1>2, <1>4 DEF given, at, noted, store, e, x
  <2>2. LET now1 == Min(Left(WindowBars(h, f), at))
            asks1 == Bucket(now1 - Window, Window) # noted
            st1 == Ingest(store, now1, CsvRow)
            warm1 == Warm(st1, WarmBars)
        IN /\ ReaderOK(WarmupBars(h, f), WindowBars(h, f), now1,
                       IF asks1 THEN Bucket(now1 - Window, Window) ELSE noted, st1)
           /\ Compared(h, f, e \cup (IF warm1 THEN {s \in given : s.at = now1} ELSE {}))
                = Compared(h, f, x \cup (IF asks1 /\ warm1 THEN {EntryIn(h, f, now1)} ELSE {}))
    BY <1>4, <2>1, WholeStep, SMTT(60)
  <2> QED BY <2>2 DEF given, at, noted, store, e, x
<1> HIDE DEF now, st, marked, de, dx
<1>6. \A k : WorkerIs(k)' <=> WorkerIs(k) BY <1>3 DEF WorkerIs
<1> QED BY <1>2, <1>3, <1>5, <1>6 DEF ChunksInv

LEMMA ChunksStep == ChunksInv /\ [ChunksNext]_chunkVars => ChunksInv'
<1> SUFFICES ASSUME ChunksInv, [ChunksNext]_chunkVars PROVE ChunksInv' OBVIOUS
<1>1. ASSUME NEW k \in DOMAIN ChunkOf, ChunkBar(k) PROVE ChunksInv' BY <1>1, ChunkBarStep
<1>2. CASE Collect BY <1>2, CollectStep
<1>3. CASE WholeBar BY <1>3, WholeBarStep
<1>4. CASE UNCHANGED chunkVars
  <2>1. \A k : WorkerIs(k)' <=> WorkerIs(k) BY <1>4 DEF WorkerIs, chunkVars
  <2> QED BY <1>4, <2>1 DEF ChunksInv, chunkVars
<1> QED BY <1>1, <1>2, <1>3, <1>4 DEF ChunksNext

LEMMA ComparedIs == ChunksInv => ChunksAsWhole
<1>1. \A es : Compared(history, first, es)
        = {s \in es : /\ Covered(s.at)
                      /\ Day(first) * DayLength # first
                           => s.at # Min(history \cap (first..Final))}
  BY DEF Compared, CoveredIn, Covered, Aligned, WindowBars
<1> QED BY <1>1 DEF ChunksInv, ChunksAsWhole

(* Splitting a backtest among workers changes nothing (ChunksAsWhole):     *)
(* each chunk starts with a session, so with a window, and with all of its *)
(* lookback, so that a worker asks on the bars on which the replay does,   *)
(* shows what it shows, and is warm where the lookback is.                  *)
THEOREM SplittingChangesNothing == ChunksSpec => []ChunksAsWhole
<1>1. ChunksInit => ChunksInv BY ChunksInitInv
<1>2. ChunksInv /\ [ChunksNext]_chunkVars => ChunksInv' BY ChunksStep
<1>3. ChunksInv => ChunksAsWhole BY ComparedIs
<1> QED BY <1>1, <1>2, <1>3, PTL DEF ChunksSpec

=============================================================================
