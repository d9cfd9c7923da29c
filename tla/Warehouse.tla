------------------------------ MODULE Warehouse ------------------------------
(***************************************************************************)
(* The data-warehouse process: the Redis worker thread that stamps a trade *)
(* and appends it to the in-memory store, the main thread that every       *)
(* interval rolls the store up into one file and uploads it, the local     *)
(* directory, the R2 bucket, and the two clocks (wall clock for stamps and *)
(* windows, steady clock for the interval).                                *)
(*                                                                         *)
(* What reaches the worker is decided by RedisSubscriber; here a trade     *)
(* simply arrives at some moment.  Wall time is counted in ticks, SecLen   *)
(* ticks to the second that names a file.                                  *)
(***************************************************************************)
EXTENDS Integers, Sequences

CONSTANTS
    Trades,       \* the trades that may arrive, each at most once
    None,         \* "no trade"
    SecLen,       \* ticks of the wall clock in one second
    Interval,     \* ticks between two rollups (cfg.interval)
    R2On,         \* credentials present: upload after writing
    Faults,       \* the faults the environment may produce, see FaultKinds
    MaxClock,     \* bound: the wall clock stops here
    MaxRestarts   \* bound: number of times the process is started

FaultKinds == {"clock",     \* the wall clock is set back
               "dir",       \* create_directories throws
               "parquet",   \* Arrow is not linked, or fails: CSV fallback
               "csv",       \* the CSV stream fails part way
               "put",       \* PutObject fails
               "crash"}     \* the process dies, or a handler throws

ASSUME WarehouseAssumption ==
    /\ None \notin Trades
    /\ SecLen \in Nat \ {0}
    /\ Interval \in Nat \ {0}
    /\ R2On \in BOOLEAN
    /\ Faults \subseteq FaultKinds
    /\ MaxClock \in Nat
    /\ MaxRestarts \in Nat

VARIABLES
    wall,        \* system_clock
    due,         \* steady ticks since next_tick was set, at most Interval
    mpc,         \* where the main thread is
    g_run,       \* cleared by SIGINT / SIGTERM
    last_until,  \* end of the previous window
    until,       \* end of the window being rolled up
    chan,        \* index of the next channel rollup_once queries
    all,         \* rows collected by the queries so far
    held,        \* row stamped by trade_to_row, not yet appended
    ts,          \* stamp of each trade, Unstamped before it arrives
    store,       \* rows in the in-memory store
    parquet,     \* rows readable in rollup-<second>.parquet
    csv,         \* rows readable in rollup-<second>.csv
    bucket,      \* rows readable in the uploaded object of that second
    reported,    \* the "r2 upload" lines printed, none is ever taken back
    restarts     \* number of starts so far

clockVars == <<wall, due>>
mainVars  == <<mpc, g_run, last_until, until, chan, all>>
rowVars   == <<held, ts, store>>
diskVars  == <<parquet, csv, bucket, reported>>
vars      == <<wall, due, mpc, g_run, last_until, until, chan, all, held, ts,
               store, parquet, csv, bucket, reported, restarts>>

Unstamped == -1
Seconds   == 0 .. MaxClock
Channels  == <<"trade", "book", "news", "dart">>
MainPCs   == {"down", "starting", "sleep", "query", "write", "upload",
              "report", "stopping", "joining"}

\* Inside rollup_once, before and after its file is written.
Filed   == {"upload", "report"}
Rolling == {"query", "write"} \cup Filed

\* "r2 upload <key> (<n> rows)"
Lines == [sec : Seconds, rows : SUBSET Trades]

\* The second a file is named after.
ymd_hms(t) == t \div SecLen

TypeOK ==
    /\ wall \in 0 .. MaxClock
    /\ due \in 0 .. Interval
    /\ mpc \in MainPCs
    /\ g_run \in BOOLEAN
    /\ last_until \in 0 .. MaxClock
    /\ until \in 0 .. MaxClock
    /\ chan \in 1 .. Len(Channels)
    /\ all \subseteq Trades
    /\ held \in Trades \cup {None}
    /\ ts \in [Trades -> (0 .. MaxClock) \cup {Unstamped}]
    /\ store \subseteq Trades
    /\ parquet \in [Seconds -> SUBSET Trades]
    /\ csv \in [Seconds -> SUBSET Trades]
    /\ bucket \in [Seconds -> SUBSET Trades]
    /\ reported \subseteq Lines
    /\ restarts \in 0 .. MaxRestarts

Init ==
    /\ wall \in 0 .. 1
    /\ wall <= MaxClock
    /\ due = 0
    /\ mpc = "down"
    /\ g_run = TRUE
    /\ last_until = 0
    /\ until = 0
    /\ chan = 1
    /\ all = {}
    /\ held = None
    /\ ts = [r \in Trades |-> Unstamped]
    /\ store = {}
    /\ parquet = [n \in Seconds |-> {}]
    /\ csv = [n \in Seconds |-> {}]
    /\ bucket = [n \in Seconds |-> {}]
    /\ reported = {}
    /\ restarts = 0

-----------------------------------------------------------------------------
(* Time.                                                                    *)

Tick ==
    /\ wall < MaxClock
    /\ wall' = wall + 1
    /\ due' = IF due < Interval THEN due + 1 ELSE due
    /\ UNCHANGED <<mainVars, rowVars, diskVars, restarts>>

\* system_clock may be set back; steady_clock may not.
StepBack ==
    /\ "clock" \in Faults
    /\ \E t \in 0 .. MaxClock : t < wall /\ wall' = t
    /\ UNCHANGED <<due, mainVars, rowVars, diskVars, restarts>>

-----------------------------------------------------------------------------
(* The worker thread: the handler main() installs on the subscriber.        *)

\* sub.start() comes before the loop and sub.stop() after it.  In "stopping"
\* the worker may still be blocked in redisGetReply and take one more message;
\* in "joining" it finishes the one it has.
AfterMessage == mpc' = IF mpc = "stopping" THEN "joining" ELSE mpc

trade_to_row(r) ==
    /\ mpc \notin {"down", "joining"}
    /\ held = None
    /\ ts[r] = Unstamped
    /\ ts' = [ts EXCEPT ![r] = wall]
    /\ held' = r
    /\ AfterMessage
    /\ UNCHANGED <<clockVars, g_run, last_until, until, chan, all, store,
                   diskVars, restarts>>

append ==
    /\ held # None
    /\ store' = store \cup {held}
    /\ held' = None
    /\ AfterMessage
    /\ UNCHANGED <<clockVars, g_run, last_until, until, chan, all, ts,
                   diskVars, restarts>>

-----------------------------------------------------------------------------
(* The main thread.                                                         *)

\* main() up to sub.start(): an empty store and a running worker, but no
\* last_until yet.
Start ==
    /\ mpc = "down"
    /\ restarts < MaxRestarts
    /\ restarts' = restarts + 1
    /\ mpc' = "starting"
    /\ g_run' = TRUE
    /\ UNCHANGED <<clockVars, last_until, until, chan, all, rowVars, diskVars>>

EnterLoop ==
    /\ mpc = "starting"
    /\ last_until' = wall
    /\ due' = 0
    /\ mpc' = IF g_run THEN "sleep" ELSE "stopping"
    /\ UNCHANGED <<wall, g_run, until, chan, all, rowVars, diskVars, restarts>>

Signal ==
    /\ mpc # "down"
    /\ g_run
    /\ g_run' = FALSE
    /\ UNCHANGED <<clockVars, mpc, last_until, until, chan, all, rowVars,
                   diskVars, restarts>>

\* last_until and next_tick move on, whatever became of the rollup.
\* (mutants) the window is kept; now_ns() instead of `until`; next_tick stays.
AdvanceKeep(u) == last_until' = last_until /\ due' = 0
AdvanceNow(u) == last_until' = wall /\ due' = 0
AdvanceDue(u) == last_until' = u /\ due' = due
Advance(u) == last_until' = u /\ due' = 0

\* The tail of the loop body and the test of g_run at the head of the next
\* round.
NextRound(u) ==
    /\ Advance(u)
    /\ all' = {}
    /\ chan' = 1
    /\ mpc' = IF g_run THEN "sleep" ELSE "stopping"

\* The sleep ends, the interval is over: fix the window and call rollup_once,
\* whose create_directories may throw.
BeginRollup ==
    /\ mpc = "sleep"
    /\ due = Interval
    /\ until' = wall
    /\ \/ /\ mpc' = "query"
          /\ UNCHANGED <<due, last_until, all, chan>>
       \/ /\ "dir" \in Faults
          /\ NextRound(wall)
    /\ UNCHANGED <<wall, g_run, rowVars, diskVars, restarts>>

\* The sleep ends before the interval does and the signal has come.
LeaveLoop ==
    /\ mpc = "sleep"
    /\ due < Interval
    /\ ~g_run
    /\ mpc' = "stopping"
    /\ UNCHANGED <<clockVars, g_run, last_until, until, chan, all, rowVars,
                   diskVars, restarts>>

\* (mutant) the upper bound is forgotten: "everything since".
querySince(ch, from, to) ==
    {r \in IF ch = "trade" THEN store ELSE {} : from <= ts[r]}

\* TimeSeriesStore::query.  Every row main() stores has channel "trade".
query(ch, from, to) ==
    {r \in IF ch = "trade" THEN store ELSE {} : from <= ts[r] /\ ts[r] <= to}

QueryChannel ==
    /\ mpc = "query"
    /\ LET rows == all \cup query(Channels[chan], last_until, until)
       IN  IF chan < Len(Channels)
           THEN /\ all' = rows
                /\ chan' = chan + 1
                /\ UNCHANGED <<mpc, last_until, due>>
           ELSE IF rows = {}
           THEN NextRound(until)
           ELSE /\ all' = rows
                /\ chan' = 1
                /\ mpc' = "write"
                /\ UNCHANGED <<last_until, due>>
    /\ UNCHANGED <<wall, g_run, until, rowVars, diskVars, restarts>>

AfterWrite ==
    IF R2On
    THEN mpc' = "upload" /\ UNCHANGED <<last_until, due, all, chan>>
    ELSE NextRound(until)

\* ParquetWriter::write, Arrow succeeding.
WriteParquet ==
    /\ mpc = "write"
    /\ parquet' = [parquet EXCEPT ![ymd_hms(until)] = all]
    /\ AfterWrite
    /\ UNCHANGED <<wall, g_run, until, rowVars, csv, bucket, reported,
                   restarts>>

\* write_csv_fallback: the Parquet file is left alone (not linked, table or
\* open failed) or truncated (WriteTable failed); the CSV stream is never
\* tested, so any part of the rows may be in the file.
WriteCsv ==
    /\ mpc = "write"
    /\ "parquet" \in Faults
    /\ \E p \in {parquet[ymd_hms(until)], {}},
          rows \in (IF "csv" \in Faults THEN SUBSET all ELSE {all}) :
          /\ parquet' = [parquet EXCEPT ![ymd_hms(until)] = p]
          /\ csv' = [csv EXCEPT ![ymd_hms(until)] = rows]
    /\ AfterWrite
    /\ UNCHANGED <<wall, g_run, until, rowVars, bucket, reported, restarts>>

\* What PutObject sends: all that can be read under the .parquet path, which
\* is nothing if the writer fell back to CSV.
Put == bucket' = [bucket EXCEPT ![ymd_hms(until)] = parquet[ymd_hms(until)]]

\* (mutant) the key is returned whether or not PutObject succeeded.
uploadBlind ==
    /\ mpc = "upload"
    /\ Put \/ ("put" \in Faults /\ UNCHANGED bucket)
    /\ mpc' = "report"
    /\ UNCHANGED <<clockVars, g_run, last_until, until, chan, all, rowVars,
                   parquet, csv, reported, restarts>>

\* R2Uploader::upload.  If it fails the object may be there all the same, the
\* answer being lost; rollup_once then goes on without the line.
upload ==
    /\ mpc = "upload"
    /\ \/ /\ Put
          /\ mpc' = "report"
          /\ UNCHANGED <<last_until, due, all, chan>>
       \/ /\ "put" \in Faults
          /\ Put \/ UNCHANGED bucket
          /\ NextRound(until)
    /\ UNCHANGED <<wall, g_run, until, rowVars, parquet, csv, reported,
                   restarts>>

\* The line speaks of the rows that were collected, whatever was sent.
report ==
    /\ mpc = "report"
    /\ reported' = reported \cup {[sec |-> ymd_hms(until), rows |-> all]}
    /\ NextRound(until)
    /\ UNCHANGED <<wall, g_run, until, rowVars, parquet, csv, bucket, restarts>>

\* sub.stop() has joined the worker; the store is gone with the process.
Exit ==
    /\ mpc \in {"stopping", "joining"}
    /\ held = None
    /\ mpc' = "down"
    /\ store' = {}
    /\ UNCHANGED <<clockVars, g_run, last_until, until, chan, all, held, ts,
                   diskVars, restarts>>

\* The process dies (SIGKILL, power, or std::stod throwing on the worker
\* thread); a Parquet file being written is left truncated.  (A CSV cut short
\* is WriteCsv, then this.)
Crash ==
    /\ "crash" \in Faults
    /\ mpc # "down"
    /\ mpc' = "down"
    /\ store' = {}
    /\ held' = None
    /\ all' = {}
    /\ chan' = 1
    /\ \/ UNCHANGED parquet
       \/ /\ mpc = "write"
          /\ parquet' = [parquet EXCEPT ![ymd_hms(until)] = {}]
    /\ UNCHANGED <<clockVars, g_run, last_until, until, ts, csv, bucket,
                   reported, restarts>>

-----------------------------------------------------------------------------

Next ==
    \/ Tick
    \/ StepBack
    \/ \E r \in Trades : trade_to_row(r)
    \/ append
    \/ Start
    \/ EnterLoop
    \/ Signal
    \/ BeginRollup
    \/ LeaveLoop
    \/ QueryChannel
    \/ WriteParquet
    \/ WriteCsv
    \/ upload
    \/ report
    \/ Exit
    \/ Crash

Spec == Init /\ [][Next]_vars

-----------------------------------------------------------------------------
(* What becomes of a trade.                                                 *)

ArchivedRows == UNION {parquet[n] \cup csv[n] : n \in Seconds}

\* Rows stamped before this are no longer collected by any query.
WindowStart ==
    IF (mpc = "query" /\ chan > 1) \/ mpc \in {"write"} \cup Filed
    THEN until
    ELSE last_until

\* The row is collected and not yet written, or a coming query finds it.
Recoverable(r) ==
    \/ mpc \in {"query", "write"} /\ r \in all
    \/ /\ r \in store \cup {held}
       /\ mpc = "starting" \/ ts[r] >= WindowStart

Phase(r) ==
    IF ts[r] = Unstamped THEN "expected"
    ELSE IF r \in ArchivedRows THEN "archived"
    ELSE IF Recoverable(r) THEN "recorded"
    ELSE "lost"

(* Every file ever written keeps its rows: no later rollup takes the name of
   an earlier one, so a row that is in some file stays in some file
   (rollup.cpp names files by the second and opens them for overwriting). *)
FilesDurable == [][ArchivedRows \subseteq ArchivedRows']_vars

\* The end of the last window that has a file, and the second it names.
LastEnd ==
    IF mpc \in {"down", "starting"} THEN wall
    ELSE IF mpc \in Filed THEN until
    ELSE last_until
NewestName == ymd_hms(LastEnd)

(* Why files are durable: windows follow one another at least an interval
   apart, across restarts too, and every file so far is named after a moment
   no later than the end of the last finished window. *)
WindowsAdvance ==
    /\ last_until <= wall
    /\ until <= wall
    /\ mpc \in {"sleep"} \cup Rolling => last_until + due <= wall
    /\ mpc \in Rolling => last_until + Interval <= until
    /\ \A n \in Seconds : parquet[n] \cup csv[n] # {} => n <= NewestName

(* Windows share their end points and nothing else: a row that is in two files
   was stamped in the very second that names the earlier one, so no row is in
   three (query's bounds are inclusive and last_until is reused). *)
DuplicateOnlyAtBoundary ==
    \A r \in Trades : \A m, n \in Seconds :
        /\ m < n
        /\ r \in parquet[m] \cup csv[m]
        /\ r \in parquet[n] \cup csv[n]
        => ymd_hms(ts[r]) = m

(* The only ways to lose a trade that was recorded: its stamp was taken before
   the window closed but its append came after the query; it was appended
   before main() first set last_until; the process ended; or the window's own
   rollup failed.  Nothing else in the loop skips a row. *)
LossHasACause(r) ==
    \/ r = held
    \/ mpc = "starting"
    \/ mpc' = "down"
    \/ "csv" \in Faults /\ mpc = "write"
    \/ "dir" \in Faults /\ mpc = "sleep" /\ due = Interval
OnlyKnownLosses ==
    [][\A r \in Trades :
          Phase(r) = "recorded" /\ Phase(r)' = "lost" => LossHasACause(r)]_vars

(* The fate of a trade is final: in TradeArchive a trade in a file stays there
   and a trade once missed never turns up in a later file. *)
Archive == INSTANCE TradeArchive WITH phase <- [r \in Trades |-> Phase(r)]
ImplementsArchive == Archive!Spec

(* How far a line "r2 upload <key> (<n> rows)" of rollup.cpp can be trusted,
   ever after it was printed: the object of its key holds exactly the rows it
   speaks of, later rollups, failed uploads, crashes and restarts
   notwithstanding; or the object is empty, and then no Parquet file of that
   second has rows either, the writer having fallen back to CSV (the upload
   sends the .parquet path all the same).  An object with other rows, or with
   a part of them, is never reported. *)
ReportedIsUploaded ==
    \A l \in reported :
        \/ bucket[l.sec] = l.rows
        \/ bucket[l.sec] = {} /\ parquet[l.sec] = {}

(* "Drains rows newer than the previous rollup" (rollup.hpp:25): when a rollup
   is over, no row of the store newer than the previous rollup and older than
   this one is left out of the files. *)
NothingLeftBehind ==
    [][(mpc \in Rolling /\ mpc' = "sleep") =>
          \A r \in store' :
              last_until < ts[r] /\ ts[r] < last_until' =>
                  r \in ArchivedRows']_vars

(* However the wall clock is set, a file holds no row stamped after the second
   it is named for (until is read once, before the queries, and bounds every
   one of them). *)
FilesHoldThePast ==
    \A n \in Seconds : \A r \in parquet[n] \cup csv[n] : ymd_hms(ts[r]) <= n

=============================================================================
