--------------------------- MODULE WarehouseProofs ---------------------------
(***************************************************************************)
(* Theorems about Warehouse, for any set of trades, any interval, any      *)
(* length of a second and any combination of faults.                       *)
(***************************************************************************)
EXTENDS Warehouse, TLAPS

USE DEF Rolling, Filed

(* A second is named by a natural number no larger than the clock, and the
   name never decreases with the clock. *)
LEMMA SecondType ==
    ASSUME NEW t \in Nat
    PROVE  ymd_hms(t) \in Nat /\ ymd_hms(t) <= t
BY WarehouseAssumption DEF ymd_hms

LEMMA SecondMonotone ==
    ASSUME NEW t \in Nat, NEW u \in Nat, t <= u
    PROVE  ymd_hms(t) <= ymd_hms(u)
BY WarehouseAssumption DEF ymd_hms

(* Two moments at least one second apart have different names. *)
LEMMA SecondDistinct ==
    ASSUME NEW t \in Nat, NEW u \in Nat, t + SecLen <= u
    PROVE  ymd_hms(t) < ymd_hms(u)
BY WarehouseAssumption DEF ymd_hms

-----------------------------------------------------------------------------
(* Types.                                                                   *)

LEMMA QueryType ==
    ASSUME TypeOK, NEW ch, NEW from, NEW to
    PROVE  query(ch, from, to) \subseteq store
BY DEF query

LEMMA NextRoundType ==
    ASSUME TypeOK, NEW u \in 0 .. MaxClock, NextRound(u)
    PROVE  /\ last_until' \in 0 .. MaxClock
           /\ due' \in 0 .. Interval
           /\ all' \subseteq Trades
           /\ chan' \in 1 .. Len(Channels)
           /\ mpc' \in MainPCs
BY WarehouseAssumption DEF NextRound, Advance, MainPCs, Channels

LEMMA AfterWriteType ==
    ASSUME TypeOK, AfterWrite, mpc = "write"
    PROVE  /\ last_until' \in 0 .. MaxClock
           /\ due' \in 0 .. Interval
           /\ all' \subseteq Trades
           /\ chan' \in 1 .. Len(Channels)
           /\ mpc' \in MainPCs
<1>1. until \in 0 .. MaxClock
    BY DEF TypeOK
<1>2. QED
    BY <1>1, NextRoundType DEF AfterWrite, TypeOK, MainPCs

LEMMA InitTypeOK == Init => TypeOK
BY WarehouseAssumption
   DEF Init, TypeOK, MainPCs, Channels, Unstamped

LEMMA NextTypeOK == TypeOK /\ [Next]_vars => TypeOK'
<1> SUFFICES ASSUME TypeOK, [Next]_vars PROVE TypeOK'
    OBVIOUS
<1> USE WarehouseAssumption
<1>1. CASE Tick
    BY <1>1 DEF Tick, TypeOK, mainVars, rowVars, diskVars
<1>2. CASE StepBack
    BY <1>2 DEF StepBack, TypeOK, mainVars, rowVars, diskVars
<1>3. ASSUME NEW r \in Trades, trade_to_row(r) PROVE TypeOK'
    BY <1>3 DEF trade_to_row, AfterMessage, TypeOK, MainPCs, clockVars,
                diskVars
<1>4. CASE append
    BY <1>4 DEF append, AfterMessage, TypeOK, MainPCs, clockVars, diskVars
<1>5. CASE Start
    BY <1>5 DEF Start, TypeOK, MainPCs, clockVars, rowVars, diskVars
<1>6. CASE EnterLoop
    BY <1>6 DEF EnterLoop, TypeOK, MainPCs, rowVars, diskVars
<1>7. CASE Signal
    BY <1>7 DEF Signal, TypeOK, clockVars, rowVars, diskVars
<1>8. CASE BeginRollup
    <2>1. wall \in 0 .. MaxClock
        BY DEF TypeOK
    <2>2. CASE mpc' = "query" /\ UNCHANGED <<due, last_until, all, chan>>
        BY <1>8, <2>1, <2>2 DEF BeginRollup, TypeOK, MainPCs, rowVars, diskVars
    <2>3. CASE NextRound(wall)
        BY <1>8, <2>1, <2>3, NextRoundType
           DEF BeginRollup, TypeOK, rowVars, diskVars
    <2>4. QED
        BY <1>8, <2>2, <2>3 DEF BeginRollup
<1>9. CASE LeaveLoop
    BY <1>9 DEF LeaveLoop, TypeOK, MainPCs, clockVars, rowVars, diskVars
<1>10. CASE QueryChannel
    <2> DEFINE rows == all \cup query(Channels[chan], last_until, until)
    <2>1. rows \subseteq Trades /\ until \in 0 .. MaxClock
        BY QueryType DEF TypeOK
    <2>2. Len(Channels) = 4
        BY DEF Channels
    <2>3. CASE /\ chan < Len(Channels)
               /\ all' = rows
               /\ chan' = chan + 1
               /\ UNCHANGED <<mpc, last_until, due>>
        BY <1>10, <2>1, <2>2, <2>3
           DEF QueryChannel, TypeOK, rowVars, diskVars
    <2>4. CASE NextRound(until)
        BY <1>10, <2>1, <2>4, NextRoundType
           DEF QueryChannel, TypeOK, rowVars, diskVars
    <2>5. CASE /\ mpc' = "write"
               /\ all' = rows
               /\ chan' = 1
               /\ UNCHANGED <<last_until, due>>
        BY <1>10, <2>1, <2>2, <2>5
           DEF QueryChannel, TypeOK, MainPCs, rowVars, diskVars
    <2>6. QED
        BY <1>10, <2>3, <2>4, <2>5 DEF QueryChannel
<1>11. CASE WriteParquet
    <2>1. parquet' \in [Seconds -> SUBSET Trades]
        BY <1>11 DEF WriteParquet, TypeOK
    <2>2. QED
        BY <1>11, <2>1, AfterWriteType DEF WriteParquet, TypeOK, rowVars
<1>12. CASE WriteCsv
    <2>1. PICK p \in {parquet[ymd_hms(until)], {}},
               rows \in (IF "csv" \in Faults THEN SUBSET all ELSE {all}) :
               /\ parquet' = [parquet EXCEPT ![ymd_hms(until)] = p]
               /\ csv' = [csv EXCEPT ![ymd_hms(until)] = rows]
        BY <1>12 DEF WriteCsv
    <2>2. rows \subseteq Trades
        BY DEF TypeOK
    <2>3. /\ parquet' \in [Seconds -> SUBSET Trades]
          /\ csv' \in [Seconds -> SUBSET Trades]
        BY <2>1, <2>2 DEF TypeOK
    <2>4. QED
        BY <1>12, <2>3, AfterWriteType DEF WriteCsv, TypeOK, rowVars
<1>13. CASE upload
    <2>1. bucket' \in [Seconds -> SUBSET Trades]
        BY <1>13 DEF upload, Put, TypeOK
    <2>2. until \in 0 .. MaxClock
        BY DEF TypeOK
    <2>3. CASE mpc' = "report" /\ UNCHANGED <<last_until, due, all, chan>>
        BY <1>13, <2>1, <2>3 DEF upload, TypeOK, MainPCs, rowVars
    <2>4. CASE NextRound(until)
        BY <1>13, <2>1, <2>2, <2>4, NextRoundType DEF upload, TypeOK, rowVars
    <2>5. QED
        BY <1>13, <2>3, <2>4 DEF upload
<1>18. CASE report
    <2>1. until \in 0 .. MaxClock /\ ymd_hms(until) \in Seconds
        <3>1. until \in Nat /\ until <= MaxClock
            BY DEF TypeOK
        <3>2. QED
            BY <3>1, SecondType DEF Seconds
    <2>2. reported' \subseteq Lines
        BY <1>18, <2>1 DEF report, TypeOK, Lines
    <2>3. QED
        BY <1>18, <2>1, <2>2, NextRoundType DEF report, TypeOK, rowVars
<1>14. CASE Exit
    BY <1>14 DEF Exit, TypeOK, MainPCs, clockVars, diskVars
<1>15. CASE Crash
    <2>1. parquet' \in [Seconds -> SUBSET Trades]
        BY <1>15 DEF Crash, TypeOK
    <2>2. QED
        BY <1>15, <2>1 DEF Crash, TypeOK, MainPCs, Channels, clockVars
<1>16. CASE UNCHANGED vars
    BY <1>16 DEF vars, TypeOK
<1>17. QED
    BY <1>1, <1>2, <1>3, <1>4, <1>5, <1>6, <1>7, <1>8, <1>9, <1>10, <1>11,
       <1>12, <1>13, <1>14, <1>15, <1>16, <1>18 DEF Next

(* Every variable of the warehouse stays within its type, whatever faults
   the environment produces. *)
THEOREM TypeCorrect == Spec => []TypeOK
BY InitTypeOK, NextTypeOK, PTL DEF Spec

-----------------------------------------------------------------------------
(* Durability.  A file is named after the second of `until`.  Windows are at *)
(* least an interval long and an interval at least a second, so the name is  *)
(* new: no file is ever overwritten.                                         *)

MonotoneClock == "clock" \notin Faults
LongInterval  == SecLen <= Interval

FileInv == TypeOK /\ WindowsAdvance

LEMMA InitFileInv == Init => FileInv
<1>1. Init => TypeOK
    BY InitTypeOK
<1>2. Init => WindowsAdvance
    BY WarehouseAssumption DEF Init, WindowsAdvance
<1>3. QED
    BY <1>1, <1>2 DEF FileInv

(* The end of a rollup, with or without a file, moves the window on. *)
LEMMA NextRoundAdvances ==
    ASSUME FileInv, NextRound(until), mpc \in Rolling,
           UNCHANGED <<wall, until>>,
           NEW files \in SUBSET Seconds,
           \A n \in files : n <= NewestName \/ n = ymd_hms(until),
           \A n \in Seconds : parquet'[n] \cup csv'[n] # {} => n \in files
    PROVE  WindowsAdvance'
<1>1. /\ wall \in Nat /\ until \in Nat /\ last_until \in Nat
      /\ until <= wall /\ last_until <= until
    BY WarehouseAssumption DEF FileInv, TypeOK, WindowsAdvance
<1>2. /\ last_until' = until /\ due' = 0 /\ mpc' \in {"sleep", "stopping"}
    BY DEF NextRound, Advance
<1>3. NewestName' = ymd_hms(until)
    BY <1>2 DEF NewestName, LastEnd, ymd_hms
<1>4. NewestName <= ymd_hms(until)
    BY <1>1, SecondMonotone, SecondType DEF NewestName, LastEnd
<1>5. \A n \in Seconds : parquet'[n] \cup csv'[n] # {} => n <= NewestName'
    BY <1>1, <1>3, <1>4, SecondType DEF Seconds, NewestName, LastEnd
<1>6. QED
    BY <1>1, <1>2, <1>5 DEF WindowsAdvance

LEMMA NextFileInv ==
    ASSUME MonotoneClock
    PROVE  FileInv /\ [Next]_vars => FileInv'
<1> SUFFICES ASSUME FileInv, [Next]_vars PROVE WindowsAdvance'
    BY NextTypeOK DEF FileInv
<1> USE WarehouseAssumption
<1> TypeOK /\ TypeOK'
    BY NextTypeOK DEF FileInv
<1>t. /\ wall \in Nat /\ until \in Nat /\ last_until \in Nat /\ due \in Nat
      /\ wall' \in Nat
    BY DEF TypeOK
<1>1. CASE Tick
    <2>1. NewestName <= NewestName'
        BY <1>1, <1>t, SecondMonotone, SecondType
           DEF Tick, mainVars, NewestName, LastEnd
    <2>2. NewestName \in Nat /\ NewestName' \in Nat
        BY <1>1, <1>t, SecondType DEF Tick, mainVars, NewestName, LastEnd
    <2>3. QED
        BY <1>1, <1>t, <2>1, <2>2
           DEF Tick, FileInv, WindowsAdvance, mainVars, diskVars, Seconds
<1>2. CASE StepBack
    BY <1>2 DEF StepBack, MonotoneClock
<1>3. ASSUME NEW r \in Trades, trade_to_row(r) PROVE WindowsAdvance'
    BY <1>3 DEF trade_to_row, AfterMessage, FileInv, WindowsAdvance,
                NewestName, LastEnd, ymd_hms, clockVars, diskVars
<1>4. CASE append
    BY <1>4 DEF append, AfterMessage, FileInv, WindowsAdvance,
                NewestName, LastEnd, ymd_hms, clockVars, diskVars
<1>5. CASE Start
    BY <1>5 DEF Start, FileInv, WindowsAdvance, NewestName, LastEnd, ymd_hms,
                clockVars, rowVars, diskVars
<1>6. CASE EnterLoop
    BY <1>6, <1>t DEF EnterLoop, FileInv, WindowsAdvance, NewestName, LastEnd, ymd_hms,
                rowVars, diskVars
<1>7. CASE Signal
    BY <1>7 DEF Signal, FileInv, WindowsAdvance, NewestName, LastEnd, ymd_hms,
                clockVars, diskVars
<1>8. CASE BeginRollup
    <2>1. last_until + Interval <= wall
        BY <1>8 DEF BeginRollup, FileInv, WindowsAdvance
    <2>2. CASE mpc' = "query" /\ UNCHANGED <<due, last_until, all, chan>>
        BY <1>8, <1>t, <2>1, <2>2
           DEF BeginRollup, FileInv, WindowsAdvance, NewestName, LastEnd, ymd_hms,
               diskVars
    <2>3. CASE NextRound(wall)
        <3>1. NewestName' = ymd_hms(wall) /\ NewestName = ymd_hms(last_until)
            BY <1>8, <2>3 DEF BeginRollup, NextRound, Advance, NewestName, LastEnd, ymd_hms
        <3>2. NewestName \in Nat /\ NewestName' \in Nat
              /\ NewestName <= NewestName'
            BY <1>t, <2>1, <3>1, SecondMonotone, SecondType
        <3>3. QED
            BY <1>8, <1>t, <2>1, <2>3, <3>2
               DEF BeginRollup, NextRound, Advance, FileInv, WindowsAdvance, diskVars,
                   Seconds
    <2>4. QED
        BY <1>8, <2>2, <2>3 DEF BeginRollup
<1>9. CASE LeaveLoop
    BY <1>9 DEF LeaveLoop, FileInv, WindowsAdvance, NewestName, LastEnd, ymd_hms,
                clockVars, diskVars
<1>f. DEFINE files == {n \in Seconds : n <= NewestName \/ n = ymd_hms(until)}
<1>g. /\ files \in SUBSET Seconds
      /\ \A n \in files : n <= NewestName \/ n = ymd_hms(until)
    OBVIOUS
<1>h. \A n \in Seconds : parquet[n] \cup csv[n] # {} => n \in files
    BY DEF FileInv, WindowsAdvance
<1>10. CASE QueryChannel
    <2>1. CASE NextRound(until)
        <3>1. UNCHANGED <<wall, until, parquet, csv>> /\ mpc = "query"
            BY <1>10 DEF QueryChannel, diskVars
        <3>2. \A n \in Seconds : parquet'[n] \cup csv'[n] # {} => n \in files
            BY <1>h, <3>1
        <3> HIDE DEF files
        <3>3. QED
            BY <1>g, <2>1, <3>1, <3>2, NextRoundAdvances
    <2>2. CASE mpc' \in {"query", "write"} /\ UNCHANGED <<last_until, due>>
        BY <1>10, <2>2
           DEF QueryChannel, FileInv, WindowsAdvance, NewestName, LastEnd, ymd_hms,
               diskVars
    <2>3. QED
        BY <1>10, <2>1, <2>2 DEF QueryChannel
<1>11. ASSUME WriteParquet \/ WriteCsv PROVE WindowsAdvance'
    <2>1. /\ UNCHANGED <<wall, until>> /\ mpc = "write" /\ AfterWrite
        BY <1>11 DEF WriteParquet, WriteCsv
    <2>2. \A n \in Seconds : n # ymd_hms(until) =>
              parquet'[n] = parquet[n] /\ csv'[n] = csv[n]
        BY <1>11 DEF WriteParquet, WriteCsv, TypeOK
    <2>3. \A n \in Seconds : parquet'[n] \cup csv'[n] # {} => n \in files
        BY <1>h, <2>2
    <2> HIDE DEF files
    <2>4. CASE NextRound(until)
        BY <1>g, <2>1, <2>3, <2>4, NextRoundAdvances
    <2>5. CASE mpc' = "upload" /\ UNCHANGED <<last_until, due>>
        <3>1. NewestName = ymd_hms(last_until) /\ NewestName' = ymd_hms(until)
            BY <2>1, <2>5 DEF NewestName, LastEnd, ymd_hms
        <3>2. last_until <= until /\ until <= wall
            BY <1>t, <2>1 DEF FileInv, WindowsAdvance
        <3>3. NewestName <= NewestName' /\ NewestName \in Nat
              /\ NewestName' \in Nat
            BY <1>t, <3>1, <3>2, SecondMonotone, SecondType
        <3>4. \A n \in Seconds :
                  parquet'[n] \cup csv'[n] # {} => n <= NewestName'
            BY <2>3, <3>1, <3>3 DEF files, Seconds
        <3>5. QED
            BY <1>t, <2>1, <2>5, <3>4 DEF FileInv, WindowsAdvance
    <2>6. QED
        BY <2>1, <2>4, <2>5 DEF AfterWrite
<1>13. CASE upload \/ report
    <2>1. UNCHANGED <<wall, until, parquet, csv>> /\ mpc \in Filed
        BY <1>13 DEF upload, report
    <2>2. \A n \in Seconds : parquet'[n] \cup csv'[n] # {} => n \in files
        BY <1>h, <2>1
    <2> HIDE DEF files
    <2>3. CASE NextRound(until)
        BY <1>g, <2>1, <2>2, <2>3, NextRoundAdvances
    <2>4. CASE mpc' = "report" /\ UNCHANGED <<last_until, due>>
        BY <2>1, <2>4 DEF FileInv, WindowsAdvance, NewestName, LastEnd, ymd_hms
    <2>5. QED
        BY <1>13, <2>3, <2>4 DEF upload, report
<1>14. ASSUME Exit \/ Crash PROVE WindowsAdvance'
    <2>1. /\ mpc' = "down" /\ UNCHANGED <<wall, until, last_until, due, csv>>
          /\ \A n \in Seconds : parquet'[n] \subseteq parquet[n]
        BY <1>14 DEF Exit, Crash, clockVars, diskVars, TypeOK
    <2>2. NewestName' = ymd_hms(wall)
        BY <2>1 DEF NewestName, LastEnd, ymd_hms
    <2>3. until <= wall /\ last_until <= wall
        BY DEF FileInv, WindowsAdvance
    <2>4. NewestName <= ymd_hms(wall)
        BY <1>t, <2>3, SecondMonotone, SecondType DEF NewestName, LastEnd
    <2>5. NewestName \in Nat /\ ymd_hms(wall) \in Nat
        BY <1>t, SecondType DEF NewestName, LastEnd
    <2>6. \A n \in Seconds : parquet'[n] \cup csv'[n] # {} => n <= NewestName'
        BY <2>1, <2>2, <2>4, <2>5 DEF FileInv, WindowsAdvance, Seconds
    <2>7. QED
        BY <2>1, <2>3, <2>6 DEF WindowsAdvance
<1>15. CASE UNCHANGED vars
    BY <1>15 DEF vars, FileInv, WindowsAdvance, NewestName, LastEnd, ymd_hms
<1>16. QED
    BY <1>1, <1>2, <1>3, <1>4, <1>5, <1>6, <1>7, <1>8, <1>9, <1>10, <1>11,
       <1>13, <1>14, <1>15 DEF Next

LEMMA FileInvariant ==
    ASSUME MonotoneClock
    PROVE  Spec => []FileInv
BY InitFileInv, NextFileInv, PTL DEF Spec

(* The file about to be written does not exist yet. *)
LEMMA NameIsNew ==
    ASSUME LongInterval, FileInv, mpc = "write"
    PROVE  parquet[ymd_hms(until)] = {} /\ csv[ymd_hms(until)] = {}
<1>1. /\ until \in Nat /\ last_until \in Nat /\ until <= MaxClock
      /\ last_until + SecLen <= until
    BY WarehouseAssumption DEF FileInv, TypeOK, WindowsAdvance, LongInterval
<1>2. ymd_hms(last_until) < ymd_hms(until) /\ ymd_hms(until) \in Seconds
    BY <1>1, SecondDistinct, SecondType, WarehouseAssumption DEF Seconds
<1>3. ymd_hms(last_until) \in Nat /\ ymd_hms(until) \in Nat
    BY <1>1, SecondType
<1>4. ~(ymd_hms(until) <= NewestName)
    BY <1>2, <1>3 DEF NewestName, LastEnd
<1>5. QED
    BY <1>2, <1>4 DEF FileInv, WindowsAdvance

LEMMA StepKeepsFiles ==
    ASSUME LongInterval, FileInv, [Next]_vars
    PROVE  ArchivedRows \subseteq ArchivedRows'
<1>1. SUFFICES ASSUME NEW n \in Seconds
               PROVE  parquet[n] \cup csv[n] \subseteq parquet'[n] \cup csv'[n]
    BY DEF ArchivedRows
<1>2. CASE UNCHANGED <<parquet, csv>>
    BY <1>2
<1>3. CASE mpc = "write" /\ \A k \in Seconds : k # ymd_hms(until) =>
                                parquet'[k] = parquet[k] /\ csv'[k] = csv[k]
    BY <1>3, NameIsNew
<1>4. ASSUME WriteParquet \/ WriteCsv
      PROVE  mpc = "write" /\ \A k \in Seconds : k # ymd_hms(until) =>
                                parquet'[k] = parquet[k] /\ csv'[k] = csv[k]
    BY <1>4 DEF WriteParquet, WriteCsv, FileInv, TypeOK
<1>5. ASSUME Crash
      PROVE  \/ UNCHANGED <<parquet, csv>>
             \/ mpc = "write" /\ \A k \in Seconds : k # ymd_hms(until) =>
                                parquet'[k] = parquet[k] /\ csv'[k] = csv[k]
    BY <1>5 DEF Crash, FileInv, TypeOK
<1>6. QED
    BY <1>2, <1>3, <1>4, <1>5
       DEF Next, vars, Tick, StepBack, trade_to_row, append, Start, EnterLoop,
           Signal, BeginRollup, LeaveLoop, QueryChannel, upload, report, Exit, diskVars

(* With a wall clock that is never set back and an interval of at least one
   second, a row that has reached a file stays in a file: no rollup, crash or
   restart overwrites an earlier file with rows in it. *)
THEOREM FilesAreDurable ==
    ASSUME MonotoneClock, LongInterval
    PROVE  Spec => FilesDurable
<1>1. FileInv /\ [Next]_vars => [ArchivedRows \subseteq ArchivedRows']_vars
    BY StepKeepsFiles
<1>2. Spec => []FileInv
    BY FileInvariant
<1>3. QED
    BY <1>1, <1>2, PTL DEF Spec, FilesDurable

-----------------------------------------------------------------------------
(* Duplicates.  Every row in a file is stamped no later than the end of the  *)
(* window of that file, every row being collected no earlier than the end of *)
(* the window before; only a stamp equal to both ends can be in two files.   *)

FileRows(n) == parquet[n] \cup csv[n]

RowInv ==
    /\ mpc \notin Rolling => all = {}
    /\ \A r \in all : last_until <= ts[r] /\ ts[r] <= until
    /\ \A n \in Seconds : \A r \in FileRows(n) :
          ts[r] # Unstamped /\ ts[r] <= LastEnd /\ ymd_hms(ts[r]) <= n
    /\ DuplicateOnlyAtBoundary

LEMMA InitRowInv == Init => RowInv
BY WarehouseAssumption DEF Init, RowInv, FileRows, DuplicateOnlyAtBoundary

(* A step that leaves the files and the stamps of their rows alone keeps the
   last two conjuncts. *)
LEMMA FilesUnchanged ==
    ASSUME TypeOK, TypeOK', RowInv, UNCHANGED <<parquet, csv>>,
           LastEnd <= LastEnd', LastEnd \in Nat, LastEnd' \in Nat,
           \A r \in Trades : ts[r] # Unstamped => ts'[r] = ts[r]
    PROVE  /\ \A n \in Seconds : \A r \in FileRows(n)' :
                 ts'[r] # Unstamped /\ ts'[r] <= LastEnd' /\ ymd_hms(ts'[r]) <= n
           /\ DuplicateOnlyAtBoundary'
<1>1. \A n \in Seconds : FileRows(n)' = FileRows(n) /\ FileRows(n) \subseteq Trades
    BY DEF FileRows, TypeOK
<1>2. \A n \in Seconds : \A r \in FileRows(n) : ts'[r] = ts[r]
    BY <1>1 DEF RowInv
<1>3. \A n \in Seconds : \A r \in FileRows(n) : ts[r] \in Nat
    BY <1>1, WarehouseAssumption DEF RowInv, TypeOK, Unstamped
<1>4. \A n \in Seconds : \A r \in FileRows(n)' :
          ts'[r] # Unstamped /\ ts'[r] <= LastEnd' /\ ymd_hms(ts'[r]) <= n
    BY <1>1, <1>2, <1>3 DEF RowInv, ymd_hms
<1>5. DuplicateOnlyAtBoundary'
    BY <1>1, <1>2 DEF RowInv, DuplicateOnlyAtBoundary, FileRows, ymd_hms
<1>6. QED
    BY <1>4, <1>5

(* Writing the file of [last_until, until]. *)
LEMMA WriteKeepsRowInv ==
    ASSUME FileInv, TypeOK', RowInv, WriteParquet \/ WriteCsv
    PROVE  RowInv'
<1>t. /\ wall \in Nat /\ until \in Nat /\ last_until \in Nat
      /\ last_until <= until /\ until <= MaxClock /\ ymd_hms(until) \in Seconds
      /\ all \subseteq Trades
    <2>1. mpc = "write"
        BY DEF WriteParquet, WriteCsv
    <2>2. /\ wall \in Nat /\ until \in Nat /\ last_until \in Nat
          /\ last_until <= until /\ until <= MaxClock /\ all \subseteq Trades
        BY <2>1, WarehouseAssumption DEF FileInv, TypeOK, WindowsAdvance
    <2>3. QED
        BY <2>2, SecondType, WarehouseAssumption DEF Seconds
<1>1. /\ mpc = "write" /\ UNCHANGED <<wall, until, ts>> /\ AfterWrite
    BY DEF WriteParquet, WriteCsv, rowVars
<1>2. \A n \in Seconds : n # ymd_hms(until) => FileRows(n)' = FileRows(n)
    BY DEF WriteParquet, WriteCsv, FileRows, FileInv, TypeOK
<1>3. \A n \in Seconds : FileRows(n)' \subseteq FileRows(n) \cup all
    BY <1>2, <1>t DEF WriteParquet, WriteCsv, FileRows, FileInv, TypeOK
<1>4. LastEnd = last_until /\ LastEnd' = until
    BY <1>1 DEF LastEnd, AfterWrite, NextRound, Advance
<1>5. \A r \in all : /\ ts[r] \in Nat /\ last_until <= ts[r] /\ ts[r] <= until
                     /\ ymd_hms(ts[r]) <= ymd_hms(until)
    BY <1>t, SecondMonotone, WarehouseAssumption
       DEF RowInv, FileInv, TypeOK, Unstamped
<1>6. \A n \in Seconds : \A r \in FileRows(n) :
          ts[r] \in Nat /\ ts[r] <= last_until /\ ymd_hms(ts[r]) <= n
    BY <1>4, WarehouseAssumption
       DEF RowInv, FileInv, TypeOK, FileRows, Unstamped
<1>7. \A n \in Seconds : \A r \in FileRows(n)' :
          ts'[r] # Unstamped /\ ts'[r] <= LastEnd' /\ ymd_hms(ts'[r]) <= n
    BY <1>t, <1>1, <1>2, <1>3, <1>4, <1>5, <1>6 DEF Unstamped, ymd_hms
<1>8. \A m \in Seconds : FileRows(m) # {} => m <= ymd_hms(last_until)
    BY <1>4 DEF FileInv, WindowsAdvance, FileRows, NewestName
<1>9. /\ ymd_hms(last_until) \in Nat /\ ymd_hms(until) \in Nat
      /\ ymd_hms(last_until) <= ymd_hms(until)
    BY <1>t, SecondType, SecondMonotone
<1>10. \A r \in all : \A m \in Seconds :
           r \in FileRows(m) => ymd_hms(ts[r]) = m
    <2>1. SUFFICES ASSUME NEW r \in all, NEW m \in Seconds, r \in FileRows(m)
                   PROVE  ymd_hms(ts[r]) = m
        OBVIOUS
    <2>2. ts[r] = last_until
        BY <1>t, <1>5, <1>6, <2>1
    <2>3. QED
        BY <1>6, <1>8, <1>9, <2>1, <2>2 DEF Seconds
<1>11. DuplicateOnlyAtBoundary'
    <2>1. SUFFICES ASSUME NEW r \in Trades, NEW m \in Seconds, NEW n \in Seconds,
                          m < n, r \in FileRows(m)', r \in FileRows(n)'
                   PROVE  ymd_hms(ts[r]) = m
        BY <1>1 DEF DuplicateOnlyAtBoundary, FileRows, ymd_hms
    <2>2. CASE r \in FileRows(m) /\ r \in FileRows(n)
        BY <2>1, <2>2 DEF RowInv, DuplicateOnlyAtBoundary, FileRows
    <2>3. CASE r \notin FileRows(n)
        <3>1. n = ymd_hms(until) /\ r \in all
            BY <1>2, <1>3, <2>1, <2>3
        <3>2. r \in FileRows(m)
            BY <1>2, <2>1, <3>1 DEF Seconds
        <3>3. QED
            BY <1>10, <3>1, <3>2
    <2>4. CASE r \notin FileRows(m)
        <3>1. m = ymd_hms(until)
            BY <1>2, <2>1, <2>4
        <3>2. r \in FileRows(n)
            BY <1>2, <2>1, <3>1 DEF Seconds
        <3>3. n <= ymd_hms(last_until)
            BY <1>8, <3>2
        <3>4. QED
            BY <1>9, <2>1, <3>1, <3>3 DEF Seconds
    <2>5. QED
        BY <2>2, <2>3, <2>4
<1>12. /\ mpc' \notin Rolling => all' = {}
       /\ \A r \in all' : last_until' <= ts'[r] /\ ts'[r] <= until'
    BY <1>1 DEF AfterWrite, NextRound, Advance, RowInv
<1>13. QED
    BY <1>7, <1>11, <1>12 DEF RowInv

LEMMA NextRowInv ==
    ASSUME MonotoneClock, FileInv, FileInv', RowInv, [Next]_vars
    PROVE  RowInv'
<1> USE WarehouseAssumption
<1> TypeOK /\ TypeOK'
    BY DEF FileInv
<1>t. /\ wall \in Nat /\ until \in Nat /\ last_until \in Nat
      /\ last_until <= wall /\ until <= wall
      /\ mpc \in Rolling => last_until <= until
      /\ LastEnd \in Nat
    <2>1. /\ wall \in Nat /\ until \in Nat /\ last_until \in Nat
          /\ last_until <= wall /\ until <= wall
          /\ mpc \in Rolling => last_until <= until
        BY DEF FileInv, TypeOK, WindowsAdvance
    <2>2. QED
        BY <2>1 DEF LastEnd
<1>0. LastEnd' \in Nat
    BY DEF LastEnd, TypeOK
<1>c. ASSUME UNCHANGED <<parquet, csv>>, LastEnd <= LastEnd',
             \A r \in Trades : ts[r] # Unstamped => ts'[r] = ts[r],
             mpc' \notin Rolling => all' = {},
             \A r \in all' : last_until' <= ts'[r] /\ ts'[r] <= until'
      PROVE  RowInv'
    BY <1>t, <1>0, <1>c, FilesUnchanged DEF RowInv
<1>1. CASE Tick
    BY <1>1, <1>c, <1>t DEF Tick, LastEnd, RowInv, mainVars, rowVars, diskVars
<1>2. CASE StepBack
    BY <1>2 DEF StepBack, MonotoneClock
<1>3. ASSUME NEW r \in Trades, trade_to_row(r) PROVE RowInv'
    <2>1. \A q \in Trades : ts[q] # Unstamped => ts'[q] = ts[q]
        BY <1>3 DEF trade_to_row, TypeOK
    <2>2. \A q \in all : ts[q] # Unstamped
        BY <1>t DEF RowInv, TypeOK, Unstamped
    <2>3. \A q \in all' : last_until' <= ts'[q] /\ ts'[q] <= until'
        BY <1>3, <2>1, <2>2 DEF trade_to_row, RowInv, TypeOK
    <2>4. LastEnd = LastEnd'
        BY <1>3 DEF trade_to_row, AfterMessage, LastEnd, clockVars
    <2>5. QED
        BY <1>3, <1>c, <1>t, <2>1, <2>3, <2>4
           DEF trade_to_row, AfterMessage, RowInv, diskVars
<1>4. CASE append
    BY <1>4, <1>c, <1>t DEF append, AfterMessage, LastEnd, RowInv, clockVars,
                            diskVars
<1>5. CASE Start
    BY <1>5, <1>c, <1>t DEF Start, LastEnd, RowInv, clockVars, rowVars, diskVars
<1>6. CASE EnterLoop
    BY <1>6, <1>c, <1>t DEF EnterLoop, LastEnd, RowInv, rowVars, diskVars
<1>7. CASE Signal
    BY <1>7, <1>c, <1>t DEF Signal, LastEnd, RowInv, clockVars, rowVars, diskVars
<1>8. CASE BeginRollup
    <2>1. /\ mpc = "sleep" /\ until' = wall /\ all' = {} /\ mpc' \notin Filed
          /\ mpc' # "down" /\ mpc' # "starting"
          /\ last_until' \in {last_until, wall}
        BY <1>8 DEF BeginRollup, NextRound, Advance, RowInv
    <2>2. QED
        BY <1>8, <1>c, <1>t, <2>1 DEF BeginRollup, LastEnd, rowVars, diskVars
<1>9. CASE LeaveLoop
    BY <1>9, <1>c, <1>t DEF LeaveLoop, LastEnd, RowInv, clockVars, rowVars,
                            diskVars
<1>10. CASE QueryChannel
    <2> DEFINE rows == all \cup query(Channels[chan], last_until, until)
    <2>1. \A r \in rows : last_until <= ts[r] /\ ts[r] <= until
        BY DEF query, RowInv
    <2>2. /\ mpc = "query" /\ UNCHANGED <<wall, until, ts, parquet, csv>>
        BY <1>10 DEF QueryChannel, rowVars, diskVars
    <2>3. CASE NextRound(until)
        <3>1. /\ all' = {} /\ last_until' = until
              /\ mpc' \notin {"down", "starting"} \cup Filed
            BY <2>3 DEF NextRound, Advance
        <3>2. QED
            BY <1>c, <1>t, <2>2, <3>1 DEF LastEnd
    <2>4. CASE all' = rows /\ mpc' \in {"query", "write"} /\ last_until' = last_until
        BY <1>c, <1>t, <2>1, <2>2, <2>4 DEF LastEnd
    <2>5. QED
        BY <1>10, <2>2, <2>3, <2>4 DEF QueryChannel
<1>11. CASE WriteParquet
    BY <1>11, WriteKeepsRowInv
<1>12. CASE WriteCsv
    BY <1>12, WriteKeepsRowInv
<1>13. CASE upload \/ report
    <2>1. /\ mpc \in Filed /\ UNCHANGED <<wall, until, ts, parquet, csv>>
          /\ \/ /\ last_until' = until /\ all' = {}
                /\ mpc' \in {"sleep", "stopping"}
             \/ /\ mpc' = "report" /\ UNCHANGED <<last_until, all>>
        BY <1>13 DEF upload, report, NextRound, Advance, rowVars
    <2>2. LastEnd' = LastEnd
        BY <2>1 DEF LastEnd
    <2>3. \A r \in all' : last_until' <= ts'[r] /\ ts'[r] <= until'
        BY <2>1 DEF RowInv
    <2>4. mpc' \notin Rolling => all' = {}
        BY <2>1
    <2>5. QED
        BY <1>c, <1>t, <2>1, <2>2, <2>3, <2>4
<1>14. CASE Exit
    BY <1>14, <1>c, <1>t DEF Exit, LastEnd, RowInv, clockVars, diskVars
<1>15. CASE Crash
    <2>1. /\ mpc' = "down" /\ all' = {} /\ LastEnd' = wall
          /\ UNCHANGED <<wall, until, last_until, ts, csv>>
          /\ \A n \in Seconds : parquet'[n] \subseteq parquet[n]
        BY <1>15 DEF Crash, LastEnd, clockVars, TypeOK
    <2>2. LastEnd <= wall
        BY <1>t DEF LastEnd
    <2>3. \A n \in Seconds :
              FileRows(n)' \subseteq FileRows(n) /\ FileRows(n) \subseteq Trades
        BY <2>1 DEF FileRows, TypeOK
    <2>4. \A n \in Seconds : \A r \in FileRows(n)' :
              ts'[r] # Unstamped /\ ts'[r] <= LastEnd' /\ ymd_hms(ts'[r]) <= n
        BY <1>t, <2>1, <2>2, <2>3 DEF RowInv, ymd_hms, TypeOK, Unstamped
    <2>5. DuplicateOnlyAtBoundary'
        BY <2>1, <2>3 DEF RowInv, DuplicateOnlyAtBoundary, FileRows, ymd_hms
    <2>6. QED
        BY <2>1, <2>4, <2>5 DEF RowInv
<1>16. CASE UNCHANGED vars
    BY <1>16, <1>c, <1>t DEF vars, LastEnd, RowInv
<1>17. QED
    BY <1>1, <1>2, <1>3, <1>4, <1>5, <1>6, <1>7, <1>8, <1>9, <1>10, <1>11,
       <1>12, <1>13, <1>14, <1>15, <1>16 DEF Next

(* With a wall clock that is never set back, a row is in two files only if it
   was stamped in the second that names the earlier of them, hence never in
   three: consecutive windows share their end point and nothing else. *)
THEOREM DuplicatesOnlyAtBoundaries ==
    ASSUME MonotoneClock
    PROVE  Spec => []DuplicateOnlyAtBoundary
<1>1. FileInv /\ FileInv' /\ RowInv /\ [Next]_vars => RowInv'
    BY NextRowInv
<1>2. RowInv => DuplicateOnlyAtBoundary
    BY DEF RowInv
<1>3. Spec => []FileInv
    BY FileInvariant
<1>4. QED
    BY InitRowInv, <1>1, <1>2, <1>3, PTL DEF Spec

-----------------------------------------------------------------------------
(* The two properties that hold however the wall clock is set.              *)

\* What is collected in a window lies in it, and files hold what was collected.
PastInv ==
    /\ mpc \notin Rolling => all = {}
    /\ \A r \in all : ts[r] # Unstamped /\ ts[r] <= until
    /\ \A n \in Seconds : \A r \in FileRows(n) :
          ts[r] # Unstamped /\ ymd_hms(ts[r]) <= n

(* At the start there are no rows. *)
LEMMA InitPastInv == Init => PastInv
BY DEF Init, PastInv, FileRows

(* Stamps are set once, and by nothing but trade_to_row. *)
LEMMA StampsStay ==
    ASSUME TypeOK, [Next]_vars
    PROVE  \A r \in Trades : ts[r] # Unstamped => ts'[r] = ts[r]
BY DEF TypeOK, Next, vars, rowVars, Tick, StepBack, trade_to_row, append, Start,
       EnterLoop, Signal, BeginRollup, LeaveLoop, QueryChannel, WriteParquet,
       WriteCsv, upload, report, Exit, Crash

(* The part of PastInv about the files, for a step that writes none. *)
LEMMA FilesStayPast ==
    ASSUME TypeOK, PastInv, [Next]_vars,
           \A n \in Seconds : FileRows(n)' \subseteq FileRows(n)
    PROVE  \A n \in Seconds : \A r \in FileRows(n)' :
              ts'[r] # Unstamped /\ ymd_hms(ts'[r]) <= n
<1>1. \A n \in Seconds : FileRows(n) \subseteq Trades
    BY DEF FileRows, TypeOK
<1>2. QED
    BY <1>1, StampsStay DEF PastInv, ymd_hms

(* A file is written of what was collected up to the moment it is named for. *)
LEMMA WriteKeepsPast ==
    ASSUME TypeOK, PastInv, [Next]_vars, WriteParquet \/ WriteCsv
    PROVE  PastInv'
<1>1. /\ mpc = "write" /\ UNCHANGED <<until, ts>> /\ AfterWrite
    BY DEF WriteParquet, WriteCsv, rowVars
<1>2. \A n \in Seconds : n # ymd_hms(until) => FileRows(n)' = FileRows(n)
    BY DEF WriteParquet, WriteCsv, FileRows, TypeOK
<1>3. \A n \in Seconds : FileRows(n)' \subseteq FileRows(n) \cup all
    BY <1>2 DEF WriteParquet, WriteCsv, FileRows, TypeOK
<1>4. \A r \in all : ymd_hms(ts[r]) <= ymd_hms(until)
    BY SecondMonotone, WarehouseAssumption DEF PastInv, TypeOK, Unstamped
<1>5. \A n \in Seconds : \A r \in FileRows(n)' :
          ts'[r] # Unstamped /\ ymd_hms(ts'[r]) <= n
    BY <1>1, <1>2, <1>3, <1>4 DEF PastInv, ymd_hms
<1>6. /\ mpc' \notin Rolling => all' = {}
      /\ \A r \in all' : ts'[r] # Unstamped /\ ts'[r] <= until'
    BY <1>1 DEF AfterWrite, NextRound, PastInv
<1>7. QED
    BY <1>5, <1>6 DEF PastInv

(* Every row in the store has been stamped. *)
StoredInv == \A r \in store \cup {held} : r # None => ts[r] # Unstamped

(* At the start the store is empty. *)
LEMMA InitStoredInv == Init => StoredInv
BY DEF Init, StoredInv

(* trade_to_row stamps before append stores. *)
LEMMA NextStoredInv == TypeOK /\ StoredInv /\ [Next]_vars => StoredInv'
<1> SUFFICES ASSUME TypeOK, StoredInv, [Next]_vars PROVE StoredInv'
    OBVIOUS
<1>1. ASSUME NEW r \in Trades, trade_to_row(r) PROVE StoredInv'
    <2>1. wall # Unstamped
        BY WarehouseAssumption DEF TypeOK, Unstamped
    <2>2. ts'[r] # Unstamped /\ \A q \in Trades : q # r => ts'[q] = ts[q]
        BY <1>1, <2>1 DEF trade_to_row, TypeOK
    <2>3. store' = store /\ held' = r /\ store \subseteq Trades
        BY <1>1 DEF trade_to_row, TypeOK
    <2>4. QED
        BY <2>2, <2>3, WarehouseAssumption DEF StoredInv
<1>2. CASE append
    BY <1>2 DEF append, StoredInv
<1>3. CASE Exit \/ Crash
    BY <1>3 DEF Exit, Crash, StoredInv
<1>4. CASE UNCHANGED rowVars
    BY <1>4 DEF rowVars, StoredInv
<1>5. QED
    BY <1>1, <1>2, <1>3, <1>4
       DEF Next, vars, rowVars, Tick, StepBack, Start, EnterLoop, Signal,
           BeginRollup, LeaveLoop, QueryChannel, WriteParquet, WriteCsv, upload, report

(* A window collects no row of its future, and its file gets no other. *)
LEMMA NextPastInv ==
    ASSUME TypeOK, StoredInv, PastInv, [Next]_vars
    PROVE  PastInv'
<1>c. ASSUME UNCHANGED <<parquet, csv>>,
             mpc' \notin Rolling => all' = {},
             \A r \in all' : ts'[r] # Unstamped /\ ts'[r] <= until'
      PROVE  PastInv'
    BY <1>c, FilesStayPast DEF PastInv, FileRows
<1>s. \A r \in all : r \in Trades /\ ts'[r] = ts[r]
    BY StampsStay DEF PastInv, TypeOK
<1>1. CASE Tick \/ StepBack \/ Signal \/ UNCHANGED vars
    BY <1>1, <1>c DEF Tick, StepBack, Signal, vars, mainVars, rowVars, diskVars, PastInv
<1>2. ASSUME NEW r \in Trades, trade_to_row(r) PROVE PastInv'
    BY <1>2, <1>c, <1>s DEF trade_to_row, AfterMessage, diskVars, PastInv
<1>3. CASE append \/ Start \/ LeaveLoop \/ EnterLoop \/ Exit
    BY <1>3, <1>c DEF append, AfterMessage, Start, LeaveLoop, EnterLoop, Exit, rowVars,
                      diskVars, PastInv
<1>4. CASE BeginRollup
    <2>1. all' = {} /\ UNCHANGED <<parquet, csv>>
        BY <1>4 DEF BeginRollup, NextRound, PastInv, diskVars
    <2>2. QED
        BY <1>c, <2>1
<1>5. CASE QueryChannel
    <2> DEFINE rows == all \cup query(Channels[chan], last_until, until)
    <2>1. \A r \in rows : ts[r] # Unstamped /\ ts[r] <= until
        BY WarehouseAssumption DEF query, PastInv, StoredInv, TypeOK
    <2>2. /\ UNCHANGED <<until, ts, parquet, csv>> /\ mpc = "query"
          /\ \/ all' = rows /\ mpc' \in {"query", "write"}
             \/ all' = {}
        BY <1>5 DEF QueryChannel, NextRound, rowVars, diskVars
    <2> HIDE DEF rows
    <2>3. QED
        BY <1>c, <2>1, <2>2
<1>6. CASE WriteParquet \/ WriteCsv
    BY <1>6, WriteKeepsPast
<1>7. CASE upload \/ report
    BY <1>7, <1>c, <1>s DEF upload, report, NextRound, rowVars, PastInv
<1>8. CASE Crash
    <2>1. \A n \in Seconds : FileRows(n)' \subseteq FileRows(n)
        BY <1>8 DEF Crash, FileRows, TypeOK
    <2>2. QED
        BY <1>8, <2>1, FilesStayPast DEF Crash, PastInv
<1>9. QED
    BY <1>1, <1>2, <1>3, <1>4, <1>5, <1>6, <1>7, <1>8 DEF Next

(* However the wall clock is set, a file holds no row stamped after the second
   it is named for. *)
THEOREM FilesAreOfThePast == Spec => []FilesHoldThePast
<1>1. TypeOK /\ StoredInv /\ PastInv /\ [Next]_vars => PastInv'
    BY NextPastInv
<1>2. PastInv => FilesHoldThePast
    BY DEF PastInv, FilesHoldThePast, FileRows
<1>3. QED
    BY TypeCorrect, InitStoredInv, NextStoredInv, InitPastInv, <1>1, <1>2, PTL DEF Spec

-----------------------------------------------------------------------------

\* The end of the last window that may have a line.
LineEnd == IF mpc \in {"down", "starting"} THEN wall ELSE last_until

\* A line and the object of its key.
TrueLine(l) ==
    \/ bucket[l.sec] = l.rows
    \/ bucket[l.sec] = {} /\ parquet[l.sec] = {}

\* What is about to be sent, and what was sent and not yet reported; and every
\* line is of an earlier window than the one that is open.
ReportInv ==
    /\ mpc = "upload" =>
          parquet[ymd_hms(until)] = all \/ parquet[ymd_hms(until)] = {}
    /\ mpc = "report" => TrueLine([sec |-> ymd_hms(until), rows |-> all])
    /\ \A l \in reported : TrueLine(l) /\ l.sec <= ymd_hms(LineEnd)

(* At the start nothing has been reported. *)
LEMMA InitReportInv == Init => ReportInv
BY DEF Init, ReportInv

(* Steps before a file is written, and after its line: the objects and files
   stay (a crash may empty one more file), and windows only move on. *)
LEMMA LinesStayTrue ==
    ASSUME FileInv, FileInv', ReportInv, UNCHANGED <<bucket, reported>>,
           LineEnd <= LineEnd', LineEnd \in Nat, LineEnd' \in Nat,
           \A n \in Seconds : parquet'[n] \in {parquet[n], {}}
    PROVE  \A l \in reported' : TrueLine(l)' /\ l.sec <= ymd_hms(LineEnd')
<1>1. ymd_hms(LineEnd) <= ymd_hms(LineEnd') /\ ymd_hms(LineEnd) \in Nat
      /\ ymd_hms(LineEnd') \in Nat
    BY SecondMonotone, SecondType
<1>2. \A l \in reported : l.sec \in Seconds /\ l.sec \in Nat
    BY WarehouseAssumption DEF FileInv, TypeOK, Lines, Seconds
<1>3. SUFFICES ASSUME NEW l \in reported
               PROVE  TrueLine(l)' /\ l.sec <= ymd_hms(LineEnd')
    OBVIOUS
<1>4. TrueLine(l) /\ l.sec <= ymd_hms(LineEnd)
    BY DEF ReportInv
<1>5. /\ bucket'[l.sec] = bucket[l.sec]
      /\ parquet[l.sec] = {} => parquet'[l.sec] = {}
    BY <1>2
<1>6. TrueLine(l)'
    BY <1>4, <1>5 DEF TrueLine
<1>7. QED
    BY <1>1, <1>2, <1>4, <1>6

(* No line is of the second that names the open window. *)
LEMMA LinesAreEarlier ==
    ASSUME LongInterval, FileInv, ReportInv, mpc \in Rolling
    PROVE  /\ \A l \in reported : l.sec # ymd_hms(until)
           /\ ymd_hms(until) \in Seconds
           /\ last_until \in Nat /\ until \in Nat /\ last_until <= until
<1>1. /\ until \in Nat /\ last_until \in Nat /\ until <= MaxClock
      /\ last_until + SecLen <= until /\ last_until <= until
    BY WarehouseAssumption DEF FileInv, TypeOK, WindowsAdvance, LongInterval
<1>2. /\ ymd_hms(last_until) < ymd_hms(until) /\ ymd_hms(until) \in Seconds
      /\ ymd_hms(last_until) \in Nat /\ ymd_hms(until) \in Nat
    BY <1>1, SecondDistinct, SecondType, WarehouseAssumption DEF Seconds
<1>3. LineEnd = last_until
    BY DEF LineEnd
<1>4. \A l \in reported : l.sec \in Nat /\ l.sec <= ymd_hms(last_until)
    BY <1>3 DEF ReportInv, FileInv, TypeOK, Lines, Seconds
<1>5. QED
    BY <1>1, <1>2, <1>4

(* A step that changes the file and the object of the open window only. *)
LEMMA OtherLinesStayTrue ==
    ASSUME LongInterval, FileInv, ReportInv, mpc \in Rolling,
           LineEnd' \in {last_until, until},
           \A n \in Seconds : n # ymd_hms(until) =>
               parquet'[n] = parquet[n] /\ bucket'[n] = bucket[n]
    PROVE  \A l \in reported : TrueLine(l)' /\ l.sec <= ymd_hms(LineEnd')
<1>1. LineEnd = last_until
    BY DEF LineEnd
<1>2. /\ \A l \in reported : l.sec # ymd_hms(until)
      /\ last_until \in Nat /\ until \in Nat /\ last_until <= until
    BY LinesAreEarlier
<1>3. /\ ymd_hms(LineEnd) <= ymd_hms(LineEnd') /\ ymd_hms(LineEnd) \in Nat
      /\ ymd_hms(LineEnd') \in Nat
    BY <1>1, <1>2, SecondMonotone, SecondType
<1>4. \A l \in reported : l.sec \in Seconds /\ l.sec \in Nat
    BY DEF FileInv, TypeOK, Lines, Seconds
<1>5. QED
    BY <1>2, <1>3, <1>4 DEF ReportInv, TrueLine

(* Every step keeps ReportInv: the open window's name is new, so neither its
   file nor its object is one that a line speaks of. *)
LEMMA NextReportInv ==
    ASSUME MonotoneClock, LongInterval, FileInv, FileInv', ReportInv, [Next]_vars
    PROVE  ReportInv'
<1> USE WarehouseAssumption
<1>t. /\ wall \in Nat /\ wall' \in Nat /\ last_until \in Nat /\ last_until' \in Nat
      /\ until \in Nat /\ last_until <= wall /\ last_until' <= wall'
      /\ LineEnd \in Nat /\ LineEnd' \in Nat
    BY DEF FileInv, TypeOK, WindowsAdvance, LineEnd
<1>c. ASSUME mpc' \notin Filed, UNCHANGED <<bucket, reported>>,
             LineEnd <= LineEnd',
             \A n \in Seconds : parquet'[n] \in {parquet[n], {}}
      PROVE  ReportInv'
    BY <1>c, <1>t, LinesStayTrue DEF ReportInv, ymd_hms
<1>1. CASE UNCHANGED <<mpc, until, all, parquet, bucket, reported>>
           /\ LineEnd <= LineEnd'
    <2>1. \A l \in reported' : TrueLine(l)' /\ l.sec <= ymd_hms(LineEnd')
        BY <1>1, <1>t, LinesStayTrue
    <2>2. QED
        BY <1>1, <2>1 DEF ReportInv, TrueLine, ymd_hms
<1>2. CASE StepBack
    BY <1>2 DEF StepBack, MonotoneClock
<1>3. CASE Tick \/ Signal \/ UNCHANGED vars
    BY <1>1, <1>3, <1>t
       DEF Tick, Signal, vars, mainVars, clockVars, diskVars, LineEnd
<1>4. CASE append \/ \E r \in Trades : trade_to_row(r)
    <2>1. /\ UNCHANGED <<wall, last_until, until, all, parquet, bucket, reported>>
          /\ mpc' = mpc \/ (mpc = "stopping" /\ mpc' = "joining")
        BY <1>4 DEF append, trade_to_row, AfterMessage, clockVars, diskVars
    <2>2. LineEnd <= LineEnd'
        BY <1>t, <2>1 DEF LineEnd
    <2>3. QED
        BY <1>1, <1>c, <2>1, <2>2
<1>5. CASE Start \/ EnterLoop \/ LeaveLoop \/ Exit
    <2>1. /\ UNCHANGED <<wall, parquet, bucket, reported>> /\ mpc' \notin Filed
          /\ mpc' \in {"down", "starting"} \/ last_until' \in {last_until, wall}
          /\ mpc \in {"down", "starting"} =>
                mpc' \in {"down", "starting"} \/ last_until' = wall
        BY <1>5 DEF Start, EnterLoop, LeaveLoop, Exit, clockVars, diskVars
    <2>2. LineEnd <= LineEnd'
        BY <1>t, <2>1 DEF LineEnd
    <2>3. QED
        BY <1>c, <2>1, <2>2
<1>6. CASE BeginRollup \/ QueryChannel
    <2>1. /\ UNCHANGED <<wall, parquet, bucket, reported>> /\ mpc' \notin Filed
          /\ mpc \in {"sleep", "query"} /\ mpc' \notin {"down", "starting"}
          /\ \/ last_until' \in {last_until, wall}
             \/ last_until' = until /\ mpc = "query"
        BY <1>6 DEF BeginRollup, QueryChannel, NextRound, Advance, diskVars
    <2>2. mpc = "query" => last_until <= until
        BY LinesAreEarlier
    <2>3. LineEnd <= LineEnd'
        BY <1>t, <2>1, <2>2 DEF LineEnd
    <2>4. QED
        BY <1>c, <2>1, <2>3
<1>7. CASE WriteParquet \/ WriteCsv
    <2>1. /\ mpc = "write" /\ UNCHANGED <<until, bucket, reported>>
          /\ \/ mpc' = "upload" /\ UNCHANGED <<last_until, all>>
             \/ mpc' \in {"sleep", "stopping"} /\ last_until' = until
        BY <1>7 DEF WriteParquet, WriteCsv, AfterWrite, NextRound, Advance
    <2>2. /\ LineEnd' \in {last_until, until} /\ ymd_hms(until) \in Seconds
        BY <2>1, LinesAreEarlier DEF LineEnd
    <2>3. \A n \in Seconds : n # ymd_hms(until) =>
              parquet'[n] = parquet[n] /\ bucket'[n] = bucket[n]
        BY <1>7, <2>1 DEF WriteParquet, WriteCsv, FileInv, TypeOK
    <2>4. parquet'[ymd_hms(until)] \in {all, {}}
        BY <1>7, <2>1, <2>2, NameIsNew DEF WriteParquet, WriteCsv, FileInv, TypeOK
    <2>5. \A l \in reported : TrueLine(l)' /\ l.sec <= ymd_hms(LineEnd')
        BY <2>1, <2>2, <2>3, OtherLinesStayTrue
    <2>6. QED
        BY <2>1, <2>4, <2>5 DEF ReportInv, ymd_hms
<1>8. CASE upload
    <2>1. /\ mpc = "upload" /\ UNCHANGED <<until, parquet, reported>>
          /\ \/ Put /\ mpc' = "report" /\ UNCHANGED <<last_until, all>>
             \/ /\ mpc' \in {"sleep", "stopping"} /\ last_until' = until
                /\ Put \/ UNCHANGED bucket
        BY <1>8 DEF upload, NextRound, Advance
    <2>2. LineEnd' \in {last_until, until} /\ ymd_hms(until) \in Seconds
        BY <2>1, LinesAreEarlier DEF LineEnd
    <2>3. \A n \in Seconds : n # ymd_hms(until) =>
              parquet'[n] = parquet[n] /\ bucket'[n] = bucket[n]
        BY <2>1 DEF Put, FileInv, TypeOK
    <2>4. mpc' = "report" => bucket'[ymd_hms(until)] = parquet[ymd_hms(until)]
        BY <2>1, <2>2 DEF Put, FileInv, TypeOK
    <2>5. \A l \in reported : TrueLine(l)' /\ l.sec <= ymd_hms(LineEnd')
        BY <2>1, <2>2, <2>3, OtherLinesStayTrue
    <2>6. mpc' = "report" => TrueLine([sec |-> ymd_hms(until), rows |-> all])'
        BY <2>1, <2>4 DEF ReportInv, TrueLine, ymd_hms
    <2>7. QED
        BY <2>1, <2>5, <2>6 DEF ReportInv, ymd_hms
<1>9. CASE report
    <2> DEFINE line == [sec |-> ymd_hms(until), rows |-> all]
    <2>1. /\ mpc = "report" /\ UNCHANGED <<until, parquet, bucket>>
          /\ mpc' \in {"sleep", "stopping"} /\ last_until' = until
          /\ reported' = reported \cup {line}
        BY <1>9 DEF report, NextRound, Advance
    <2>2. LineEnd' = until /\ until \in Nat
        BY <2>1, <1>t DEF LineEnd
    <2>3. \A l \in reported : TrueLine(l)' /\ l.sec <= ymd_hms(LineEnd')
        BY <2>1, <2>2, OtherLinesStayTrue
    <2>4. \A l \in {line} : TrueLine(l)' /\ l.sec <= ymd_hms(LineEnd')
        <3>1. TrueLine(line) /\ ymd_hms(until) <= ymd_hms(until)
            BY <2>1, <2>2, SecondMonotone DEF ReportInv
        <3>2. line.sec = ymd_hms(LineEnd')
            BY <2>2
        <3>3. /\ bucket'[line.sec] = bucket[line.sec]
              /\ parquet'[line.sec] = parquet[line.sec]
            BY <2>1
        <3>4. bucket'[line.sec] = line.rows
              \/ (bucket'[line.sec] = {} /\ parquet'[line.sec] = {})
            BY <3>1, <3>3 DEF TrueLine
        <3>5. (\A l \in {line} : TrueLine(l)')
            <4>1. SUFFICES ASSUME NEW l \in {line} PROVE TrueLine(l)'
                OBVIOUS
            <4>2. l = line
                OBVIOUS
            <4> HIDE DEF line
            <4>3. QED
                BY <3>4, <4>2 DEF TrueLine
        <3>6. QED
            BY <3>1, <3>2, <3>5, <2>2
    <2>5. \A l \in reported' : TrueLine(l)' /\ l.sec <= ymd_hms(LineEnd')
        BY <2>1, <2>3, <2>4
    <2>6. QED
        BY <2>1, <2>5 DEF ReportInv
<1>10. CASE Crash
    <2>1. /\ mpc' = "down" /\ UNCHANGED <<wall, bucket, reported>>
          /\ \A n \in Seconds : parquet'[n] \in {parquet[n], {}}
        BY <1>10 DEF Crash, clockVars, FileInv, TypeOK
    <2>2. LineEnd <= LineEnd'
        BY <1>t, <2>1 DEF LineEnd
    <2>3. QED
        BY <1>c, <2>1, <2>2
<1>11. QED
    BY <1>2, <1>3, <1>4, <1>5, <1>6, <1>7, <1>8, <1>9, <1>10 DEF Next

(* With a wall clock that is never set back and an interval of at least one
   second, whatever fails, crashes or falls back to CSV: a line that was once
   printed stays true of its object, or the object is as empty as the Parquet
   file that was sent for it. *)
THEOREM ReportsAreTrue ==
    ASSUME MonotoneClock, LongInterval
    PROVE  Spec => []ReportedIsUploaded
<1>1. FileInv /\ FileInv' /\ ReportInv /\ [Next]_vars => ReportInv'
    BY NextReportInv
<1>2. ReportInv => ReportedIsUploaded
    BY DEF ReportInv, ReportedIsUploaded, TrueLine
<1>3. QED
    BY FileInvariant, InitReportInv, <1>1, <1>2, PTL DEF Spec

-----------------------------------------------------------------------------
(* Losses.  A row that is recorded and not in a file afterwards is still     *)
(* collected or will be, unless one of the known causes is at work.  Nothing *)
(* is assumed of the wall clock here.                                        *)

\* Between two windows the queries start from the first channel.
LossInv ==
    /\ TypeOK
    /\ StoredInv
    /\ mpc # "query" => chan = 1
    /\ mpc \notin Rolling => all = {}

(* At the start no window is open. *)
LEMMA InitLossInv == Init => LossInv
BY InitTypeOK, InitStoredInv DEF Init, LossInv

(* Every step leaves the queries at the first channel when a window closes. *)
LEMMA NextLossInv == LossInv /\ [Next]_vars => LossInv'
<1> SUFFICES ASSUME LossInv, [Next]_vars PROVE LossInv'
    OBVIOUS
<1>1. TypeOK' /\ StoredInv'
    BY NextTypeOK, NextStoredInv DEF LossInv
<1>2. /\ mpc' # "query" => chan' = 1
      /\ mpc' \notin Rolling => all' = {}
    BY DEF LossInv, Next, vars, mainVars, clockVars, rowVars, diskVars, Tick,
           StepBack, trade_to_row, append, AfterMessage, Start, EnterLoop, Signal,
           BeginRollup, LeaveLoop, QueryChannel, NextRound, AfterWrite, WriteParquet,
           WriteCsv, upload, report, Exit, Crash
<1>3. QED
    BY <1>1, <1>2 DEF LossInv

(* The queries after the first find nothing, as all rows are trades. *)
LEMMA OnlyTrades ==
    ASSUME TypeOK, NEW from, NEW to
    PROVE  /\ query(Channels[1], from, to) =
                  {r \in store : from <= ts[r] /\ ts[r] <= to}
           /\ chan # 1 => query(Channels[chan], from, to) = {}
<1>1. chan \in 1 .. 4
    BY DEF TypeOK, Channels
<1>2. /\ Channels[1] = "trade" /\ Channels[2] = "book"
      /\ Channels[3] = "news" /\ Channels[4] = "dart"
    BY DEF Channels
<1>3. QED
    BY <1>1, <1>2 DEF query

(* QueryChannel: what the window was to find it has collected, but for a row
   that is stamped and not appended. *)
LEMMA QueryLosesHeldOnly ==
    ASSUME LossInv, QueryChannel, NEW r \in Trades, Recoverable(r), r # held,
           ts[r] # Unstamped
    PROVE  Recoverable(r)'
<1> DEFINE rows == all \cup query(Channels[chan], last_until, until)
<1>1. /\ last_until \in Nat /\ until \in Nat /\ ts[r] \in Nat /\ chan \in 1 .. 4
      /\ Len(Channels) = 4
    BY WarehouseAssumption DEF LossInv, TypeOK, Unstamped, Channels
<1>2. mpc = "query" /\ UNCHANGED <<store, held, ts, until>>
    BY DEF QueryChannel, rowVars
<1>3. /\ chan = 1 => query(Channels[chan], last_until, until) =
                        {q \in store : last_until <= ts[q] /\ ts[q] <= until}
      /\ chan # 1 => query(Channels[chan], last_until, until) = {}
    BY OnlyTrades DEF LossInv
<1>4. r \in rows \/ (r \in store /\ ts[r] >= until)
    BY <1>1, <1>2, <1>3 DEF Recoverable, WindowStart
<1>5. CASE /\ all' = rows
           /\ \/ mpc' = "query" /\ chan' = chan + 1
              \/ mpc' = "write"
    <2>1. WindowStart' = until
        BY <1>1, <1>2, <1>5 DEF WindowStart
    <2>2. QED
        BY <1>2, <1>4, <1>5, <2>1 DEF Recoverable
<1>6. CASE rows = {} /\ NextRound(until)
    <2>1. WindowStart' = until
        BY <1>6 DEF NextRound, Advance, WindowStart
    <2>2. QED
        BY <1>2, <1>4, <1>6, <2>1 DEF Recoverable
<1>7. QED
    BY <1>1, <1>2, <1>5, <1>6 DEF QueryChannel

(* WriteParquet and WriteCsv: what was collected is in the file, unless the CSV
   was cut short. *)
LEMMA WriteLosesNothing ==
    ASSUME LossInv, WriteParquet \/ WriteCsv, NEW r \in Trades, Recoverable(r),
           "csv" \notin Faults
    PROVE  r \in ArchivedRows' \/ Recoverable(r)'
<1>1. /\ mpc = "write" /\ UNCHANGED <<store, held, ts, until>> /\ AfterWrite
    BY DEF WriteParquet, WriteCsv, rowVars
<1>2. WindowStart = until /\ WindowStart' = until
    BY <1>1 DEF WindowStart, AfterWrite, NextRound, Advance
<1>3. CASE r \in all
    <2>1. ymd_hms(until) \in Seconds
        <3>1. until \in Nat /\ until <= MaxClock /\ MaxClock \in Nat
            BY WarehouseAssumption DEF LossInv, TypeOK
        <3>2. QED
            BY <3>1, SecondType DEF Seconds
    <2>2. parquet \in [Seconds -> SUBSET Trades] /\ csv \in [Seconds -> SUBSET Trades]
        BY DEF LossInv, TypeOK
    <2>3. r \in parquet'[ymd_hms(until)] \cup csv'[ymd_hms(until)]
        BY <1>3, <2>1, <2>2 DEF WriteParquet, WriteCsv
    <2>4. QED
        BY <2>1, <2>3 DEF ArchivedRows
<1>4. CASE r \notin all
    BY <1>1, <1>2, <1>4 DEF Recoverable
<1>5. QED
    BY <1>3, <1>4

(* A row that is recorded is in a file after the step, or still recorded, or
   one of the known causes was at work. *)
LEMMA RecordedStays ==
    ASSUME LossInv, [Next]_vars, NEW r \in Trades, ts[r] # Unstamped,
           Recoverable(r), ~LossHasACause(r)
    PROVE  r \in ArchivedRows' \/ Recoverable(r)'
<1>1. ts'[r] = ts[r] /\ ts[r] \in Nat /\ wall \in Nat
    BY StampsStay, WarehouseAssumption DEF LossInv, TypeOK, Unstamped
<1>2. r # held /\ mpc # "starting" /\ mpc' # "down"
    BY DEF LossHasACause
<1>3. CASE Tick \/ StepBack \/ Signal \/ UNCHANGED vars
    BY <1>3 DEF Tick, StepBack, Signal, vars, mainVars, clockVars, rowVars,
                diskVars, Recoverable, WindowStart
<1>4. CASE append \/ \E q \in Trades : trade_to_row(q)
    <2>1. UNCHANGED <<all, chan, until, last_until>> /\ WindowStart' = WindowStart
        BY <1>4 DEF append, trade_to_row, AfterMessage, WindowStart
    <2>2. r \in store => r \in store'
        BY <1>4 DEF append, trade_to_row
    <2>3. /\ mpc \in {"query", "write"} => mpc' = mpc
          /\ mpc' = "starting" <=> mpc = "starting"
        BY <1>4 DEF append, trade_to_row, AfterMessage
    <2>4. QED
        BY <1>1, <1>2, <2>1, <2>2, <2>3 DEF Recoverable
<1>5. CASE Start
    BY <1>5, <1>2 DEF Start, rowVars, Recoverable
<1>6. CASE EnterLoop
    BY <1>6, <1>2 DEF EnterLoop
<1>7. CASE BeginRollup
    <2>1. "dir" \notin Faults
        BY <1>7 DEF BeginRollup, LossHasACause
    <2>2. /\ mpc' = "query" /\ mpc = "sleep" /\ chan' = 1
          /\ UNCHANGED <<last_until, all, store, held, ts>>
        BY <1>7, <2>1 DEF BeginRollup, LossInv, rowVars
    <2>3. QED
        BY <2>2 DEF Recoverable, WindowStart
<1>8. CASE LeaveLoop
    BY <1>8 DEF LeaveLoop, rowVars, Recoverable, WindowStart
<1>9. CASE QueryChannel
    BY <1>9, <1>2, QueryLosesHeldOnly
<1>10. CASE WriteParquet \/ WriteCsv
    <2>1. mpc = "write"
        BY <1>10 DEF WriteParquet, WriteCsv
    <2>2. QED
        BY <1>10, <2>1, WriteLosesNothing DEF LossHasACause
<1>11. CASE upload \/ report
    BY <1>11 DEF upload, report, NextRound, Advance, rowVars, Recoverable,
                 WindowStart
<1>12. CASE Exit \/ Crash
    BY <1>12, <1>2 DEF Exit, Crash
<1>13. QED
    BY <1>3, <1>4, <1>5, <1>6, <1>7, <1>8, <1>9, <1>10, <1>11, <1>12 DEF Next

(* Whatever the clocks do, a recorded trade is lost only in one of the ways
   that LossHasACause lists. *)
THEOREM LossesAreKnown == Spec => OnlyKnownLosses
<1>1. ASSUME LossInv, [Next]_vars, NEW r \in Trades,
             Phase(r) = "recorded", Phase(r)' = "lost"
      PROVE  LossHasACause(r)
    <2>1. ts[r] # Unstamped /\ Recoverable(r)
        BY <1>1 DEF Phase
    <2>2. r \notin ArchivedRows' /\ ~Recoverable(r)'
        BY <1>1 DEF Phase
    <2>3. QED
        BY <1>1, <2>1, <2>2, RecordedStays
<1>2. LossInv /\ [Next]_vars =>
        [\A r \in Trades :
            Phase(r) = "recorded" /\ Phase(r)' = "lost" => LossHasACause(r)]_vars
    BY <1>1
<1>3. QED
    BY InitLossInv, NextLossInv, <1>2, PTL DEF Spec, OnlyKnownLosses

-----------------------------------------------------------------------------
(* The refinement.  What is settled stays settled: a trade in a file stays   *)
(* there (FilesDurable), and one that no query will find is never found.     *)

ArchiveInv ==
    /\ FileInv
    /\ RowInv
    /\ LossInv
    /\ mpc = "down" => store = {} /\ held = None

(* At the start nothing has come and nothing is kept. *)
LEMMA InitArchiveInv == Init => ArchiveInv
BY InitFileInv, InitRowInv, InitLossInv DEF Init, ArchiveInv

(* The store is gone with the process, and filled only by a running one. *)
LEMMA NextArchiveInv ==
    ASSUME MonotoneClock
    PROVE  ArchiveInv /\ [Next]_vars => ArchiveInv'
<1> SUFFICES ASSUME ArchiveInv, [Next]_vars PROVE ArchiveInv'
    OBVIOUS
<1>1. FileInv' /\ RowInv' /\ LossInv'
    BY NextFileInv, NextRowInv, NextLossInv DEF ArchiveInv
<1>2. mpc' = "down" => store' = {} /\ held' = None
    <2>1. None \notin Trades
        BY WarehouseAssumption
    <2>2. QED
        BY <2>1 DEF ArchiveInv, Next, vars, mainVars, clockVars, rowVars, Tick, StepBack,
               trade_to_row, append, AfterMessage, Start, EnterLoop, Signal, BeginRollup,
               LeaveLoop, QueryChannel, NextRound, AfterWrite, WriteParquet, WriteCsv,
               upload, report, Exit, Crash
<1>3. QED
    BY <1>1, <1>2 DEF ArchiveInv

(* A row that is not recorded any more never is again: the windows advance. *)
LEMMA LostStaysLost ==
    ASSUME MonotoneClock, ArchiveInv, ArchiveInv', [Next]_vars, NEW r \in Trades,
           ts[r] # Unstamped, ~Recoverable(r)
    PROVE  ~Recoverable(r)'
<1> USE WarehouseAssumption
<1>1. /\ ts'[r] = ts[r] /\ ts[r] \in Nat /\ wall \in Nat /\ until \in Nat
      /\ last_until \in Nat /\ r # None /\ chan \in 1 .. 4
    BY StampsStay DEF ArchiveInv, FileInv, TypeOK, Unstamped, Channels
<1>2. CASE Tick \/ Signal \/ UNCHANGED vars
    BY <1>2 DEF Tick, Signal, vars, mainVars, clockVars, rowVars,
                diskVars, Recoverable, WindowStart
<1>3. CASE StepBack
    BY <1>3 DEF StepBack, MonotoneClock
<1>4. ASSUME NEW q \in Trades, trade_to_row(q) PROVE ~Recoverable(r)'
    <2>1. UNCHANGED <<all, chan, until, last_until, store>> /\ WindowStart' = WindowStart
        BY <1>4 DEF trade_to_row, AfterMessage, WindowStart
    <2>2. q # r /\ held' = q
        BY <1>4 DEF trade_to_row
    <2>3. /\ mpc' \in {"query", "write"} => mpc' = mpc
          /\ mpc' = "starting" <=> mpc = "starting"
        BY <1>4 DEF trade_to_row, AfterMessage
    <2>4. QED
        BY <1>1, <2>1, <2>2, <2>3 DEF Recoverable
<1>5. CASE append
    <2>1. UNCHANGED <<all, chan, until, last_until>> /\ WindowStart' = WindowStart
        BY <1>5 DEF append, AfterMessage, WindowStart
    <2>2. store' \cup {held'} \subseteq store \cup {held, None}
        BY <1>5 DEF append
    <2>3. /\ mpc' \in {"query", "write"} => mpc' = mpc
          /\ mpc' = "starting" <=> mpc = "starting"
        BY <1>5 DEF append, AfterMessage
    <2>4. QED
        BY <1>1, <2>1, <2>2, <2>3 DEF Recoverable
<1>6. CASE Start
    BY <1>1, <1>6 DEF Start, rowVars, Recoverable, ArchiveInv
<1>7. CASE EnterLoop
    BY <1>7 DEF EnterLoop, rowVars, Recoverable, ArchiveInv, LossInv
<1>8. CASE BeginRollup
    <2>1. last_until <= wall /\ all = {} /\ mpc = "sleep"
        BY <1>8 DEF ArchiveInv, LossInv, FileInv, WindowsAdvance, BeginRollup
    <2>2. /\ UNCHANGED <<store, held>> /\ all' = {} /\ mpc' # "starting"
          /\ chan' = 1 /\ last_until' \in {last_until, wall}
          /\ mpc' \notin {"write"} \cup Filed
        BY <1>8, <2>1 DEF BeginRollup, NextRound, Advance, ArchiveInv, LossInv, rowVars
    <2>3. WindowStart = last_until /\ WindowStart' = last_until'
        BY <2>1, <2>2 DEF WindowStart
    <2>4. QED
        BY <1>1, <2>1, <2>2, <2>3 DEF Recoverable
<1>9. CASE LeaveLoop
    BY <1>9 DEF LeaveLoop, rowVars, Recoverable, WindowStart
<1>10. CASE QueryChannel
    <2> DEFINE rows == all \cup query(Channels[chan], last_until, until)
    <2>1. mpc = "query" /\ UNCHANGED <<store, held, ts, until>>
        BY <1>10 DEF QueryChannel, rowVars
    <2>2. last_until <= until
        <3>1. last_until + Interval <= until
            BY <2>1 DEF ArchiveInv, FileInv, WindowsAdvance
        <3>2. Interval \in Nat
            OBVIOUS
        <3>3. QED
            BY <1>1, <3>1, <3>2
    <2>3. r \notin rows
        BY <1>1, <2>1, <2>2, OnlyTrades DEF Recoverable, WindowStart, ArchiveInv, LossInv
    <2>4. r \in store \cup {held} => ts[r] < until
        BY <1>1, <2>1, <2>2 DEF Recoverable, WindowStart
    <2>5. /\ all' \in {rows, {}} /\ mpc' # "starting"
          /\ WindowStart' = until
        BY <1>1, <1>10, <2>1
           DEF QueryChannel, NextRound, Advance, WindowStart, Channels
    <2> HIDE DEF rows
    <2>6. QED
        BY <1>1, <2>1, <2>3, <2>4, <2>5 DEF Recoverable
<1>11. CASE WriteParquet \/ WriteCsv \/ upload \/ report
    <2>1. /\ mpc \in {"write"} \cup Filed /\ UNCHANGED <<store, held, ts, until>>
          /\ mpc' \in {"sleep", "stopping"} \cup Filed /\ WindowStart' = until
        BY <1>11 DEF WriteParquet, WriteCsv, upload, report, AfterWrite, NextRound,
                     Advance, WindowStart, rowVars
    <2>2. QED
        BY <1>1, <2>1 DEF Recoverable, WindowStart
<1>12. CASE Exit \/ Crash
    BY <1>1, <1>12 DEF Exit, Crash, Recoverable
<1>13. QED
    BY <1>2, <1>3, <1>4, <1>5, <1>6, <1>7, <1>8, <1>9, <1>10, <1>11, <1>12 DEF Next

(* What comes into a file was collected. *)
LEMMA ArchivedWasRecorded ==
    ASSUME LossInv, [Next]_vars, NEW r \in ArchivedRows', r \notin ArchivedRows
    PROVE  r \in all /\ mpc = "write"
<1>1. PICK n \in Seconds : r \in FileRows(n)'
    BY DEF ArchivedRows, FileRows
<1>2. r \notin FileRows(n)
    BY DEF ArchivedRows, FileRows
<1>3. CASE WriteParquet \/ WriteCsv
    <2>1. FileRows(n)' \subseteq FileRows(n) \cup all
        BY <1>3 DEF WriteParquet, WriteCsv, FileRows, LossInv, TypeOK
    <2>2. QED
        BY <1>1, <1>2, <1>3, <2>1 DEF WriteParquet, WriteCsv
<1>4. CASE Crash
    BY <1>1, <1>2, <1>4 DEF Crash, FileRows, LossInv, TypeOK
<1>5. CASE UNCHANGED <<parquet, csv>>
    BY <1>1, <1>2, <1>5 DEF FileRows
<1>6. QED
    BY <1>3, <1>4, <1>5
       DEF Next, vars, Tick, StepBack, trade_to_row, append, Start, EnterLoop,
           Signal, BeginRollup, LeaveLoop, QueryChannel, upload, report, Exit, diskVars

(* A trade comes: it was expected and is recorded, and nothing else changes. *)
LEMMA ArrivalRecords ==
    ASSUME ArchiveInv, NEW q \in Trades, trade_to_row(q)
    PROVE  /\ Phase(q) = "expected" /\ Phase(q)' = "recorded"
           /\ \A r \in Trades : r # q => Phase(r)' = Phase(r)
<1> USE WarehouseAssumption
<1>1. /\ ts[q] = Unstamped /\ ts'[q] = wall /\ wall # Unstamped /\ wall \in Nat
      /\ \A r \in Trades : r # q => ts'[r] = ts[r]
      /\ UNCHANGED <<parquet, csv, store, all, until, last_until, chan>>
      /\ held = None /\ held' = q /\ mpc \notin {"down", "joining"}
      /\ mpc' = mpc \/ (mpc = "stopping" /\ mpc' = "joining")
    BY DEF ArchiveInv, FileInv, TypeOK, Unstamped, trade_to_row, AfterMessage, diskVars
<1>2. ArchivedRows' = ArchivedRows /\ WindowStart' = WindowStart
    BY <1>1 DEF ArchivedRows, WindowStart
<1>3. q \notin ArchivedRows
    BY <1>1 DEF ArchiveInv, RowInv, ArchivedRows, FileRows
<1>4. WindowStart <= wall
    BY DEF ArchiveInv, FileInv, WindowsAdvance, WindowStart
<1>5. Recoverable(q)'
    BY <1>1, <1>2, <1>4 DEF Recoverable
<1>6. ASSUME NEW r \in Trades, r # q PROVE Phase(r)' = Phase(r)
    <2>1. Recoverable(r)' <=> Recoverable(r)
        BY <1>1, <1>2, <1>6 DEF Recoverable
    <2>2. QED
        BY <1>1, <1>2, <1>6, <2>1 DEF Phase
<1>7. QED
    BY <1>1, <1>2, <1>3, <1>5, <1>6 DEF Phase

(* Any other step settles trades that were recorded. *)
LEMMA OthersSettle ==
    ASSUME MonotoneClock, LongInterval, ArchiveInv, ArchiveInv', [Next]_vars,
           UNCHANGED ts, NEW r \in Trades
    PROVE  \/ Phase(r)' = Phase(r)
           \/ Phase(r) = "recorded" /\ Phase(r)' \in {"archived", "lost"}
<1>1. CASE ts[r] = Unstamped
    BY <1>1 DEF Phase
<1>2. CASE ts[r] # Unstamped /\ r \in ArchivedRows
    BY <1>2, StepKeepsFiles DEF Phase, ArchiveInv
<1>3. CASE ts[r] # Unstamped /\ r \notin ArchivedRows /\ ~Recoverable(r)
    <2>1. r \notin ArchivedRows'
        BY <1>3, ArchivedWasRecorded DEF Recoverable, ArchiveInv
    <2>2. ~Recoverable(r)'
        BY <1>3, LostStaysLost
    <2>3. QED
        BY <1>3, <2>1, <2>2 DEF Phase
<1>4. CASE ts[r] # Unstamped /\ r \notin ArchivedRows /\ Recoverable(r)
    BY <1>4 DEF Phase
<1>5. QED
    BY <1>1, <1>2, <1>3, <1>4

(* Every step of the warehouse is one of the archive, or none. *)
LEMMA StepRefines ==
    ASSUME MonotoneClock, LongInterval, ArchiveInv, ArchiveInv', [Next]_vars
    PROVE  [Archive!Next]_([r \in Trades |-> Phase(r)])
<1> DEFINE ph == [r \in Trades |-> Phase(r)]
<1>1. ASSUME NEW q \in Trades, trade_to_row(q) PROVE Archive!Record(q)
    BY <1>1, ArrivalRecords DEF Archive!Record
<1>2. CASE UNCHANGED ts
    <2> DEFINE kept   == {r \in Trades : Phase(r) = "recorded" /\ Phase(r)' = "archived"}
               missed == {r \in Trades : Phase(r) = "recorded" /\ Phase(r)' = "lost"}
    <2>1. /\ kept \in SUBSET Trades /\ missed \in SUBSET Trades
          /\ kept \cap missed = {}
          /\ \A r \in kept \cup missed : Phase(r) = "recorded"
        OBVIOUS
    <2>2. \A r \in Trades :
              Phase(r)' = IF r \in kept THEN "archived"
                          ELSE IF r \in missed THEN "lost" ELSE Phase(r)
        BY <1>2, OthersSettle
    <2> HIDE DEF kept, missed
    <2>3. Archive!Settle(kept, missed)
        BY <2>1, <2>2 DEF Archive!Settle
    <2>4. QED
        BY <2>1, <2>3 DEF Archive!Next
<1>3. QED
    BY <1>1, <1>2
       DEF Archive!Next, Next, vars, rowVars, Tick, StepBack, append, Start, EnterLoop,
           Signal, BeginRollup, LeaveLoop, QueryChannel, WriteParquet, WriteCsv,
           upload, report, Exit, Crash

(* The warehouse keeps the promise of TradeArchive: with a wall clock that is
   never set back and an interval of at least a second, the fate of every trade
   is settled once, whatever faults, crashes and restarts there are. *)
THEOREM WarehouseIsArchive ==
    ASSUME MonotoneClock, LongInterval
    PROVE  Spec => ImplementsArchive
<1>1. Init => Archive!Init
    BY DEF Init, Archive!Init, Phase
<1>2. ArchiveInv /\ ArchiveInv' /\ [Next]_vars =>
          [Archive!Next]_([r \in Trades |-> Phase(r)])
    BY StepRefines
<1>3. QED
    BY InitArchiveInv, NextArchiveInv, <1>1, <1>2, PTL
       DEF Spec, ImplementsArchive, Archive!Spec
=============================================================================
