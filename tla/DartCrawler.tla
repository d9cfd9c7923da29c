----------------------------- MODULE DartCrawler -----------------------------
(***************************************************************************)
(* The dart-crawler process: DartClient::poll_loop asks DART every minute  *)
(* for page one of the disclosure list, newest first, skips the receipt    *)
(* numbers in a bounded `seen` set and hands the others to a callback that *)
(* inserts them into a DisclosureStore (PostgreSQL, or a map in memory)    *)
(* and prints the ones that were not there.                                *)
(*                                                                         *)
(* Receipt numbers grow with time: the n-th disclosure has number n.       *)
(***************************************************************************)
EXTENDS Integers, Sequences, FiniteSets

CONSTANTS
    Page,        \* page_count
    MaxSeen,     \* kMaxSeen
    Bursts,      \* more than a page may be issued between two polls
    Faults,      \* the faults the environment may produce
    MaxIssued,   \* bound: disclosures issued
    MaxRestarts  \* bound: number of times the process is started

FaultKinds == {"http",     \* curl fails, status is not 200, or no list in it
               "json",     \* simdjson throws out of poll_loop
               "connect",  \* no DSN, no libpqxx, or no connection at start
               "pg",       \* the PostgreSQL connection is lost
               "insert",   \* an insert throws while the connection holds
               "crash"}    \* the process dies

\* main.cpp runs with a page of 100 and kMaxSeen = 10000.
ASSUME CrawlerAssumption ==
    /\ Page \in Nat \ {0}
    /\ MaxSeen \in Nat
    /\ MaxSeen >= 2 * Page - 1
    /\ Bursts \in BOOLEAN
    /\ Faults \subseteq FaultKinds
    /\ MaxIssued \in Nat
    /\ MaxRestarts \in Nat

VARIABLES
    issued,      \* number of disclosures DART has issued
    pc,          \* where poll_loop is
    g_run,       \* cleared by SIGINT / SIGTERM
    seen,        \* the unordered_set of poll_loop
    seen_order,  \* its deque, oldest insertion first
    page,        \* what is left of the list being worked through
    polled,      \* `issued` when the last successful list was answered
    backend,     \* the store main() made: "pg" or "mem"
    conn,        \* whether the PostgreSQL connection is up
    table,       \* rows of dart_disclosure
    by_id,       \* keys of the in-memory store
    failed,      \* numbers of the "insert failed" lines of this process
    handed,      \* numbers handed to on_new by this process, in order
    printed,     \* [NEW] lines of all processes: <<backend, number>>
    since,       \* `issued` when this process first polled, or NotPolled
    restarts     \* number of starts so far

seenVars  == <<seen, seen_order>>
storeVars == <<backend, conn, table, by_id>>
lineVars  == <<failed, handed, printed>>
vars == <<issued, pc, g_run, seen, seen_order, page, polled, backend, conn,
          table, by_id, failed, handed, printed, since, restarts>>

NotPolled == -1
Numbers == 1 .. MaxIssued
Elements(s) == {s[i] : i \in DOMAIN s}

TypeOK ==
    /\ issued \in 0 .. MaxIssued
    /\ pc \in {"down", "poll", "page", "sleep"}
    /\ g_run \in BOOLEAN
    /\ seen_order \in Seq(Numbers)
    /\ seen = Elements(seen_order)
    /\ Len(seen_order) = Cardinality(seen)
    /\ Len(seen_order) <= MaxSeen
    /\ page \in Seq(Numbers)
    /\ polled \in 0 .. MaxIssued
    /\ backend \in {"pg", "mem"}
    /\ conn \in BOOLEAN
    /\ table \subseteq Numbers
    /\ by_id \subseteq Numbers
    /\ failed \subseteq Numbers
    /\ handed \in Seq(Numbers)
    /\ printed \in Seq({"pg", "mem"} \X Numbers)
    /\ since \in (0 .. MaxIssued) \cup {NotPolled}
    /\ restarts \in 0 .. MaxRestarts

Init ==
    /\ issued \in 0 .. MaxIssued
    /\ issued <= Page + 1
    /\ pc = "down"
    /\ g_run = TRUE
    /\ seen = {}
    /\ seen_order = <<>>
    /\ page = <<>>
    /\ polled = 0
    /\ backend = "mem"
    /\ conn = FALSE
    /\ table = {}
    /\ by_id = {}
    /\ failed = {}
    /\ handed = <<>>
    /\ printed = <<>>
    /\ since = NotPolled
    /\ restarts = 0

-----------------------------------------------------------------------------
(* The outside: DART, PostgreSQL, signals.                                  *)

Issue ==
    /\ issued < MaxIssued
    /\ \/ Bursts
       \/ since = NotPolled
       \/ issued < polled + Page
    /\ issued' = issued + 1
    /\ UNCHANGED <<pc, g_run, seenVars, page, polled, storeVars, lineVars,
                   since, restarts>>

LoseConnection ==
    /\ "pg" \in Faults
    /\ conn
    /\ conn' = FALSE
    /\ UNCHANGED <<issued, pc, g_run, seenVars, page, polled, backend, table,
                   by_id, lineVars, since, restarts>>

Signal ==
    /\ pc # "down"
    /\ g_run
    /\ g_run' = FALSE
    /\ UNCHANGED <<issued, pc, seenVars, page, polled, storeVars, lineVars,
                   since, restarts>>

-----------------------------------------------------------------------------
(* main() and poll_loop.                                                    *)

\* make_postgres, or the in-memory store when it returns nullptr.
MakeStore ==
    /\ \/ backend' = "pg" /\ conn' = TRUE
       \/ "connect" \in Faults /\ backend' = "mem" /\ conn' = FALSE
    /\ by_id' = {}

\* poll_loop starts with nothing seen.
Start ==
    /\ pc = "down"
    /\ restarts < MaxRestarts
    /\ restarts' = restarts + 1
    /\ pc' = "poll"
    /\ g_run' = TRUE
    /\ seen' = {}
    /\ seen_order' = <<>>
    /\ page' = <<>>
    /\ MakeStore
    /\ failed' = {}
    /\ handed' = <<>>
    /\ since' = NotPolled
    /\ UNCHANGED <<issued, polled, table, printed>>

\* Page one of the list.
Newest == [i \in 1 .. (IF issued < Page THEN issued ELSE Page) |->
              issued - i + 1]

list ==
    /\ pc = "poll"
    /\ g_run
    /\ page' = Newest
    /\ polled' = issued
    /\ since' = IF since = NotPolled THEN issued ELSE since
    /\ pc' = "page"
    /\ UNCHANGED <<issued, g_run, seenVars, storeVars, lineVars, restarts>>

\* list() returns no records.
ListFails ==
    /\ pc = "poll"
    /\ g_run
    /\ "http" \in Faults
    /\ pc' = "sleep"
    /\ UNCHANGED <<issued, g_run, seenVars, page, polled, storeVars, lineVars,
                   since, restarts>>

\* keep_running() says no.
Leave ==
    /\ pc = "poll"
    /\ ~g_run
    /\ pc' = "down"
    /\ UNCHANGED <<issued, g_run, seenVars, page, polled, storeVars, lineVars,
                   since, restarts>>

\* Whether the deque is too long with one more number in it.
\* (mutant) kMaxSeen counts the number that is about to go.
OverflowsEarly == Len(seen_order) + 1 >= MaxSeen
Overflows == Len(seen_order) + 1 > MaxSeen

\* The deque after push_back and the eviction, oldest insertion first.
Remember(d) ==
    IF Overflows THEN Tail(Append(seen_order, d)) ELSE Append(seen_order, d)

\* The set after the insertion and the eviction.
Seen(d) ==
    IF Overflows
    THEN (seen \cup {d}) \ {Head(Append(seen_order, d))}
    ELSE seen \cup {d}

\* affected_rows() of INSERT ... ON CONFLICT DO NOTHING.
\* (mutant) ON CONFLICT DO UPDATE: a row is affected every time.
AffectedUpsert(d) == TRUE
Affected(d) == d \notin table

\* (mutant) the transaction is never committed.
CommitNever(d) == UNCHANGED table
Commit(d) == table' = table \cup {d}

\* What the catch clause sees: the connection is gone for good, or another
\* exception came of it (a value PostgreSQL refuses, a lock or a statement
\* timeout), or it breaks now, with the commit in doubt.
Throws(d) ==
    \/ ~conn /\ UNCHANGED <<table, conn>>
    \/ "insert" \in Faults /\ conn /\ UNCHANGED <<table, conn>>
    \/ /\ "pg" \in Faults
       /\ conn
       /\ conn' = FALSE
       /\ Commit(d) \/ UNCHANGED table

\* PostgresStore::insert, which returns `new`.
PgInsert(d, new) ==
    /\ \/ /\ conn
          /\ new = Affected(d)
          /\ Commit(d)
          /\ UNCHANGED <<conn, failed>>
       \/ /\ ~new
          /\ Throws(d)
          /\ failed' = failed \cup {d}
    /\ UNCHANGED by_id

\* InMemoryStore::insert.
MemInsert(d, new) ==
    /\ new = (d \notin by_id)
    /\ by_id' = by_id \cup {d}
    /\ UNCHANGED <<table, conn, failed>>

insert(d, new) == IF backend = "pg" THEN PgInsert(d, new) ELSE MemInsert(d, new)

\* The callback main() installs.
on_new(d) ==
    /\ \E new \in BOOLEAN :
          /\ insert(d, new)
          /\ printed' = IF new THEN Append(printed, <<backend, d>>) ELSE printed
    /\ handed' = Append(handed, d)

\* What is left of the list after one round.
\* (mutant) one record per poll.
RestNone == <<>>
Rest == Tail(page)

\* One round of the loop over the list.
Record ==
    /\ pc = "page"
    /\ page # <<>>
    /\ page' = Rest
    /\ LET d == Head(page)
       IN  IF d \in seen
           THEN UNCHANGED <<seenVars, conn, table, by_id, lineVars>>
           ELSE /\ seen' = Seen(d)
                /\ seen_order' = Remember(d)
                /\ on_new(d)
    /\ UNCHANGED <<issued, pc, g_run, polled, backend, since, restarts>>

PageDone ==
    /\ pc = "page"
    /\ page = <<>>
    /\ pc' = "sleep"
    /\ UNCHANGED <<issued, g_run, seenVars, page, polled, storeVars, lineVars,
                   since, restarts>>

WakeUp ==
    /\ pc = "sleep"
    /\ pc' = "poll"
    /\ UNCHANGED <<issued, g_run, seenVars, page, polled, storeVars, lineVars,
                   since, restarts>>

\* The process dies, or simdjson throws; the row being inserted may have been
\* committed and its line not printed.
Crash ==
    /\ pc # "down"
    /\ \/ "crash" \in Faults
       \/ "json" \in Faults /\ pc = "poll" /\ g_run
    /\ pc' = "down"
    /\ page' = <<>>
    /\ by_id' = {}
    /\ \/ UNCHANGED table
       \/ /\ pc = "page"
          /\ page # <<>>
          /\ Head(page) \notin seen
          /\ backend = "pg"
          /\ conn
          /\ table' = table \cup {Head(page)}
    /\ UNCHANGED <<issued, g_run, seenVars, polled, backend, conn, lineVars,
                   since, restarts>>

-----------------------------------------------------------------------------

Crawler == \/ list
           \/ ListFails
           \/ Leave
           \/ Record
           \/ PageDone
           \/ WakeUp

Next ==
    \/ Issue
    \/ LoseConnection
    \/ Signal
    \/ Start
    \/ Crawler
    \/ Crash

Spec == Init /\ [][Next]_vars

\* The loop keeps running, and DART is not unreachable for ever.
FairSpec == Spec /\ WF_vars(Crawler) /\ SF_vars(list)

-----------------------------------------------------------------------------

(* "Only new disclosures go to the callback" (dart_client.hpp:41): one process
   hands no receipt number to on_new twice, although old numbers are forgotten
   and a page is worked through newest first - the room kMaxSeen leaves is
   what makes it so. *)
HandedOnce ==
    \A i, j \in DOMAIN handed : handed[i] = handed[j] => i = j

(* Unless more than a page is issued between two polls that succeed, nothing
   issued since the process first polled is skipped, whatever polls fail. *)
NothingSkipped ==
    ~Bursts /\ pc # "down" /\ since # NotPolled =>
        \A n \in since + 1 .. polled :
            n \in Elements(handed) \cup Elements(page)

(* poll_loop remembers a number before on_new is called and never hands it on
   again, so what insert() fails to store is lost to this process; it is not
   lost silently.  With PostgreSQL, whichever inserts throw and whenever the
   connection breaks, a number that was handed on is in the table or has an
   "insert failed" line.  And over restarts, crashes, commits in doubt and
   fallbacks to memory, a [NEW] line for the table is about a row that is there
   and is printed at most once. *)
StoredOrLogged ==
    /\ backend = "pg" /\ pc # "down" =>
          Elements(handed) \subseteq table \cup failed
    /\ \A i \in DOMAIN printed : printed[i][1] = "pg" => printed[i][2] \in table
    /\ \A i, j \in DOMAIN printed :
          printed[i][1] = "pg" /\ printed[i] = printed[j] => i = j

(* A disclosure issued while the crawler runs is handed on in the end, unless
   a burst pushes it off page one, or the crawler stops. *)
HandedInTheEnd ==
    \A n \in Numbers :
        (issued = n /\ since # NotPolled /\ n > since) ~>
            (n \in Elements(handed) \/ Bursts \/ ~g_run \/ pc = "down")

=============================================================================
