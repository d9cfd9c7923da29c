---------------------------- MODULE CrawlerProofs ----------------------------
(***************************************************************************)
(* Proofs about DartCrawler, for every page length and every bound on the  *)
(* set of remembered numbers that leaves the room CrawlerAssumption asks   *)
(* for: no number is handed on twice, none is skipped, and what was handed *)
(* on is stored, or its failure is logged, and printed once.               *)
(*                                                                         *)
(* The deque of poll_loop holds the numbers handed on last.  A number that *)
(* has left it was handed on at least MaxSeen numbers ago, and every       *)
(* number since is less than a page away from it on either side as long as *)
(* it is still on page one: there are only 2 * Page - 2 of those.          *)
(***************************************************************************)
EXTENDS DartCrawler, FiniteSetTheorems, TLAPS

\* The types, but for what TypeOK says of the remembered numbers.
ValuesInv ==
    /\ issued \in 0 .. MaxIssued
    /\ pc \in {"down", "poll", "page", "sleep"}
    /\ g_run \in BOOLEAN
    /\ seen_order \in Seq(Numbers)
    /\ page \in Seq(Numbers)
    /\ polled \in 0 .. MaxIssued
    /\ backend \in {"pg", "mem"}
    /\ conn \in BOOLEAN
    /\ table \subseteq Numbers
    /\ by_id \subseteq Numbers
    /\ failed \subseteq Numbers
    /\ handed \in Seq(Numbers)
    /\ printed \in Seq({"pg", "mem"} \X Numbers)
    /\ since \in (0 .. MaxIssued) \cup {NotPolled}
    /\ restarts \in 0 .. MaxRestarts

(* The list being worked through is a part of page one as it was at the last
   poll. *)
PageInv ==
    /\ pc # "page" => page = <<>>
    /\ polled <= issued
    /\ \A i \in DOMAIN page : polled - Page < page[i] /\ page[i] <= polled

(* The set and the deque hold the same numbers, the last MaxSeen of those that
   were handed on. *)
SeenInv ==
    /\ seen = Elements(seen_order)
    /\ Len(seen_order) <= Len(handed)
    /\ Len(seen_order) <= MaxSeen
    /\ Len(seen_order) < MaxSeen => Len(handed) = Len(seen_order)
    /\ \A i \in DOMAIN seen_order :
          seen_order[i] = handed[Len(handed) - Len(seen_order) + i]

(* What is handed on later may be older, by less than a page. *)
HandedInv ==
    /\ HandedOnce
    /\ \A i \in DOMAIN handed : handed[i] <= polled
    /\ \A i, j \in DOMAIN handed : i < j => handed[i] - Page < handed[j]

(* Without bursts, what has not been polled yet fits on a page. *)
CoverInv ==
    /\ ~Bursts /\ since # NotPolled => issued <= polled + Page
    /\ NothingSkipped

CrawlerInv ==
    ValuesInv /\ PageInv /\ SeenInv /\ HandedInv /\ CoverInv /\ StoredOrLogged

-----------------------------------------------------------------------------
(* The types.                                                               *)

LEMMA Bounds ==
    /\ Page \in Nat /\ Page >= 1
    /\ MaxSeen \in Nat /\ MaxSeen >= 1 /\ MaxSeen > 2 * Page - 2
    /\ MaxIssued \in Nat
    /\ MaxRestarts \in Nat
  BY CrawlerAssumption

LEMMA NewestType ==
    ASSUME issued \in 0 .. MaxIssued
    PROVE  /\ Newest \in Seq(Numbers)
           /\ \A i \in DOMAIN Newest :
                 issued - Page < Newest[i] /\ Newest[i] <= issued
           /\ \A n \in 1 .. issued : issued - Page < n => n \in Elements(Newest)
<1> DEFINE L == IF issued < Page THEN issued ELSE Page
<1>1. /\ L \in Nat /\ L <= issued /\ L <= Page /\ issued \in Nat
      /\ \A n \in 1 .. issued : issued - Page < n => issued - n + 1 \in 1 .. L
    BY Bounds
<1> HIDE DEF L
<1>2. \A i \in 1 .. L : issued - i + 1 \in Numbers /\ issued - Page < issued - i + 1
                          /\ issued - i + 1 <= issued
    BY <1>1, Bounds DEF Numbers
<1>3. Newest = [i \in 1 .. L |-> issued - i + 1]
    BY DEF Newest, L
<1>4. Newest \in Seq(Numbers) /\ DOMAIN Newest = 1 .. L
    BY <1>1, <1>2, <1>3
<1>5. ASSUME NEW n \in 1 .. issued, issued - Page < n
      PROVE  n \in Elements(Newest)
  <2>1. issued - n + 1 \in 1 .. L
    BY <1>1, <1>5
  <2>2. issued - (issued - n + 1) + 1 = n
    BY <1>1
  <2>3. Newest[issued - n + 1] = n
    BY <2>1, <2>2, <1>3
  <2> QED
    BY <2>1, <2>3, <1>4 DEF Elements
<1> QED
    BY <1>2, <1>3, <1>4, <1>5

\* The head of a list that is left, and the rest.
LEMMA HeadOfPage ==
    ASSUME page \in Seq(Numbers), page # <<>>
    PROVE  /\ Head(page) \in Numbers
           /\ Head(page) = page[1] /\ 1 \in DOMAIN page
           /\ Tail(page) \in Seq(Numbers)
           /\ \A i \in DOMAIN Tail(page) :
                 i + 1 \in DOMAIN page /\ Tail(page)[i] = page[i + 1]
           /\ Elements(page) \subseteq Elements(Tail(page)) \cup {Head(page)}
<1>1. /\ Head(page) \in Numbers
      /\ Head(page) = page[1] /\ 1 \in DOMAIN page
      /\ Tail(page) \in Seq(Numbers)
      /\ \A i \in DOMAIN Tail(page) :
            i + 1 \in DOMAIN page /\ Tail(page)[i] = page[i + 1]
    OBVIOUS
<1>2. ASSUME NEW i \in DOMAIN page
      PROVE  page[i] \in Elements(Tail(page)) \cup {Head(page)}
  <2>1. CASE i = 1
    BY <1>1, <2>1
  <2>2. CASE i # 1
    <3>1. i - 1 \in DOMAIN Tail(page) /\ Tail(page)[i - 1] = page[i]
      BY <2>2
    <3> QED
      BY <3>1 DEF Elements
  <2> QED
    BY <2>1, <2>2
<1> QED
    BY <1>1, <1>2 DEF Elements

\* What an append to a log of numbers does.
LEMMA Logged ==
    ASSUME NEW s \in Seq(Numbers), NEW d \in Numbers
    PROVE  /\ Append(s, d) \in Seq(Numbers)
           /\ Len(Append(s, d)) = Len(s) + 1
           /\ DOMAIN s = 1 .. Len(s) /\ Len(s) \in Nat
           /\ DOMAIN Append(s, d) = 1 .. Len(s) + 1
           /\ \A i \in 1 .. Len(s) : Append(s, d)[i] = s[i]
           /\ Append(s, d)[Len(s) + 1] = d
           /\ Elements(Append(s, d)) = Elements(s) \cup {d}
<1>1. /\ Append(s, d) \in Seq(Numbers)
      /\ Len(Append(s, d)) = Len(s) + 1
      /\ DOMAIN s = 1 .. Len(s) /\ Len(s) \in Nat
      /\ DOMAIN Append(s, d) = 1 .. Len(s) + 1
      /\ \A i \in 1 .. Len(s) : Append(s, d)[i] = s[i]
      /\ Append(s, d)[Len(s) + 1] = d
    OBVIOUS
<1>2. /\ \A i \in 1 .. Len(s) + 1 : i \in 1 .. Len(s) \/ i = Len(s) + 1
      /\ 1 .. Len(s) \subseteq 1 .. Len(s) + 1
      /\ Len(s) + 1 \in 1 .. Len(s) + 1
    BY <1>1
<1> QED
    BY <1>1, <1>2 DEF Elements

\* The deque after a round: one number longer, or as long and without its
\* oldest.
LEMMA RememberIs ==
    ASSUME ValuesInv, SeenInv, NEW d \in Numbers
    PROVE  /\ Remember(d) \in Seq(Numbers)
           /\ ~Overflows => Remember(d) = Append(seen_order, d)
           /\ Overflows =>
                /\ Len(seen_order) = MaxSeen
                /\ Len(Remember(d)) = MaxSeen
                /\ \A i \in 1 .. MaxSeen :
                      Remember(d)[i] = Append(seen_order, d)[i + 1]
<1>1. /\ seen_order \in Seq(Numbers)
      /\ Len(seen_order) <= MaxSeen
    BY DEF ValuesInv, SeenInv
<1>2. /\ Append(seen_order, d) \in Seq(Numbers)
      /\ Len(Append(seen_order, d)) = Len(seen_order) + 1
      /\ Len(seen_order) \in Nat
    BY <1>1, Logged
<1>3. CASE ~Overflows
    BY <1>2, <1>3 DEF Remember
<1>4. CASE Overflows
  <2>1. Len(seen_order) = MaxSeen
    BY <1>1, <1>2, <1>4, Bounds DEF Overflows
  <2>2. Remember(d) = Tail(Append(seen_order, d))
    BY <1>4 DEF Remember
  <2> HIDE DEF Remember
  <2>3. DEFINE t == Append(seen_order, d)
  <2>4. t \in Seq(Numbers) /\ Len(t) = MaxSeen + 1 /\ Remember(d) = Tail(t)
    BY <1>2, <2>1, <2>2
  <2> HIDE DEF t
  <2>5. /\ Tail(t) \in Seq(Numbers)
        /\ Len(Tail(t)) = MaxSeen
        /\ \A i \in 1 .. MaxSeen : Tail(t)[i] = t[i + 1]
    BY <2>4, Bounds
  <2> QED
    BY <1>4, <2>1, <2>4, <2>5 DEF t
<1> QED
    BY <1>3, <1>4

\* An insert stores the row or fails; only a row that was not there is new.
LEMMA InsertIs ==
    ASSUME ValuesInv, NEW d \in Numbers, NEW new \in BOOLEAN, insert(d, new)
    PROVE  /\ table \subseteq table' /\ table' \subseteq Numbers
           /\ by_id' \subseteq Numbers
           /\ failed \subseteq failed' /\ failed' \subseteq Numbers
           /\ conn' \in BOOLEAN
           /\ backend = "pg" => d \in table' \cup failed'
           /\ backend = "pg" /\ new => d \notin table /\ d \in table'
<1>1. CASE backend = "pg" /\ PgInsert(d, new)
  <2>1. CASE /\ conn
             /\ new = Affected(d)
             /\ Commit(d)
             /\ UNCHANGED <<conn, failed, by_id>>
    BY <1>1, <2>1 DEF Affected, Commit, ValuesInv
  <2>2. CASE ~new /\ Throws(d) /\ failed' = failed \cup {d} /\ by_id' = by_id
    BY <1>1, <2>2 DEF Throws, Commit, ValuesInv
  <2> QED
    BY <1>1, <2>1, <2>2 DEF PgInsert
<1>2. CASE backend # "pg" /\ MemInsert(d, new)
    BY <1>2 DEF MemInsert, ValuesInv
<1> QED
    BY <1>1, <1>2 DEF insert

LEMMA StepValues ==
    ASSUME ValuesInv, SeenInv, [Next]_vars
    PROVE  ValuesInv'
<1> USE DEF seenVars, storeVars, lineVars
<1>1. CASE Issue
    BY <1>1, Bounds DEF Issue, ValuesInv
<1>2. CASE LoseConnection
    BY <1>2 DEF LoseConnection, ValuesInv
<1>3. CASE Signal
    BY <1>3 DEF Signal, ValuesInv
<1>4. CASE Start
  <2>1. <<>> \in Seq(Numbers) /\ restarts' \in 0 .. MaxRestarts
    BY <1>4, Bounds DEF Start, ValuesInv
  <2> QED
    BY <1>4, <2>1 DEF Start, MakeStore, ValuesInv
<1>5. CASE list
    BY <1>5, NewestType DEF list, ValuesInv
<1>6. CASE ListFails
    BY <1>6 DEF ListFails, ValuesInv
<1>7. CASE Leave
    BY <1>7 DEF Leave, ValuesInv
<1>8. CASE Record
  <2>1. Head(page) \in Numbers /\ page' \in Seq(Numbers)
    BY <1>8, HeadOfPage DEF Record, Rest, ValuesInv
  <2>2. CASE Head(page) \in seen
    BY <1>8, <2>1, <2>2 DEF Record, ValuesInv
  <2>3. CASE Head(page) \notin seen
    <3> DEFINE d == Head(page)
    <3>1. seen_order' = Remember(d) /\ on_new(d)
      BY <1>8, <2>3 DEF Record
    <3>2. d \in Numbers
      BY <2>1
    <3> HIDE DEF d
    <3>3. seen_order' \in Seq(Numbers)
      BY <3>1, <3>2, RememberIs
    <3>4. handed' \in Seq(Numbers)
      BY <3>1, <3>2, Logged DEF on_new, ValuesInv
    <3>7. PICK new \in BOOLEAN :
             /\ insert(d, new)
             /\ printed' = IF new THEN Append(printed, <<backend, d>>) ELSE printed
      BY <3>1 DEF on_new
    <3>5. printed' \in Seq({"pg", "mem"} \X Numbers)
      <4>1. /\ <<backend, d>> \in {"pg", "mem"} \X Numbers
            /\ printed \in Seq({"pg", "mem"} \X Numbers)
        BY <3>2 DEF ValuesInv
      <4>2. printed' \in {printed, Append(printed, <<backend, d>>)}
        BY <3>7
      <4> QED
        BY <4>1, <4>2
    <3>6. /\ table' \subseteq Numbers /\ by_id' \subseteq Numbers
          /\ failed' \subseteq Numbers /\ conn' \in BOOLEAN
      BY <3>2, <3>7, InsertIs
    <3> QED
      BY <1>8, <2>1, <3>3, <3>4, <3>5, <3>6 DEF Record, ValuesInv
  <2> QED
    BY <2>2, <2>3
<1>9. CASE PageDone
    BY <1>9 DEF PageDone, ValuesInv
<1>10. CASE WakeUp
    BY <1>10 DEF WakeUp, ValuesInv
<1>11. CASE Crash
  <2>1. <<>> \in Seq(Numbers)
    OBVIOUS
  <2>2. table' \subseteq Numbers
    BY <1>11, HeadOfPage DEF Crash, ValuesInv
  <2> QED
    BY <1>11, <2>1, <2>2 DEF Crash, ValuesInv
<1>12. CASE UNCHANGED vars
    BY <1>12 DEF vars, ValuesInv
<1> QED
    BY <1>1, <1>2, <1>3, <1>4, <1>5, <1>6, <1>7, <1>8, <1>9, <1>10, <1>11, <1>12
       DEF Next, Crawler

-----------------------------------------------------------------------------
(* The list being worked through.                                           *)

LEMMA StepPage ==
    ASSUME ValuesInv, PageInv, [Next]_vars
    PROVE  PageInv'
<1> USE DEF seenVars, storeVars, lineVars
<1>t. issued \in Nat /\ polled \in Nat /\ page \in Seq(Numbers)
    BY Bounds DEF ValuesInv
<1>1. CASE Issue
    BY <1>1, <1>t DEF Issue, PageInv
<1>2. CASE list
    BY <1>2, <1>t, NewestType DEF list, PageInv, ValuesInv
<1>3. CASE Record
  <2>1. \A i \in DOMAIN page' : i + 1 \in DOMAIN page /\ page'[i] = page[i + 1]
    BY <1>3, <1>t, HeadOfPage DEF Record, Rest
  <2> QED
    BY <1>3, <2>1 DEF Record, PageInv
<1>4. CASE LoseConnection \/ Signal \/ ListFails \/ Leave \/ PageDone \/ WakeUp \/ UNCHANGED vars
    BY <1>4 DEF LoseConnection, Signal, ListFails, Leave, PageDone, WakeUp, vars, PageInv
<1>5. CASE Start \/ Crash
  <2>1. page' = <<>> /\ UNCHANGED <<polled, issued>>
    BY <1>5 DEF Start, Crash
  <2> QED
    BY <2>1 DEF PageInv
<1> QED
    BY <1>1, <1>2, <1>3, <1>4, <1>5 DEF Next, Crawler

-----------------------------------------------------------------------------
(* What is forgotten has left page one.                                     *)

\* Fewer than 2 * Page - 1 different numbers are less than a page from d.
LEMMA FewNeighbours ==
    ASSUME NEW d \in Int, NEW k \in Nat, NEW s \in Seq(Numbers),
           \A i, j \in DOMAIN s : s[i] = s[j] => i = j,
           NEW n \in Nat, n > 2 * Page - 2,
           k >= 1, k + n <= Len(s),
           s[k] = d,
           \A i \in 1 .. n : d - Page < s[k + i] /\ s[k + i] < d + Page
    PROVE  FALSE
<1> DEFINE S == 1 .. n
           T == (d - Page + 1 .. d + Page - 1) \ {d}
           f == [i \in S |-> s[k + i]]
<1>1. IsFiniteSet(S) /\ Cardinality(S) = n
    BY FS_Interval, 1 \in Int, n \in Int
<1>2. IsFiniteSet(T) /\ Cardinality(T) = 2 * Page - 2
  <2>1. Page \in Int /\ Page >= 1
    BY Bounds
  <2> DEFINE I == d - Page + 1 .. d + Page - 1
  <2>2. IsFiniteSet(I) /\ Cardinality(I) = 2 * Page - 1
    <3>1. d - Page + 1 \in Int /\ d + Page - 1 \in Int
      BY <2>1
    <3>2. ~(d - Page + 1 > d + Page - 1) /\ (d + Page - 1) - (d - Page + 1) + 1 = 2 * Page - 1
      BY <2>1
    <3> QED
      BY <3>1, <3>2, FS_Interval
  <2>3. d \in I
    BY <2>1
  <2> HIDE DEF I
  <2>4. IsFiniteSet(I \ {d}) /\ Cardinality(I \ {d}) = Cardinality(I) - 1
    BY <2>2, <2>3, FS_RemoveElement
  <2> QED
    BY <2>1, <2>2, <2>4 DEF I
<1>3. \A i \in S : k + i \in DOMAIN s /\ k \in DOMAIN s /\ k + i # k /\ s[k + i] \in Int
  <2>1. \A i \in S : k + i \in 1 .. Len(s) /\ k \in 1 .. Len(s) /\ k + i # k
    OBVIOUS
  <2>2. DOMAIN s = 1 .. Len(s) /\ \A i \in 1 .. Len(s) : s[i] \in Numbers
    OBVIOUS
  <2> QED
    BY <2>1, <2>2, Bounds DEF Numbers
<1>4. \A i \in S : s[k + i] # d
    BY <1>3
<1>5. f \in [S -> T]
  <2>1. \A x \in Int : d - Page < x /\ x < d + Page => x \in d - Page + 1 .. d + Page - 1
    BY Bounds
  <2>2. \A i \in S : s[k + i] \in T
    BY <1>3, <1>4, <2>1
  <2> QED
    BY <2>2
<1>6. Cardinality(T) < Cardinality(S)
    BY <1>1, <1>2, Bounds
<1> HIDE DEF S, T
<1>7. \E x, y \in S : x # y /\ f[x] = f[y]
  <2> HIDE DEF f
  <2> QED
    BY <1>1, <1>2, <1>5, <1>6, FS_PigeonHole
<1>8. PICK x \in S, y \in S : x # y /\ s[k + x] = s[k + y]
    BY <1>7
<1>9. k + x # k + y
  <2>1. x \in Int /\ y \in Int
    BY DEF S
  <2> QED
    BY <2>1, <1>8
<1> QED
    BY <1>3, <1>8, <1>9

\* A number of the list that was handed on before is still remembered: the
\* room kMaxSeen leaves.
LEMMA NotForgotten ==
    ASSUME ValuesInv, PageInv, SeenInv, HandedInv,
           NEW d \in Elements(page), d \in Elements(handed)
    PROVE  d \in seen
<1>1. /\ handed \in Seq(Numbers) /\ seen_order \in Seq(Numbers)
      /\ DOMAIN handed = 1 .. Len(handed) /\ Len(handed) \in Nat
      /\ DOMAIN seen_order = 1 .. Len(seen_order) /\ Len(seen_order) \in Nat
      /\ polled \in Int
    BY Bounds DEF ValuesInv
<1>2. PICK k \in 1 .. Len(handed) : handed[k] = d
    BY <1>1 DEF Elements
<1>n. d \in Int /\ \A i \in DOMAIN handed : handed[i] \in Int
  <2>1. \A x \in Numbers : x \in Int
    BY Bounds DEF Numbers
  <2>2. \A i \in 1 .. Len(handed) : handed[i] \in Numbers
    BY <1>1
  <2> QED
    BY <1>1, <1>2, <2>1, <2>2
<1>3. CASE k > Len(handed) - Len(seen_order)
  <2> DEFINE i == k - (Len(handed) - Len(seen_order))
  <2>1. i \in 1 .. Len(seen_order) /\ Len(handed) - Len(seen_order) + i = k
    BY <1>1, <1>3
  <2>2. seen_order[i] = d
    BY <1>1, <1>2, <2>1 DEF SeenInv
  <2> QED
    BY <1>1, <2>1, <2>2 DEF SeenInv, Elements
<1>4. CASE k <= Len(handed) - Len(seen_order)
  <2>1. Len(seen_order) = MaxSeen /\ k + MaxSeen <= Len(handed)
    <3>1. Len(handed) \in Nat /\ Len(seen_order) \in Nat /\ k \in Nat /\ k >= 1
      BY <1>1
    <3>2. /\ Len(seen_order) <= MaxSeen
          /\ Len(seen_order) < MaxSeen => Len(handed) = Len(seen_order)
      BY DEF SeenInv
    <3> QED
      BY <1>4, <3>1, <3>2, Bounds
  <2>2. polled - Page < d
    BY DEF PageInv, Elements
  <2>3. ASSUME NEW i \in 1 .. MaxSeen
        PROVE  d - Page < handed[k + i] /\ handed[k + i] < d + Page
    <3>1. k + i \in DOMAIN handed /\ k \in DOMAIN handed /\ k < k + i
      BY <1>1, <2>1, Bounds
    <3>2. handed[k] - Page < handed[k + i]
      BY <3>1 DEF HandedInv
    <3>3. handed[k + i] <= polled
      BY <3>1 DEF HandedInv
    <3>4. handed[k + i] \in Int
      BY <3>1, <1>n
    <3> QED
      BY <1>1, <1>2, <1>n, <2>2, <3>2, <3>3, <3>4, Bounds
  <2>4. k \in Nat /\ k >= 1
    OBVIOUS
  <2>5. \A i, j \in DOMAIN handed : handed[i] = handed[j] => i = j
    BY DEF HandedInv, HandedOnce
  <2> QED
    BY <1>1, <1>2, <1>n, <2>1, <2>3, <2>4, <2>5, FewNeighbours, Bounds
<1> QED
    BY <1>1, <1>3, <1>4

-----------------------------------------------------------------------------
(* A round of the list.                                                     *)

\* A new number of the list was never handed on, and is less than a page older
\* than what was.
LEMMA RoundHands ==
    ASSUME ValuesInv, PageInv, SeenInv, HandedInv,
           NEW d \in Numbers, d \in Elements(page), d \notin seen,
           handed' = Append(handed, d), polled' = polled
    PROVE  HandedInv'
<1>1. /\ handed \in Seq(Numbers)
      /\ polled \in Int
      /\ polled - Page < d /\ d <= polled
      /\ d \in Int
    BY Bounds DEF ValuesInv, PageInv, Elements, Numbers
<1>2. /\ DOMAIN handed = 1 .. Len(handed) /\ Len(handed) \in Nat
      /\ DOMAIN handed' = 1 .. Len(handed) + 1
      /\ \A i \in 1 .. Len(handed) : handed'[i] = handed[i]
      /\ handed'[Len(handed) + 1] = d
    BY <1>1, Logged
<1>3. \A i \in 1 .. Len(handed) : handed[i] # d
    BY <1>2, NotForgotten DEF Elements
<1>4. HandedOnce'
    BY <1>2, <1>3 DEF HandedInv, HandedOnce
<1>5. \A i \in DOMAIN handed' : handed'[i] <= polled'
  <2>1. \A i \in 1 .. Len(handed) : handed[i] <= polled
    BY <1>2 DEF HandedInv
  <2> QED
    BY <1>1, <1>2, <2>1
<1>6. ASSUME NEW i \in DOMAIN handed', NEW j \in DOMAIN handed', i < j
      PROVE  handed'[i] - Page < handed'[j]
  <2>1. i \in 1 .. Len(handed) /\ handed'[i] = handed[i]
    BY <1>2, <1>6
  <2>2. CASE j \in 1 .. Len(handed)
    BY <1>2, <1>6, <2>1, <2>2 DEF HandedInv
  <2>3. CASE j = Len(handed) + 1
    <3>1. handed[i] \in Int /\ handed[i] <= polled
      <4>1. handed[i] \in Numbers
        BY <1>1, <1>2, <2>1
      <4> QED
        BY <4>1, <1>2, <2>1, Bounds DEF HandedInv, Numbers
    <3> QED
      BY <1>1, <1>2, <2>1, <2>3, <3>1, Bounds
  <2> QED
    BY <1>2, <2>2, <2>3
<1> QED
    BY <1>4, <1>5, <1>6 DEF HandedInv

\* The remembered numbers are still the last ones handed on.
LEMMA RoundRemembers ==
    ASSUME ValuesInv, SeenInv, HandedOnce', NEW d \in Numbers, d \notin seen,
           handed' = Append(handed, d),
           seen_order' = Remember(d), seen' = Seen(d)
    PROVE  SeenInv'
<1>1. /\ handed \in Seq(Numbers) /\ seen_order \in Seq(Numbers)
      /\ Len(seen_order) <= Len(handed)
    BY DEF ValuesInv, SeenInv
<1>2. /\ DOMAIN handed = 1 .. Len(handed) /\ Len(handed) \in Nat
      /\ DOMAIN handed' = 1 .. Len(handed) + 1
      /\ Len(handed') = Len(handed) + 1
      /\ \A i \in 1 .. Len(handed) : handed'[i] = handed[i]
      /\ handed'[Len(handed) + 1] = d
    BY <1>1, Logged
<1> DEFINE t == Append(seen_order, d)
<1>3. /\ t \in Seq(Numbers)
      /\ DOMAIN seen_order = 1 .. Len(seen_order) /\ Len(seen_order) \in Nat
      /\ Len(t) = Len(seen_order) + 1
      /\ DOMAIN t = 1 .. Len(seen_order) + 1
      /\ \A i \in 1 .. Len(seen_order) : t[i] = seen_order[i]
      /\ t[Len(seen_order) + 1] = d
      /\ Elements(t) = seen \cup {d}
    BY <1>1, Logged DEF SeenInv
<1> HIDE DEF t
<1>4. \A i \in 1 .. Len(seen_order) + 1 :
         t[i] = handed'[Len(handed) - Len(seen_order) + i]
  <2>1. ASSUME NEW i \in 1 .. Len(seen_order)
        PROVE  t[i] = handed'[Len(handed) - Len(seen_order) + i]
    <3>1. seen_order[i] = handed[Len(handed) - Len(seen_order) + i]
      BY <1>3 DEF SeenInv
    <3>2. Len(handed) - Len(seen_order) + i \in 1 .. Len(handed)
      BY <1>1, <1>2, <1>3
    <3> QED
      BY <1>2, <1>3, <3>1, <3>2
  <2>2. t[Len(seen_order) + 1] = handed'[Len(handed) - Len(seen_order) + (Len(seen_order) + 1)]
    <3>1. Len(handed) - Len(seen_order) + (Len(seen_order) + 1) = Len(handed) + 1
      BY <1>2, <1>3
    <3> QED
      BY <1>2, <1>3, <3>1
  <2>3. \A i \in 1 .. Len(seen_order) + 1 : i \in 1 .. Len(seen_order) \/ i = Len(seen_order) + 1
    BY <1>3
  <2> QED
    BY <2>1, <2>2, <2>3
<1>5. CASE ~Overflows
  <2>1. seen_order' = t /\ seen' = seen \cup {d}
    BY <1>5, RememberIs DEF t, Seen
  <2>2. Len(seen_order) + 1 <= MaxSeen
    BY <1>3, <1>5, Bounds DEF Overflows
  <2>3. Len(seen_order) < MaxSeen => Len(handed) = Len(seen_order)
    BY DEF SeenInv
  <2>4. Len(handed') - Len(seen_order') = Len(handed) - Len(seen_order)
    BY <1>2, <1>3, <2>1
  <2>5. DOMAIN seen_order' = 1 .. Len(seen_order) + 1
    BY <1>3, <2>1
  <2>6. seen' = Elements(seen_order')
    BY <1>3, <2>1
  <2>7. /\ Len(seen_order') <= Len(handed')
        /\ Len(seen_order') <= MaxSeen
        /\ Len(seen_order') < MaxSeen => Len(handed') = Len(seen_order')
    <3>1. /\ Len(seen_order') = Len(seen_order) + 1
          /\ Len(handed') = Len(handed) + 1
          /\ Len(seen_order) \in Nat /\ Len(handed) \in Nat
      BY <1>2, <1>3, <2>1
    <3> QED
      BY <1>1, <2>2, <2>3, <3>1, Bounds
  <2>8. \A i \in DOMAIN seen_order' :
           seen_order'[i] = handed'[Len(handed') - Len(seen_order') + i]
    BY <1>4, <2>1, <2>4, <2>5
  <2> QED
    BY <2>6, <2>7, <2>8 DEF SeenInv
<1>6. CASE Overflows
  <2>1. /\ Len(seen_order) = MaxSeen
        /\ seen_order' \in Seq(Numbers)
        /\ Len(seen_order') = MaxSeen
        /\ \A i \in 1 .. MaxSeen : seen_order'[i] = t[i + 1]
    BY <1>6, RememberIs DEF t
  <2>2. DOMAIN seen_order' = 1 .. MaxSeen
    BY <2>1
  <2>3. ASSUME NEW i \in 1 .. MaxSeen
        PROVE  seen_order'[i] = handed'[Len(handed') - Len(seen_order') + i]
    <3>1. i + 1 \in 1 .. Len(seen_order) + 1
      BY <2>1, Bounds
    <3>2. Len(handed') - Len(seen_order') + i = Len(handed) - Len(seen_order) + (i + 1)
      BY <1>2, <1>3, <2>1, Bounds
    <3> QED
      BY <1>4, <2>1, <3>1, <3>2
  <2>4. Head(t) = t[1]
    BY <1>3
  <2>5. \A i \in 1 .. MaxSeen : t[i + 1] # t[1]
    <3> SUFFICES ASSUME NEW i \in 1 .. MaxSeen, t[i + 1] = t[1]
                 PROVE  FALSE
      OBVIOUS
    <3>1. i + 1 \in 1 .. Len(seen_order) + 1 /\ 1 \in 1 .. Len(seen_order) + 1
      BY <2>1, Bounds
    <3>2. handed'[Len(handed) - Len(seen_order) + (i + 1)] = handed'[Len(handed) - Len(seen_order) + 1]
      BY <1>4, <3>1
    <3>3. /\ Len(handed) - Len(seen_order) + (i + 1) \in 1 .. Len(handed) + 1
          /\ Len(handed) - Len(seen_order) + 1 \in 1 .. Len(handed) + 1
          /\ Len(handed) - Len(seen_order) + (i + 1) # Len(handed) - Len(seen_order) + 1
      BY <1>1, <1>2, <1>3, <2>1, Bounds
    <3> QED
      BY <1>2, <3>2, <3>3 DEF HandedOnce
  <2>6. Elements(seen_order') = Elements(t) \ {t[1]}
    <3>1. \A i \in 1 .. MaxSeen : i + 1 \in DOMAIN t
      BY <1>3, <2>1, Bounds
    <3>2. \A j \in DOMAIN t : j = 1 \/ (j - 1 \in 1 .. MaxSeen /\ (j - 1) + 1 = j)
      BY <1>3, <2>1, Bounds
    <3>3. \A i \in 1 .. MaxSeen : seen_order'[i] \in Elements(t) \ {t[1]}
      BY <2>1, <2>5, <3>1 DEF Elements
    <3>4. ASSUME NEW j \in DOMAIN t, t[j] # t[1]
          PROVE  t[j] \in Elements(seen_order')
      <4>1. j - 1 \in 1 .. MaxSeen /\ (j - 1) + 1 = j
        BY <3>2, <3>4
      <4>2. seen_order'[j - 1] = t[j]
        BY <2>1, <4>1
      <4> QED
        BY <2>2, <4>1, <4>2 DEF Elements
    <3> QED
      BY <2>2, <3>3, <3>4 DEF Elements
  <2>7. seen' = Elements(seen_order')
    BY <1>3, <1>6, <2>4, <2>6 DEF Seen, t
  <2>8. Len(seen_order') <= Len(handed') /\ Len(seen_order') <= MaxSeen
        /\ ~(Len(seen_order') < MaxSeen)
    BY <1>1, <1>2, <2>1, Bounds
  <2> QED
    BY <2>2, <2>3, <2>7, <2>8 DEF SeenInv
<1> QED
    BY <1>5, <1>6

-----------------------------------------------------------------------------
(* The steps.                                                               *)

\* What a round about a new number does.
LEMMA RoundIs ==
    ASSUME ValuesInv, Record, Head(page) \notin seen
    PROVE  /\ Head(page) \in Numbers
           /\ Head(page) \in Elements(page)
           /\ handed' = Append(handed, Head(page))
           /\ seen_order' = Remember(Head(page))
           /\ seen' = Seen(Head(page))
           /\ polled' = polled
           /\ on_new(Head(page))
           /\ UNCHANGED <<backend, since, issued, pc>>
<1>1. Head(page) \in Numbers /\ Head(page) \in Elements(page)
    BY HeadOfPage DEF Record, ValuesInv, Elements
<1> QED
    BY <1>1 DEF Record, on_new

LEMMA StepHanded ==
    ASSUME ValuesInv, PageInv, SeenInv, HandedInv, [Next]_vars
    PROVE  HandedInv'
<1> USE DEF seenVars, storeVars, lineVars
<1>1. ASSUME UNCHANGED <<handed, polled>>
      PROVE  HandedInv'
    BY <1>1 DEF HandedInv, HandedOnce
<1>2. CASE list
  <2>1. handed' = handed /\ polled' = issued /\ polled <= issued
    BY <1>2 DEF list, PageInv
  <2>2. \A i \in DOMAIN handed : handed[i] \in Int
    BY Bounds DEF ValuesInv, Numbers
  <2>3. polled \in Int /\ issued \in Int
    BY Bounds DEF ValuesInv
  <2> QED
    BY <2>1, <2>2, <2>3 DEF HandedInv, HandedOnce
<1>3. CASE Record
  <2>1. CASE Head(page) \in seen
    BY <1>3, <2>1, <1>1 DEF Record
  <2>2. CASE Head(page) \notin seen
    BY <1>3, <2>2, RoundIs, RoundHands
  <2> QED
    BY <2>1, <2>2
<1>4. CASE Start
  <2>1. handed' = <<>>
    BY <1>4 DEF Start
  <2> QED
    BY <2>1 DEF HandedInv, HandedOnce
<1>5. CASE Issue \/ LoseConnection \/ Signal \/ ListFails \/ Leave
           \/ PageDone \/ WakeUp \/ Crash \/ UNCHANGED vars
    BY <1>1, <1>5 DEF Issue, LoseConnection, Signal, ListFails, Leave, PageDone,
       WakeUp, Crash, vars
<1> QED
    BY <1>2, <1>3, <1>4, <1>5 DEF Next, Crawler

LEMMA StepSeen ==
    ASSUME ValuesInv, PageInv, SeenInv, HandedInv, [Next]_vars
    PROVE  SeenInv'
<1> USE DEF seenVars, storeVars, lineVars
<1>1. ASSUME UNCHANGED <<handed, seen, seen_order>>
      PROVE  SeenInv'
    BY <1>1 DEF SeenInv
<1>3. CASE Record
  <2>1. CASE Head(page) \in seen
    BY <1>3, <2>1, <1>1 DEF Record
  <2>2. CASE Head(page) \notin seen
    <3>1. HandedOnce'
      BY <1>3, <2>2, RoundIs, RoundHands DEF HandedInv
    <3> QED
      BY <1>3, <2>2, <3>1, RoundIs, RoundRemembers
  <2> QED
    BY <2>1, <2>2
<1>4. CASE Start
  <2>1. handed' = <<>> /\ seen' = {} /\ seen_order' = <<>>
    BY <1>4 DEF Start
  <2> QED
    BY <2>1, Bounds DEF SeenInv, Elements
<1>5. CASE Issue \/ LoseConnection \/ Signal \/ list \/ ListFails \/ Leave
           \/ PageDone \/ WakeUp \/ Crash \/ UNCHANGED vars
    BY <1>1, <1>5 DEF Issue, LoseConnection, Signal, list, ListFails, Leave,
       PageDone, WakeUp, Crash, vars
<1> QED
    BY <1>3, <1>4, <1>5 DEF Next, Crawler

\* Remembered numbers were handed on.
LEMMA SeenWereHanded ==
    ASSUME ValuesInv, SeenInv
    PROVE  seen \subseteq Elements(handed)
<1>1. /\ DOMAIN handed = 1 .. Len(handed) /\ Len(handed) \in Nat
      /\ DOMAIN seen_order = 1 .. Len(seen_order) /\ Len(seen_order) \in Nat
    BY DEF ValuesInv
<1>2. \A i \in DOMAIN seen_order :
         /\ Len(handed) - Len(seen_order) + i \in DOMAIN handed
         /\ seen_order[i] = handed[Len(handed) - Len(seen_order) + i]
  <2>1. Len(seen_order) <= Len(handed)
    BY DEF SeenInv
  <2>2. \A i \in 1 .. Len(seen_order) : Len(handed) - Len(seen_order) + i \in 1 .. Len(handed)
    BY <1>1, <2>1
  <2> QED
    BY <1>1, <2>2 DEF SeenInv
<1> QED
    BY <1>2 DEF SeenInv, Elements

LEMMA StepCover ==
    ASSUME ValuesInv, PageInv, SeenInv, CoverInv, [Next]_vars
    PROVE  CoverInv'
<1> USE DEF seenVars, storeVars, lineVars
<1>t. /\ issued \in Int /\ polled \in Int /\ page \in Seq(Numbers)
      /\ NotPolled = -1 /\ since \in Int
    BY Bounds DEF ValuesInv, NotPolled
<1>1. ASSUME UNCHANGED <<polled, since, handed>>,
             ~Bursts /\ since # NotPolled => issued' <= polled + Page,
             pc' # "down" => pc # "down",
             pc' # "down" => Elements(page) \subseteq Elements(handed) \cup Elements(page')
      PROVE  CoverInv'
    BY <1>1 DEF CoverInv, NothingSkipped
<1>2. CASE Issue
  <2>1. ~Bursts /\ since # NotPolled => issued' <= polled + Page
    BY <1>2, <1>t, Bounds DEF Issue
  <2> QED
    BY <1>1, <1>2, <2>1 DEF Issue
<1>3. CASE list
  <2>1. CASE since = NotPolled
    <3>1. since' = issued /\ polled' = issued /\ issued' = issued
      BY <1>3, <2>1 DEF list
    <3>2. since' + 1 .. polled' = {}
      BY <3>1, <1>t
    <3> QED
      BY <3>1, <3>2, <1>t, Bounds DEF CoverInv, NothingSkipped
  <2>2. CASE since # NotPolled
    <3>1. /\ since' = since /\ polled' = issued /\ issued' = issued
          /\ page' = Newest /\ handed' = handed
          /\ page = <<>> /\ pc = "poll"
      BY <1>3, <2>2 DEF list, PageInv
    <3>2. issued' <= polled' + Page
      BY <3>1, <1>t, Bounds
    <3>3. ASSUME ~Bursts, NEW n \in since + 1 .. issued
          PROVE  n \in Elements(handed) \cup Elements(Newest)
      <4>1. CASE n <= polled
        <5>1. n \in since + 1 .. polled
          BY <4>1, <1>t
        <5>2. n \in Elements(handed) \cup Elements(page)
          BY <2>2, <3>1, <3>3, <5>1 DEF CoverInv, NothingSkipped
        <5> QED
          BY <3>1, <5>2 DEF Elements
      <4>2. CASE n > polled
        <5>1. issued <= polled + Page
          BY <2>2, <3>3 DEF CoverInv
        <5>2. n \in 1 .. issued /\ issued - Page < n
          <6>1. polled >= 0
            BY Bounds DEF ValuesInv
          <6> QED
            BY <4>2, <5>1, <6>1, <1>t, Bounds
        <5> QED
          BY <5>2, NewestType DEF ValuesInv
      <4> QED
        BY <4>1, <4>2, <1>t
    <3> QED
      BY <3>1, <3>2, <3>3 DEF CoverInv, NothingSkipped
  <2> QED
    BY <2>1, <2>2
<1>4. CASE Record
  <2>1. /\ page # <<>> /\ page' = Tail(page)
        /\ UNCHANGED <<polled, since, issued, pc>>
        /\ Elements(page) \subseteq Elements(page') \cup {Head(page)}
    BY <1>4, <1>t, HeadOfPage DEF Record, Rest
  <2>2. CASE Head(page) \in seen
    <3>1. handed' = handed
      BY <1>4, <2>2 DEF Record
    <3>2. Head(page) \in Elements(handed)
      BY <2>2, SeenWereHanded
    <3> QED
      BY <1>1, <2>1, <3>1, <3>2 DEF CoverInv
  <2>3. CASE Head(page) \notin seen
    <3>1. Elements(handed') = Elements(handed) \cup {Head(page)}
      BY <1>4, <2>3, RoundIs, Logged DEF ValuesInv
    <3> QED
      BY <2>1, <3>1 DEF CoverInv, NothingSkipped
  <2> QED
    BY <2>2, <2>3
<1>5. CASE Start
  <2>1. since' = NotPolled
    BY <1>5 DEF Start
  <2> QED
    BY <2>1 DEF CoverInv, NothingSkipped
<1>6. CASE LoseConnection \/ Signal \/ ListFails \/ Leave \/ PageDone \/ WakeUp
           \/ UNCHANGED vars
  <2>1. UNCHANGED <<polled, since, handed, issued, page>> /\ (pc' # "down" => pc # "down")
    BY <1>6 DEF LoseConnection, Signal, ListFails, Leave, PageDone, WakeUp, vars
  <2> QED
    BY <1>1, <2>1 DEF CoverInv
<1>7. CASE Crash
    BY <1>1, <1>7 DEF Crash, CoverInv
<1> QED
    BY <1>2, <1>3, <1>4, <1>5, <1>6, <1>7 DEF Next, Crawler

LEMMA StepStore ==
    ASSUME ValuesInv, StoredOrLogged, [Next]_vars
    PROVE  StoredOrLogged'
<1> USE DEF seenVars, storeVars, lineVars
<1>1. ASSUME UNCHANGED <<printed, handed, backend>>, table \subseteq table',
             failed \subseteq failed', pc' # "down" => pc # "down"
      PROVE  StoredOrLogged'
    BY <1>1 DEF StoredOrLogged
<1>2. CASE Start
  <2>1. /\ UNCHANGED <<printed, table>>
        /\ Elements(handed') = {}
    BY <1>2 DEF Start, Elements
  <2> QED
    BY <2>1 DEF StoredOrLogged
<1>3. CASE Record
  <2>1. CASE Head(page) \in seen
    BY <1>1, <1>3, <2>1 DEF Record
  <2>2. CASE Head(page) \notin seen
    <3> DEFINE d == Head(page)
    <3>1. /\ d \in Numbers
          /\ UNCHANGED <<backend, pc>>
          /\ Elements(handed') = Elements(handed) \cup {d}
          /\ on_new(d)
      BY <1>3, <2>2, RoundIs, Logged DEF ValuesInv
    <3> HIDE DEF d
    <3>6. PICK new \in BOOLEAN :
             /\ insert(d, new)
             /\ printed' = IF new THEN Append(printed, <<backend, d>>) ELSE printed
      BY <3>1 DEF on_new
    <3>2. /\ table \subseteq table' /\ failed \subseteq failed'
          /\ backend = "pg" => d \in table' \cup failed'
          /\ backend = "pg" /\ new => d \notin table /\ d \in table'
      BY <3>1, <3>6, InsertIs
    <3>3. backend' = "pg" /\ pc' # "down" =>
             Elements(handed') \subseteq table' \cup failed'
      <4>1. backend = "pg" /\ pc # "down" =>
               Elements(handed) \subseteq table \cup failed
        BY DEF StoredOrLogged
      <4> QED
        BY <3>1, <3>2, <4>1
    <3>4. CASE ~new
      <4>1. printed' = printed
        BY <3>4, <3>6
      <4> QED
        BY <3>2, <3>3, <4>1 DEF StoredOrLogged
    <3>5. CASE new
      <4>1. printed \in Seq({"pg", "mem"} \X Numbers)
        BY DEF ValuesInv
      <4>2. /\ printed' = Append(printed, <<backend, d>>)
            /\ DOMAIN printed = 1 .. Len(printed) /\ Len(printed) \in Nat
            /\ DOMAIN printed' = 1 .. Len(printed) + 1
            /\ \A i \in 1 .. Len(printed) : printed'[i] = printed[i]
            /\ printed'[Len(printed) + 1] = <<backend, d>>
        BY <3>1, <3>5, <3>6, <4>1
      <4>3. backend = "pg" => d \notin table /\ d \in table'
        BY <3>2, <3>5
      <4>4. \A i \in 1 .. Len(printed) : printed[i][1] = "pg" => printed[i][2] \in table
        BY <4>2 DEF StoredOrLogged
      <4>5. ASSUME NEW i \in DOMAIN printed', printed'[i][1] = "pg"
            PROVE  printed'[i][2] \in table'
        <5>1. CASE i \in 1 .. Len(printed)
          BY <3>2, <4>2, <4>4, <4>5, <5>1
        <5>2. CASE i = Len(printed) + 1
          BY <4>2, <4>3, <4>5, <5>2
        <5> QED
          BY <4>2, <5>1, <5>2
      <4>6. ASSUME NEW i \in DOMAIN printed', NEW j \in DOMAIN printed',
                   printed'[i][1] = "pg", printed'[i] = printed'[j], i < j
            PROVE  FALSE
        <5>1. i \in 1 .. Len(printed) /\ printed'[i] = printed[i]
          BY <4>2, <4>6
        <5>2. CASE j \in 1 .. Len(printed)
          <6>1. i = j
            BY <4>2, <4>6, <5>1, <5>2 DEF StoredOrLogged
          <6> QED
            BY <6>1, <4>2, <4>6
        <5>3. CASE j = Len(printed) + 1
          <6>1. printed[i] = <<backend, d>>
            BY <4>2, <4>6, <5>1, <5>3
          <6>2. printed[i][1] = backend /\ printed[i][2] = d
            BY <6>1
          <6> QED
            BY <4>3, <4>4, <4>6, <5>1, <6>2
        <5> QED
          BY <4>2, <5>2, <5>3
      <4>7. \A i, j \in DOMAIN printed' :
               printed'[i][1] = "pg" /\ printed'[i] = printed'[j] => i = j
        <5>1. \A i \in DOMAIN printed' : i \in Int
          BY <4>2
        <5>2. \A i, j \in DOMAIN printed' : i < j \/ j < i \/ i = j
          BY <5>1
        <5> QED
          BY <4>6, <5>2
      <4> QED
        BY <3>3, <4>5, <4>7 DEF StoredOrLogged
    <3> QED
      BY <3>4, <3>5
  <2> QED
    BY <2>1, <2>2
<1>4. CASE Issue \/ LoseConnection \/ Signal \/ list \/ ListFails \/ Leave
           \/ PageDone \/ WakeUp \/ UNCHANGED vars
  <2>1. /\ UNCHANGED <<printed, handed, backend, table, failed>>
        /\ pc' # "down" => pc # "down"
    BY <1>4 DEF Issue, LoseConnection, Signal, list, ListFails, Leave, PageDone,
       WakeUp, vars
  <2> QED
    BY <1>1, <2>1
<1>5. CASE Crash
  <2>1. /\ UNCHANGED <<printed, handed, backend, failed>>
        /\ table \subseteq table'
        /\ pc' = "down"
    BY <1>5 DEF Crash
  <2> QED
    BY <1>1, <2>1
<1> QED
    BY <1>2, <1>3, <1>4, <1>5 DEF Next, Crawler

LEMMA InitCrawlerInv == Init => CrawlerInv
<1> SUFFICES ASSUME Init
             PROVE  CrawlerInv
    OBVIOUS
<1>1. <<>> \in Seq(Numbers) /\ <<>> \in Seq({"pg", "mem"} \X Numbers)
    OBVIOUS
<1>2. ValuesInv
  <2>1. issued \in 0 .. MaxIssued /\ 0 \in 0 .. MaxIssued /\ 0 \in 0 .. MaxRestarts
    BY Bounds DEF Init
  <2> QED
    BY <1>1, <2>1 DEF Init, ValuesInv
<1>3. PageInv
    BY Bounds DEF Init, PageInv
<1>4. SeenInv
    BY Bounds DEF Init, SeenInv, Elements
<1>5. HandedInv
    BY DEF Init, HandedInv, HandedOnce
<1>6. CoverInv
    BY DEF Init, CoverInv, NothingSkipped
<1>7. StoredOrLogged
    BY DEF Init, StoredOrLogged
<1> QED
    BY <1>2, <1>3, <1>4, <1>5, <1>6, <1>7 DEF CrawlerInv

LEMMA CrawlerInvAlways == Spec => []CrawlerInv
<1>1. CrawlerInv /\ [Next]_vars => CrawlerInv'
    BY StepValues, StepPage, StepSeen, StepHanded, StepCover, StepStore DEF CrawlerInv
<1> QED
    BY <1>1, InitCrawlerInv, PTL DEF Spec

-----------------------------------------------------------------------------
(* What the process promises.                                               *)

(* Every variable has its type; the set and the deque hold the same numbers,
   none of them twice, and kMaxSeen of them at most. *)
THEOREM CrawlerIsTypeCorrect == Spec => []TypeOK
<1>1. ASSUME CrawlerInv
      PROVE  Len(seen_order) = Cardinality(seen)
  <2> DEFINE n == Len(seen_order)
  <2>1. /\ seen_order \in Seq(Numbers) /\ handed \in Seq(Numbers)
        /\ n \in Nat /\ DOMAIN seen_order = 1 .. n /\ n <= Len(handed)
        /\ Len(handed) \in Nat /\ DOMAIN handed = 1 .. Len(handed)
        /\ seen = Elements(seen_order)
    BY <1>1 DEF CrawlerInv, ValuesInv, SeenInv
  <2>2. \A i \in 1 .. n :
           /\ Len(handed) - n + i \in 1 .. Len(handed)
           /\ seen_order[i] = handed[Len(handed) - n + i]
    <3>1. \A i \in 1 .. n : Len(handed) - n + i \in 1 .. Len(handed)
      <4> HIDE DEF n
      <4> QED
        BY <2>1
    <3>2. \A i \in 1 .. n : seen_order[i] = handed[Len(handed) - n + i]
      BY <1>1, <2>1 DEF CrawlerInv, SeenInv
    <3> QED
      BY <3>1, <3>2
  <2>3. \A i, j \in 1 .. n : Len(handed) - n + i = Len(handed) - n + j => i = j
    BY <2>1
  <2>4. \A i, j \in 1 .. n : seen_order[i] = seen_order[j] => i = j
    BY <1>1, <2>1, <2>2, <2>3 DEF CrawlerInv, HandedInv, HandedOnce
  <2> HIDE DEF n
  <2>5. seen_order \in Surjection(1 .. n, seen) /\ seen_order \in Injection(1 .. n, seen)
    <3>1. seen_order \in [1 .. n -> seen]
      BY <2>1 DEF Elements, n
    <3> QED
      BY <2>1, <2>4, <3>1 DEF Surjection, Injection, IsInjective, Elements
  <2>6. IsFiniteSet(1 .. n) /\ Cardinality(1 .. n) = n
    BY <2>1, FS_Interval, 1 \in Int, n \in Int
  <2>7. Cardinality(seen) = n
    BY <2>5, <2>6, FS_Surjection
  <2> QED
    BY <2>7 DEF n
<1>2. CrawlerInv => TypeOK
    BY <1>1 DEF CrawlerInv, ValuesInv, SeenInv, TypeOK
<1> QED
    BY <1>2, CrawlerInvAlways, PTL

(* One process hands no receipt number to on_new twice, although poll_loop
   forgets old numbers: kMaxSeen leaves room for every number that can come
   between two sightings of one on page one. *)
THEOREM NoneIsHandedTwice == Spec => []HandedOnce
<1>1. CrawlerInv => HandedOnce
    BY DEF CrawlerInv, HandedInv
<1> QED
    BY <1>1, CrawlerInvAlways, PTL

(* Without bursts nothing issued since the process first polled is skipped,
   whichever polls fail. *)
THEOREM NoneIsSkipped == Spec => []NothingSkipped
<1>1. CrawlerInv => NothingSkipped
    BY DEF CrawlerInv, CoverInv
<1> QED
    BY <1>1, CrawlerInvAlways, PTL

(* Whichever inserts throw, and whenever the connection breaks, what is handed
   on is in the table or has its "insert failed" line; and a [NEW] line for the
   table is about a row that is there, and is printed once over any number of
   restarts. *)
THEOREM HandedIsStoredOrLogged == Spec => []StoredOrLogged
<1>1. CrawlerInv => StoredOrLogged
    BY DEF CrawlerInv
<1> QED
    BY <1>1, CrawlerInvAlways, PTL
=============================================================================
