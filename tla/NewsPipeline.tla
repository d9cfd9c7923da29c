---------------------------- MODULE NewsPipeline ----------------------------
(***************************************************************************)
(* news-pipeline: every five minutes the program fetches its feeds, gets   *)
(* the page of each article, finds the companies it mentions, judges its   *)
(* sentiment and enters the result on the score board; then it prints the  *)
(* scores, which fade with age.                                            *)
(*                                                                         *)
(* A text is a sequence of characters.  A page that does not come, or only *)
(* in part, is used as far as it has come: http_get looks at no error.     *)
(***************************************************************************)
EXTENDS Integers, Sequences, FiniteSets, SequencesExt, FiniteSetsExt, Functions

CONSTANTS
    Chars,
    Tickers,
    Sources,   \* number of feeds
    Feeds,     \* what a feed may hold; a link may be missing, and a feed that
               \* comes in part ends earlier
    Tables,    \* ticker tables
    Scores,    \* sentiment_value * confidence; zero if neutral
    Cutoff,    \* half_life * 8
    Decay,     \* pow(0.5, age / half), by age
    Horizon    \* bound: time

Texts    == Seq(Chars)
Articles == [link : BOOLEAN, body : Texts]
Lines    == [ticker : Tickers, corp : Texts, aliases : Seq(Texts)]

ASSUME NewsAssumption ==
    /\ Sources \in Nat
    /\ Feeds \subseteq Seq(Articles)
    /\ Tables \subseteq Seq(Lines)
    /\ Scores \subseteq Int
    /\ Cutoff \in Nat /\ Horizon \in Nat
    /\ Decay \in [0 .. Cutoff -> Nat]

VARIABLES
    table,     \* the lines of the table, or the seed in main
    by_alias,  \* ner: alias to [corp, ticker]
    aliases,   \* the order of the aliases in tag
    clock,     \* system_clock
    g_run,     \* cleared by SIGINT / SIGTERM
    mpc,       \* main: "head", "fetch", "score", "sleep" or "end"
    left,      \* feeds still to fetch
    todo,      \* articles fetched: [art, at]
    sa,        \* the article scored last: [body, mentions]
    entries,   \* board: ticker to a vector of [contribution, ts]
    snap,      \* the last snapshot: [at, scores]
    scored     \* history: what was fetched and scored

nerVars  == <<table, by_alias, aliases>>
workVars == <<left, todo, sa>>
newsVars == <<nerVars, clock, g_run, mpc, workVars, entries, snap, scored>>

Empty == [x \in {} |-> 0]

-----------------------------------------------------------------------------
(* TickerNer.                                                               *)

Enter(dict, alias, corp, ticker) ==
    [a \in DOMAIN dict \cup {alias} |->
        IF a = alias THEN [corp |-> corp, ticker |-> ticker] ELSE dict[a]]

\* The company is the first one in the hash table that has the ticker.
add_alias(dicts, ticker, alias) ==
    UNION {{Enter(d, alias, d[a].corp, ticker) :
               a \in {b \in DOMAIN d : d[b].ticker = ticker}} : d \in dicts}

\* All outcomes of load_csv, line by line.
add_line(dicts, line) ==
    FoldLeft(LAMBDA ds, alias : add_alias(ds, line.ticker, alias),
             {Enter(d, line.corp, line.corp, line.ticker) : d \in dicts},
             line.aliases)
load_csv(lines) ==
    FoldLeft(LAMBDA dicts, line : add_line(dicts, line), {Empty}, lines)

\* std::sort by length: aliases of the same length come in any order.
\* (mutant) the shortest come first.
SortedUp(A) ==
    {s \in SetToSeqs(A) :
        \A i, j \in DOMAIN s : i < j => Len(s[i]) <= Len(s[j])}
Sorted(A) ==
    {s \in SetToSeqs(A) :
        \A i, j \in DOMAIN s : i < j => Len(s[i]) >= Len(s[j])}

\* Occurrences of an alias, by their first character.
Occurs(a, body) ==
    {p \in 1 .. Len(body) - Len(a) + 1 : SubSeq(body, p, p + Len(a) - 1) = a}

\* Those that the scan of an alias comes to: it goes on behind each of them.
Found(a, body) ==
    LET from[p \in Nat] ==
            LET next == {q \in Occurs(a, body) : q >= p}
            IN  IF next = {} THEN {}
                ELSE {Min(next)} \cup from[Min(next) + Len(a)]
    IN  IF a = <<>> THEN {} ELSE from[1]

\* Mentions by their spans; `end` is the last character.
Span(dict, a, p) == [ticker |-> dict[a].ticker, corp |-> dict[a].corp,
                     start |-> p, end |-> p + Len(a) - 1]

Overlap(m, n) == m.start <= n.end /\ n.start <= m.end

\* What an alias adds to the hits: nothing where `consumed` is set.
TakeFree(dict, body, hits, a) ==
    hits \cup {m \in {Span(dict, a, p) : p \in Found(a, body)} :
                  \A h \in hits : ~Overlap(m, h)}

tag(body) ==
    FoldLeft(LAMBDA hits, a : TakeFree(by_alias, body, hits, a), {}, aliases)

\* How often a company is mentioned.
Count(mentions, t) == Cardinality({m \in mentions : m.ticker = t})

-----------------------------------------------------------------------------
(* NewsScoreBoard.                                                          *)

Vector(t) == IF t \in DOMAIN entries THEN entries[t] ELSE <<>>

\* An article counts once for each mention.
ingest(mentions, s, ts) ==
    IF s = 0 THEN entries
    ELSE [t \in DOMAIN entries \cup {m.ticker : m \in mentions} |->
             Vector(t) \o [i \in 1 .. Count(mentions, t)
                              |-> [contribution |-> s, ts |-> ts]]]

\* (mutant) vec.erase is forgotten, and nothing is moved.
KeptAll(vec) == vec
Kept(vec) ==
    FoldLeft(LAMBDA kept, e : IF clock - e.ts > Cutoff THEN kept ELSE Append(kept, e),
             <<>>, vec)

Total(seq) == FoldLeft(LAMBDA sum, n : sum + n, 0, seq)

\* What an entry is worth at a moment.
Worth(contribution, ts, at) ==
    IF at - ts > Cutoff THEN 0 ELSE contribution * Decay[at - ts]

SumOf(vec) ==
    Total([i \in DOMAIN vec |-> Worth(vec[i].contribution, vec[i].ts, clock)])

-----------------------------------------------------------------------------
(* main.                                                                    *)

NewsInit ==
    /\ table \in Tables
    /\ by_alias \in load_csv(table)
    /\ aliases \in Sorted(DOMAIN by_alias)
    /\ clock = 0
    /\ g_run = TRUE
    /\ mpc = "head"
    /\ left = 0
    /\ todo = <<>>
    /\ sa = [body |-> <<>>, mentions |-> {}]
    /\ entries = Empty
    /\ snap = [at |-> 0, scores |-> Empty]
    /\ scored = <<>>

Elapse ==
    /\ clock < Horizon
    /\ mpc # "end"
    /\ clock' = clock + 1
    /\ UNCHANGED <<nerVars, g_run, mpc, workVars, entries, snap, scored>>

Signal ==
    /\ g_run
    /\ mpc # "end"
    /\ g_run' = FALSE
    /\ UNCHANGED <<nerVars, clock, mpc, workVars, entries, snap, scored>>

Head_ ==
    /\ mpc = "head"
    /\ IF g_run THEN mpc' = "fetch" /\ left' = Sources
                ELSE mpc' = "end" /\ UNCHANGED left
    /\ UNCHANGED <<nerVars, clock, g_run, todo, sa, entries, snap, scored>>

\* The date of an article is the time at which it is fetched, again and again.
fetch ==
    /\ mpc = "fetch"
    /\ IF left = 0
       THEN mpc' = "score" /\ UNCHANGED <<left, todo>>
       ELSE /\ \E f \in Feeds :
                  todo' = todo \o [i \in DOMAIN f |-> [art |-> f[i], at |-> clock]]
            /\ left' = left - 1
            /\ UNCHANGED mpc
    /\ UNCHANGED <<nerVars, clock, g_run, sa, entries, snap, scored>>

\* What hydrate_body can make of an article, tags stripped.
Bodies(art) == {SubSeq(art.body, 1, n) : n \in 0 .. IF art.link THEN Len(art.body) ELSE 0}

\* (mutant) the date is that of the scoring.
score_articleLate ==
    /\ mpc = "score"
    /\ todo # <<>>
    /\ todo' = Tail(todo)
    /\ \E body \in Bodies(Head(todo).art), s \in Scores :
          /\ sa' = [body |-> body, mentions |-> tag(body)]
          /\ entries' = ingest(sa'.mentions, s, clock)
          /\ scored' = Append(scored, [body |-> body, s |-> s, at |-> Head(todo).at])
    /\ UNCHANGED <<nerVars, clock, g_run, mpc, left, snap>>
score_article ==
    /\ mpc = "score"
    /\ todo # <<>>
    /\ todo' = Tail(todo)
    /\ \E body \in Bodies(Head(todo).art), s \in Scores :
          /\ sa' = [body |-> body, mentions |-> tag(body)]
          /\ entries' = ingest(sa'.mentions, s, Head(todo).at)
          /\ scored' = Append(scored, [body |-> body, s |-> s, at |-> Head(todo).at])
    /\ UNCHANGED <<nerVars, clock, g_run, mpc, left, snap>>

\* score() drops what is too old from the vectors, although it is const.
snapshot ==
    /\ mpc = "score"
    /\ todo = <<>>
    /\ snap' = [at |-> clock, scores |-> [t \in DOMAIN entries |-> SumOf(entries[t])]]
    /\ entries' = [t \in DOMAIN entries |-> Kept(entries[t])]
    /\ mpc' = "sleep"
    /\ UNCHANGED <<nerVars, clock, g_run, workVars, scored>>

\* sleep_for(5 min): a signal does not end it.
WakeUp ==
    /\ mpc = "sleep"
    /\ clock < Horizon
    /\ clock' = clock + 1
    /\ mpc' = "head"
    /\ UNCHANGED <<nerVars, g_run, workVars, entries, snap, scored>>

NewsNext ==
    \/ Elapse
    \/ Signal
    \/ Head_
    \/ fetch
    \/ score_article
    \/ snapshot
    \/ WakeUp

NewsSpec == NewsInit /\ [][NewsNext]_newsVars

-----------------------------------------------------------------------------

NewsTypeOK ==
    /\ table \in Tables
    /\ by_alias \in load_csv(table)
    /\ aliases \in Sorted(DOMAIN by_alias)
    /\ clock \in 0 .. Horizon
    /\ g_run \in BOOLEAN
    /\ mpc \in {"head", "fetch", "score", "sleep", "end"}
    /\ left \in 0 .. Sources
    /\ todo \in Seq([art : Articles, at : 0 .. clock])
    /\ sa.body \in Texts
    /\ \A t \in DOMAIN entries :
          entries[t] \in Seq([contribution : Scores, ts : 0 .. clock])
    /\ snap.at \in 0 .. clock
    /\ scored \in Seq([body : Texts, s : Scores, at : 0 .. clock])

\* The last line of the table that names an alias, or a company by it.
LineOf(a) ==
    table[Max({i \in DOMAIN table :
                  a = table[i].corp \/ a \in ToSet(table[i].aliases)})]

(* "a longest-match rule is applied" (ner.hpp:14): mentions do not overlap, each
   carries the ticker of the last line that lists its text, and an occurrence of
   an alias that is not reported overlaps a mention that is no shorter - or an
   earlier occurrence of the same alias, behind which the scan went on. *)
MentionsAreLongest ==
    LET body == sa.body
        text(m) == SubSeq(body, m.start, m.end)
    IN  /\ \A m, n \in sa.mentions : Overlap(m, n) => m = n
        /\ \A m \in sa.mentions : /\ text(m) \in DOMAIN by_alias
                                  /\ m.ticker = LineOf(text(m)).ticker
        /\ \A a \in DOMAIN by_alias \ {<<>>} : \A p \in Occurs(a, body) :
              LET o == [start |-> p, end |-> p + Len(a) - 1]
              IN  \/ \E m \in sa.mentions :
                        Overlap(m, o) /\ m.end - m.start >= o.end - o.start
                  \/ \E q \in Occurs(a, body) : q < p /\ p < q + Len(a)

(* Every snapshot is the sum over all articles ever scored, each counted once
   for every mention and every cycle it was fetched in and weighted by the time
   since that fetch, if that is at most eight half-lives: what score() drops
   from the vectors while it sums is never needed again. *)
SnapshotIsReference ==
    LET sum(t) == Total([i \in DOMAIN scored |->
                            Worth(scored[i].s, scored[i].at, snap.at)
                                * Count(tag(scored[i].body), t)])
    IN  mpc = "sleep" =>
            /\ \A t \in DOMAIN snap.scores : snap.scores[t] = sum(t)
            /\ \A i \in DOMAIN table :
                  table[i].ticker \notin DOMAIN snap.scores => sum(table[i].ticker) = 0

(* The vectors do not grow for ever: a ticker's holds no more than what the
   cycles that begin within eight half-lives, and the present one, brought. *)
MemoryIsBounded ==
    \A t \in DOMAIN entries :
        Len(entries[t]) <=
            Total([i \in DOMAIN scored |->
                      IF scored[i].at >= snap.at - Cutoff THEN Count(tag(scored[i].body), t)
                                                        ELSE 0])
=============================================================================
