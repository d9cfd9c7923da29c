------------------------------- MODULE MCNews -------------------------------
(* NewsPipeline over many texts of one article, and over several cycles of a *)
(* few articles.                                                             *)
EXTENDS NewsPipeline

CONSTANTS a, b, x, t1, t2

Line(t, corp, more) == [ticker |-> t, corp |-> corp, aliases |-> more]

\* A company and a longer one; names of one length, one of which can overlap
\* itself; a ticker with two companies, an alias listed twice and an empty one.
MCFirst  == <<Line(t1, <<a>>, << >>), Line(t2, <<a, b>>, <<<<x, a>>>>)>>
MCTables == {MCFirst,
             <<Line(t1, <<x, b>>, << >>), Line(t2, <<b, b>>, <<<<b, a, b>>>>)>>,
             <<Line(t1, <<a>>, << >>), Line(t1, <<b, a>>, <<<<x>>, <<>>>>),
               Line(t2, <<x>>, << >>)>>}

MCChars   == {a, b, x}
MCTickers == {t1, t2}

MCScores == {-1, 0, 2}

MCDecay == [age \in 0 .. 1 |-> 2 - age]

Art(link, body) == [link |-> link, body |-> body]

MCTexts == UNION {[1 .. n -> {a, b, x}] : n \in 3 .. 5}
Wide == {Art(TRUE, t) : t \in [1 .. 5 -> {a, b, x}]}
Long == {Art(FALSE, <<a, a>>), Art(TRUE, <<a, a>>)}

MCFeeds == {<<>>} \cup {<<w>> : w \in Wide \cup Long}
               \cup {<<v, w>> : v, w \in Long}

\* Any text as the only one of a program that goes no further; otherwise, with
\* the first table, short ones over several cycles.
MCShort == 3

MCNext ==
    /\ NewsNext
    /\ sa.body \in MCTexts \/ (todo # <<>> /\ todo[1].art \in Wide) => clock' = clock
    /\ g_run' # g_run => mpc \in {"head", "sleep"} /\ scored # <<>>
    /\ \/ Len(todo') <= Len(todo)
       \/ clock = 0 /\ scored = <<>> /\ todo = <<>> /\ todo'[1].art \in Wide
       \/ /\ table = MCFirst
          /\ Len(scored) + Len(todo') <= MCShort
          /\ \A i \in DOMAIN todo' : todo'[i].art \in Long

MCSpec == NewsInit /\ [][MCNext]_newsVars
=============================================================================
