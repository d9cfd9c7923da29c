---------------------------- MODULE HistoryProofs ----------------------------
(***************************************************************************)
(* Two programs that forget, and whose results are nevertheless a function *)
(* of all they have seen: what the detectors of strategy-bot signal, trade *)
(* by trade, is the definition over all prices of a symbol, and what the   *)
(* score board of news-pipeline shows is the sum over all articles.        *)
(*                                                                         *)
(* The module begins with what a fold is, which NewsPipeline computes      *)
(* with.  The invariant of each program says what its windows or vectors   *)
(* hold of its history:                                                    *)
(*                                                                         *)
(* StrategyBot: the deque of the averages is the end of the history.  The  *)
(* window of the jump detector ends at the last trade it was fed, holds no *)
(* jump, and when it is not full either all trades are in it or a jump     *)
(* stands right before it.                                                 *)
(*                                                                         *)
(* NewsPipeline: weighed in any way that gives entries too old no weight,  *)
(* a vector weighs what the articles scored so far brought its ticker.     *)
(***************************************************************************)
EXTENDS StrategyBot, NewsPipeline, FiniteSetTheorems, SequenceTheorems,
        WellFoundedInduction, TLAPS

-----------------------------------------------------------------------------
(* Recursion.  The folds are recursive functions on sets of indices, and so is
   the scan for an alias, in a way.  That there is such a function, of the right
   type, and that it is the only one, is shown of the smallest set of which it
   could be wrong: once, for any step that depends on the value for a smaller
   set.                                                                      *)

\* g is computed from rest, which makes a set smaller, and op.
Recursive(g, base, op, rest, T) ==
    \A s \in SUBSET T :
        g[s] = IF s = {} THEN base ELSE op[<<g[rest[s]], s>>]

Smaller(rest, D) ==
    \A s \in SUBSET D : s # {} => rest[s] \in SUBSET s /\ rest[s] # s

\* In a finite set every set of subsets has a smallest one.
LEMMA SmallestSubset ==
    ASSUME NEW D, IsFiniteSet(D), NEW B \in SUBSET SUBSET D, B # {}
    PROVE  \E T \in B : \A U \in B : ~ (U \subseteq T /\ U # T)
<1>1. IsWellFoundedOn(StrictSubsetOrdering(D), SUBSET D)
  BY FS_StrictSubsetOrderingWellFounded, FS_FiniteSubsetsOfFinite
<1>2. PICK T \in B : \A U \in B : ~ (<<U, T>> \in StrictSubsetOrdering(D))
  BY <1>1, WFMin
<1>3. ASSUME NEW U \in B, U \subseteq T, U # T PROVE FALSE
  BY <1>2, <1>3 DEF StrictSubsetOrdering
<1> QED
  BY <1>2, <1>3

\* Two functions that are computed alike agree wherever both are.
LEMMA RecursionsAgree ==
    ASSUME NEW D, NEW U, IsFiniteSet(U), U \subseteq D,
           NEW base, NEW op, NEW rest, Smaller(rest, D),
           NEW g, Recursive(g, base, op, rest, D),
           NEW h, Recursive(h, base, op, rest, U)
    PROVE  \A s \in SUBSET U : g[s] = h[s]
<1> DEFINE B == {s \in SUBSET U : g[s] # h[s]}
<1> SUFFICES ASSUME B # {} PROVE FALSE
  OBVIOUS
<1>1. PICK s \in B : \A r \in B : ~ (r \subseteq s /\ r # s)
  <2>1. B \in SUBSET SUBSET U
    OBVIOUS
  <2> HIDE DEF B
  <2> QED
    BY <2>1, SmallestSubset
<1>2. s # {}
  BY DEF Recursive
<1>3. rest[s] \in SUBSET U /\ rest[s] \notin B
  BY <1>1, <1>2 DEF Smaller
<1>4. g[rest[s]] = h[rest[s]]
  BY <1>3
<1> QED
  BY <1>2, <1>4 DEF Recursive

\* There is a function of the type of its steps that is computed so.
LEMMA RecursionExists ==
    ASSUME NEW D, IsFiniteSet(D), NEW V, NEW base \in V,
           NEW rest, Smaller(rest, D),
           NEW op \in [V \X SUBSET D -> V]
    PROVE  \E g \in [SUBSET D -> V] : Recursive(g, base, op, rest, D)
<1> DEFINE Is(g, T) == g \in [SUBSET T -> V] /\ Recursive(g, base, op, rest, T)
           B == {T \in SUBSET D : ~ \E g : Is(g, T)}
<1> SUFFICES ASSUME B # {} PROVE FALSE
  OBVIOUS
<1>1. PICK T \in B : \A U \in B : ~ (U \subseteq T /\ U # T)
  <2>1. B \in SUBSET SUBSET D
    OBVIOUS
  <2> HIDE DEF B
  <2> QED
    BY <2>1, SmallestSubset
<1> DEFINE G(U) == CHOOSE g : Is(g, U)
           v(s) == IF s = {} THEN base ELSE op[<<G(rest[s])[rest[s]], s>>]
           f == [s \in SUBSET T |-> v(s)]
<1>2. ASSUME NEW U, U \subseteq T, U # T PROVE Is(G(U), U)
  BY <1>1, <1>2
<1>3. ASSUME NEW s \in SUBSET T, s # {}
      PROVE  rest[s] \in SUBSET T /\ Is(G(rest[s]), rest[s])
  <2>1. rest[s] \subseteq T /\ rest[s] # T /\ s \in SUBSET D
    BY <1>3 DEF Smaller
  <2> HIDE DEF Is, G
  <2> QED
    BY <1>2, <2>1
<1>4. ASSUME NEW s \in SUBSET T, s # {} PROVE G(rest[s])[rest[s]] \in V
  <2>1. G(rest[s]) \in [SUBSET rest[s] -> V]
    BY <1>3, <1>4
  <2> HIDE DEF G
  <2> QED
    BY <2>1
<1>5. f \in [SUBSET T -> V]
  <2>1. ASSUME NEW s \in SUBSET T PROVE v(s) \in V
    <3>1. CASE s = {}
      BY <3>1
    <3>2. CASE s # {}
      <4>1. G(rest[s])[rest[s]] \in V /\ s \in SUBSET D
        BY <1>4, <3>2
      <4> HIDE DEF G
      <4> QED
        BY <3>2, <4>1
    <3> QED
      BY <3>1, <3>2
  <2> HIDE DEF v
  <2> QED
    BY <2>1
<1>6. ASSUME NEW s \in SUBSET T, s # {} PROVE G(rest[s])[rest[s]] = f[rest[s]]
  <2> DEFINE U == rest[s]
  <2>1. U \in SUBSET T /\ Recursive(G(U), base, op, rest, U)
    BY <1>3, <1>6
  <2>2. CASE U = {}
    BY <2>1, <2>2 DEF Recursive
  <2>3. CASE U # {}
    <3>1. /\ rest[U] \in SUBSET U /\ IsFiniteSet(rest[U])
          /\ Recursive(G(rest[U]), base, op, rest, rest[U])
          /\ Smaller(rest, U)
      <4>1. U \in SUBSET D /\ rest[U] \in SUBSET U
        BY <2>1, <2>3 DEF Smaller
      <4>2. IsFiniteSet(rest[U])
        BY <4>1, FS_Subset
      <4>3. Smaller(rest, U)
        BY <4>1 DEF Smaller
      <4> QED
        BY <1>3, <2>1, <2>3, <4>1, <4>2, <4>3
    <3>2. G(U)[rest[U]] = G(rest[U])[rest[U]]
      <4>1. PICK W, g, h : W = rest[U] /\ g = G(U) /\ h = G(rest[U])
        OBVIOUS
      <4>2. /\ IsFiniteSet(W) /\ W \subseteq U
            /\ Recursive(g, base, op, rest, U) /\ Recursive(h, base, op, rest, W)
        BY <2>1, <3>1, <4>1
      <4> HIDE DEF G, U
      <4>3. \A r \in SUBSET W : g[r] = h[r]
        BY <3>1, <4>2, RecursionsAgree
      <4> QED
        BY <4>1, <4>3
    <3>3. G(U)[U] = op[<<G(U)[rest[U]], U>>]
      <4> HIDE DEF G, U
      <4> QED
        BY <2>1, <2>3 DEF Recursive
    <3> QED
      <4> HIDE DEF G, U
      <4>1. f[U] = op[<<G(rest[U])[rest[U]], U>>]
        BY <2>1, <2>3
      <4> QED
        BY <3>2, <3>3, <4>1 DEF U
  <2> QED
    BY <2>2, <2>3
<1>7. Recursive(f, base, op, rest, T)
  <2> SUFFICES ASSUME NEW s \in SUBSET T
               PROVE  f[s] = IF s = {} THEN base ELSE op[<<f[rest[s]], s>>]
    BY DEF Recursive
  <2> HIDE DEF G
  <2> QED
    BY <1>6
<1>8. Is(f, T)
  BY <1>5, <1>7
<1> HIDE DEF f, Is
<1> QED
  BY <1>8

\* What satisfies the equation where the smaller value has the right type is
\* the one solution of that type.
Iterates(it, base, op, rest, V, D) ==
    /\ it[{}] = base
    /\ \A s \in SUBSET D : s # {} /\ it[rest[s]] \in V => it[s] = op[<<it[rest[s]], s>>]

TheSolution(g, base, op, rest, V, D) ==
    /\ g \in [SUBSET D -> V]
    /\ Recursive(g, base, op, rest, D)
    /\ \A it : Iterates(it, base, op, rest, V, D) => it[D] = g[D]

\* The fold of any step that keeps to V is one function, and it keeps to V.
LEMMA RecursionTheorem ==
    ASSUME NEW D, IsFiniteSet(D), NEW V, NEW base \in V,
           NEW rest, Smaller(rest, D),
           NEW op \in [V \X SUBSET D -> V]
    PROVE  \E g : TheSolution(g, base, op, rest, V, D)
<1>1. PICK g \in [SUBSET D -> V] : Recursive(g, base, op, rest, D)
  BY RecursionExists
<1>2. ASSUME NEW it, Iterates(it, base, op, rest, V, D) PROVE it[D] = g[D]
  <2> DEFINE B == {s \in SUBSET D : it[s] # g[s]}
  <2> SUFFICES ASSUME B # {} PROVE FALSE
    OBVIOUS
  <2>1. PICK s \in B : \A r \in B : ~ (r \subseteq s /\ r # s)
    <3>1. B \in SUBSET SUBSET D
      OBVIOUS
    <3> HIDE DEF B
    <3> QED
      BY <3>1, SmallestSubset
  <2>2. s # {}
    BY <1>1, <1>2 DEF Recursive, Iterates
  <2>3. rest[s] \in SUBSET D /\ rest[s] \notin B
    BY <2>1, <2>2 DEF Smaller
  <2>4. it[rest[s]] = g[rest[s]] /\ g[rest[s]] \in V
    BY <2>3
  <2> QED
    BY <1>1, <1>2, <2>2, <2>4 DEF Recursive, Iterates
<1> QED
  BY <1>1, <1>2 DEF TheSolution

-----------------------------------------------------------------------------
(* Counting. *)

\* A set of numbers has a least one.
LEMMA LeastNumber ==
    ASSUME NEW S \in SUBSET Nat, S # {}
    PROVE  \E x \in S : \A y \in S : x <= y
<1>1. PICK m \in S : m \in Nat
  OBVIOUS
<1>2. PICK D : D = 0 .. m
  OBVIOUS
<1> DEFINE B == {T \in SUBSET D : \E x \in S : T = 0 .. x}
<1>3. B \in SUBSET SUBSET D /\ B # {} /\ IsFiniteSet(D)
  <2>1. D \in B
    BY <1>1, <1>2
  <2>2. IsFiniteSet(D)
    BY <1>1, <1>2, FS_Interval
  <2> QED
    BY <2>1, <2>2
<1>4. PICK T \in B : \A U \in B : ~ (U \subseteq T /\ U # T)
  <2> HIDE DEF B
  <2> QED
    BY <1>3, SmallestSubset
<1>5. PICK x \in S : T = 0 .. x
  OBVIOUS
<1>6. ASSUME NEW y \in S PROVE x <= y
  <2> SUFFICES ASSUME y < x PROVE FALSE
    OBVIOUS
  <2>1. 0 .. y \subseteq 0 .. x /\ 0 .. y # 0 .. x
    <3>1. x \in 0 .. x /\ x \notin 0 .. y
      OBVIOUS
    <3> QED
      BY <3>1
  <2>2. 0 .. y \in B
    BY <1>5, <2>1
  <2> QED
    BY <1>4, <1>5, <2>1, <2>2
<1> QED
  BY <1>6

\* What is so of 0, and of a number if of the one before, is so of all up to n.
LEMMA CountUp ==
    ASSUME NEW n \in Nat, NEW S, 0 \in S,
           \A k \in 0 .. n - 1 : k \in S => k + 1 \in S
    PROVE  \A k \in 0 .. n : k \in S
<1> DEFINE B == {k \in 0 .. n : k \notin S}
<1> SUFFICES ASSUME B # {} PROVE FALSE
  OBVIOUS
<1>1. PICK k \in B : \A m \in B : k <= m
  <2>1. B \in SUBSET Nat
    OBVIOUS
  <2> HIDE DEF B
  <2> QED
    BY <2>1, LeastNumber
<1>2. k # 0 /\ k - 1 \in 0 .. n - 1 /\ k - 1 \notin B
  BY <1>1
<1>3. k - 1 \in S
  BY <1>1, <1>2
<1>4. (k - 1) + 1 \in S /\ (k - 1) + 1 = k
  BY <1>2, <1>3
<1> QED
  BY <1>1, <1>4

\* The largest and the smallest of some numbers.
LEMMA MaxOfSome ==
    ASSUME NEW n \in Nat, NEW S \in SUBSET (1 .. n), S # {}
    PROVE  Max(S) \in S /\ \A y \in S : Max(S) >= y
<1> DEFINE B == {n - x : x \in S}
<1>1. PICK b \in B : \A m \in B : b <= m
  <2>1. \A x \in S : n - x \in Nat
    OBVIOUS
  <2>2. B \in SUBSET Nat /\ B # {}
    BY <2>1
  <2> HIDE DEF B
  <2> QED
    BY <2>2, LeastNumber
<1>2. PICK x \in S : b = n - x
  BY <1>1
<1>3. \A y \in S : x >= y
  <2> SUFFICES ASSUME NEW y \in S PROVE x >= y
    OBVIOUS
  <2>1. b <= n - y
    BY <1>1
  <2> QED
    BY <1>2, <2>1
<1> QED
  BY <1>3 DEF Max

LEMMA MinOfSome ==
    ASSUME NEW S \in SUBSET Nat, S # {}
    PROVE  Min(S) \in S /\ \A y \in S : Min(S) <= y
<1>1. PICK x \in S : \A y \in S : x <= y
  BY LeastNumber
<1> QED
  BY <1>1 DEF Min

\* A left fold takes the largest index last.
Before(n) == [s \in SUBSET (1 .. n) |-> s \ {Max(s)}]

LEMMA BeforeIsSmaller ==
    ASSUME NEW n \in Nat
    PROVE  /\ Smaller(Before(n), 1 .. n)
           /\ \A k \in 1 .. n : Max(1 .. k) = k /\ Before(n)[1 .. k] = 1 .. k - 1
<1>1. ASSUME NEW s \in SUBSET (1 .. n), s # {}
      PROVE  Before(n)[s] \in SUBSET s /\ Before(n)[s] # s
  <2>1. Max(s) \in s
    BY <1>1, MaxOfSome
  <2> QED
    BY <2>1 DEF Before
<1>2. ASSUME NEW k \in 1 .. n PROVE Max(1 .. k) = k /\ Before(n)[1 .. k] = 1 .. k - 1
  <2>1. 1 .. k \in SUBSET (1 .. n) /\ 1 .. k # {}
    OBVIOUS
  <2>2. Max(1 .. k) \in 1 .. k /\ \A y \in 1 .. k : Max(1 .. k) >= y
    BY <2>1, MaxOfSome
  <2>3. Max(1 .. k) = k
    BY <2>2
  <2> QED
    BY <2>1, <2>3 DEF Before
<1> QED
  BY <1>1, <1>2 DEF Smaller

\* g computes a left fold with op; p are its values along the sequence.
AlongFold(p, base, op, n) ==
    /\ p[0] = base
    /\ \A k \in 1 .. n : p[k] = op[<<p[k - 1], k>>]

\* h is the function of a left fold of n elements with op: the only one.
IsLeftFold(h, base, op, V, n) ==
    /\ h \in [SUBSET (1 .. n) -> V]
    /\ h[{}] = base
    /\ \A s \in SUBSET (1 .. n) : s # {} =>
          /\ Max(s) \in s
          /\ h[s] = op[<<h[s \ {Max(s)}], Max(s)>>]
    /\ \A it : /\ it[{}] = base
               /\ \A s \in SUBSET (1 .. n) :
                     s # {} /\ it[s \ {Max(s)}] \in V =>
                          it[s] = op[<<it[s \ {Max(s)}], Max(s)>>]
               => it[1 .. n] = h[1 .. n]
    /\ \E p \in [0 .. n -> V] : p[n] = h[1 .. n] /\ AlongFold(p, base, op, n)

\* FoldLeft over n elements computes one function, step by step from left to right.
LEMMA LeftFold ==
    ASSUME NEW n \in Nat, NEW V, NEW base \in V, NEW op \in [V \X (1 .. n) -> V]
    PROVE  \E h : IsLeftFold(h, base, op, V, n)
<1> DEFINE D == 1 .. n
           rest == Before(n)
           o == [x \in V \X SUBSET D |->
                    IF x[2] = {} THEN base ELSE op[<<x[1], Max(x[2])>>]]
<1>1. IsFiniteSet(D)
  BY FS_Interval
<1>2. \A s \in SUBSET D : s # {} => Max(s) \in s /\ rest[s] = s \ {Max(s)}
  BY MaxOfSome DEF Before
<1>3. Smaller(rest, D)
  BY BeforeIsSmaller
<1>4. o \in [V \X SUBSET D -> V]
  <2> SUFFICES ASSUME NEW v \in V, NEW s \in SUBSET D, s # {}
               PROVE  op[<<v, Max(s)>>] \in V
    OBVIOUS
  <2> QED
    BY <1>2
<1>5. \A v \in V, s \in SUBSET D : s # {} => o[<<v, s>>] = op[<<v, Max(s)>>]
  OBVIOUS
<1> HIDE DEF o, rest, D
<1>6. PICK h : TheSolution(h, base, o, rest, V, D)
  BY <1>1, <1>3, <1>4, RecursionTheorem
<1> h \in [SUBSET D -> V]
  BY <1>6 DEF TheSolution
<1>7. h[{}] = base
  BY <1>6 DEF Recursive, TheSolution
<1>8. ASSUME NEW s \in SUBSET D, s # {}
      PROVE  /\ Max(s) \in s /\ s \ {Max(s)} \in SUBSET D
             /\ h[s] = op[<<h[s \ {Max(s)}], Max(s)>>]
  <2>1. h[s] = o[<<h[rest[s]], s>>]
    BY <1>6, <1>8 DEF Recursive, TheSolution
  <2>2. rest[s] \in SUBSET D
    BY <1>3, <1>8 DEF Smaller
  <2>3. h[rest[s]] \in V
    BY <2>2
  <2> QED
    BY <1>2, <1>5, <1>8, <2>1, <2>2, <2>3
<1>9. ASSUME NEW it, it[{}] = base,
             \A s \in SUBSET D : s # {} /\ it[s \ {Max(s)}] \in V =>
                    it[s] = op[<<it[s \ {Max(s)}], Max(s)>>]
      PROVE  it[D] = h[D]
  <2>1. \A s \in SUBSET D : s # {} /\ it[rest[s]] \in V => it[s] = o[<<it[rest[s]], s>>]
    <3> SUFFICES ASSUME NEW s \in SUBSET D, s # {}, it[rest[s]] \in V
                 PROVE  it[s] = o[<<it[rest[s]], s>>]
      OBVIOUS
    <3>1. rest[s] = s \ {Max(s)}
      BY <1>2
    <3>2. it[s] = op[<<it[rest[s]], Max(s)>>]
      BY <1>9, <3>1
    <3>3. o[<<it[rest[s]], s>>] = op[<<it[rest[s]], Max(s)>>]
      BY <1>5
    <3> QED
      BY <3>2, <3>3
  <2>2. Iterates(it, base, o, rest, V, D)
    BY <1>9, <2>1 DEF Iterates
  <2> QED
    BY <1>6, <2>2 DEF TheSolution
<1> DEFINE p == [k \in 0 .. n |-> h[1 .. k]]
<1>10. p \in [0 .. n -> V]
  <2>1. \A k \in 0 .. n : 1 .. k \in SUBSET D
    BY DEF D
  <2> QED
    BY <2>1
<1>11. p[n] = h[1 .. n]
  OBVIOUS
<1>12. AlongFold(p, base, op, n)
  <2>1. 1 .. 0 = {}
    OBVIOUS
  <2>2. p[0] = base
    BY <1>7, <2>1
  <2>3. ASSUME NEW k \in 1 .. n PROVE p[k] = op[<<p[k - 1], k>>]
    <3>1. 1 .. k \in SUBSET D /\ 1 .. k # {}
      BY DEF D
    <3>2. Max(1 .. k) = k /\ (1 .. k) \ {Max(1 .. k)} = 1 .. k - 1
      BY <1>2, <3>1, BeforeIsSmaller DEF rest
    <3>3. h[1 .. k] = op[<<h[1 .. k - 1], k>>]
      BY <1>8, <3>1, <3>2
    <3>4. p[k] = h[1 .. k] /\ p[k - 1] = h[1 .. k - 1]
      OBVIOUS
    <3> QED
      BY <3>3, <3>4
  <2> HIDE DEF p
  <2> QED
    BY <2>2, <2>3 DEF AlongFold
<1> HIDE DEF p
<1> QED
  BY <1>7, <1>8, <1>9, <1>10, <1>11, <1>12 DEF D, IsLeftFold

-----------------------------------------------------------------------------
(* StrategyBot.  The windows.                                               *)

\* A window holds the prices of a symbol up to its nth trade.
EndsAt(win, h, n) ==
    /\ Len(win) <= n
    /\ \A i \in 1 .. Len(win) : win[i] = h[n - Len(win) + i]

\* The side of the fast average after the nth price of h.
SideIn(h, n) == Compare(Mean(SubSeq(h, n - Fast + 1, n)),
                        Mean(SubSeq(h, n - Slow + 1, n)))

\* A deque that ends at a trade ends at the next one when that is pushed.
LEMMA PushEndsAt ==
    ASSUME NEW win \in Seq(Prices), NEW h \in Seq(Prices), NEW n \in Nat \ {0},
           Len(win) <= n, NEW d \in Nat, d + 1 <= Len(h), EndsAt(win, h, d)
    PROVE  /\ Push(win, h[d + 1], n) \in Seq(Prices)
           /\ Len(Push(win, h[d + 1], n)) = IF Len(win) < n THEN Len(win) + 1 ELSE n
           /\ EndsAt(Push(win, h[d + 1], n), h, d + 1)
<1> DEFINE p == h[d + 1]
<1>1. Len(win) \in Nat /\ Len(h) \in Nat /\ p \in Prices
  BY LenProperties, ElementOfSeq
<1>2. CASE Len(win) < n
  <2>1. Push(win, p, n) = Append(win, p)
    BY <1>2 DEF Push
  <2>2. /\ Append(win, p) \in Seq(Prices) /\ Len(Append(win, p)) = Len(win) + 1
        /\ \A i \in 1 .. Len(win) : Append(win, p)[i] = win[i]
        /\ Append(win, p)[Len(win) + 1] = p
    BY <1>1, AppendProperties
  <2>3. \A i \in 1 .. Len(win) + 1 :
            Append(win, p)[i] = h[(d + 1) - (Len(win) + 1) + i]
    <3> SUFFICES ASSUME NEW i \in 1 .. Len(win) + 1
                 PROVE  Append(win, p)[i] = h[(d + 1) - (Len(win) + 1) + i]
      OBVIOUS
    <3>1. CASE i = Len(win) + 1
      <4>1. (d + 1) - (Len(win) + 1) + i = d + 1
        BY <1>1, <3>1
      <4> QED
        BY <2>2, <3>1, <4>1
    <3>2. CASE i \in 1 .. Len(win)
      <4>1. (d + 1) - (Len(win) + 1) + i = d - Len(win) + i
        BY <1>1
      <4> QED
        BY <2>2, <3>2, <4>1 DEF EndsAt
    <3> QED
      BY <1>1, <3>1, <3>2
  <2>4. Len(win) + 1 <= d + 1
    BY <1>1 DEF EndsAt
  <2> QED
    BY <1>2, <2>1, <2>2, <2>3, <2>4 DEF EndsAt
<1>3. CASE Len(win) = n
  <2> DEFINE l == LastOf(win, n - 1)
  <2>1. Push(win, p, n) = Append(l, p)
    BY <1>1, <1>3 DEF Push
  <2>2. \A i \in 2 .. n : win[i] \in Prices
    BY <1>1, <1>3, ElementOfSeq
  <2>3. l = SubSeq(win, 2, n)
    <3>1. Len(win) - (n - 1) + 1 = 2
      BY <1>3
    <3> QED
      BY <1>3, <3>1 DEF LastOf
  <2>4. /\ l \in Seq(Prices) /\ Len(l) = n - 1
        /\ \A i \in 1 .. n - 1 : l[i] = win[i + 1]
    <3>1. /\ SubSeq(win, 2, n) \in Seq(Prices)
          /\ Len(SubSeq(win, 2, n)) = IF 2 <= n THEN n - 2 + 1 ELSE 0
          /\ \A i \in 1 .. n - 2 + 1 : SubSeq(win, 2, n)[i] = win[2 + i - 1]
      <4>1. 2 \in Int /\ n \in Int
        OBVIOUS
      <4> QED
        BY ONLY <2>2, <4>1, SubSeqProperties
    <3>2. (IF 2 <= n THEN n - 2 + 1 ELSE 0) = n - 1 /\ n - 2 + 1 = n - 1
      OBVIOUS
    <3>3. \A i \in 1 .. n - 1 : 2 + i - 1 = i + 1
      OBVIOUS
    <3> QED
      BY <2>3, <3>1, <3>2, <3>3
  <2> HIDE DEF l
  <2>5. /\ Append(l, p) \in Seq(Prices) /\ Len(Append(l, p)) = n
        /\ \A i \in 1 .. n - 1 : Append(l, p)[i] = l[i]
        /\ Append(l, p)[n] = p
    <3>1. /\ Append(l, p) \in Seq(Prices) /\ Len(Append(l, p)) = Len(l) + 1
          /\ \A i \in 1 .. Len(l) : Append(l, p)[i] = l[i]
          /\ Append(l, p)[Len(l) + 1] = p
      BY <1>1, <2>4, AppendProperties
    <3> QED
      BY <2>4, <3>1
  <2>6. \A i \in 1 .. n : Append(l, p)[i] = h[(d + 1) - n + i]
    <3> SUFFICES ASSUME NEW i \in 1 .. n
                 PROVE  Append(l, p)[i] = h[(d + 1) - n + i]
      OBVIOUS
    <3>1. CASE i = n
      <4>1. (d + 1) - n + i = d + 1
        BY <3>1
      <4> QED
        BY <2>5, <3>1, <4>1
    <3>2. CASE i \in 1 .. n - 1
      <4>1. i + 1 \in 1 .. n /\ d - n + (i + 1) = (d + 1) - n + i
        BY <3>2
      <4>2. win[i + 1] = h[d - n + (i + 1)]
        BY <1>3, <4>1 DEF EndsAt
      <4> QED
        BY <2>4, <2>5, <3>2, <4>1, <4>2
    <3>3. i = n \/ i \in 1 .. n - 1
      OBVIOUS
    <3> QED
      BY <3>1, <3>2, <3>3
  <2>7. n <= d + 1
    BY <1>3 DEF EndsAt
  <2>8. EndsAt(Append(l, p), h, d + 1)
    BY <2>5, <2>6, <2>7 DEF EndsAt
  <2> HIDE DEF p
  <2>9. /\ Push(win, p, n) \in Seq(Prices) /\ Len(Push(win, p, n)) = n
        /\ EndsAt(Push(win, p, n), h, d + 1)
    BY <2>1, <2>5, <2>8
  <2> QED
    BY <1>3, <2>9 DEF p
<1> QED
  BY <1>1, <1>2, <1>3

\* The end of a window is what stands there in the history.
LEMMA LastOfIs ==
    ASSUME NEW win \in Seq(Prices), NEW h \in Seq(Prices), NEW d \in Nat, d <= Len(h),
           EndsAt(win, h, d), NEW m \in Nat, m <= Len(win)
    PROVE  LastOf(win, m) = SubSeq(h, d - m + 1, d)
<1> DEFINE w == Len(win)
<1>1. w \in Nat /\ Len(h) \in Nat /\ w <= d
  BY LenProperties DEF EndsAt
<1>2. /\ \A i \in w - m + 1 .. w : win[i] \in Prices
      /\ \A i \in d - m + 1 .. d : h[i] \in Prices
  <2>1. \A i \in w - m + 1 .. w : i \in 1 .. w
    BY <1>1
  <2>2. \A i \in d - m + 1 .. d : i \in 1 .. Len(h)
    BY <1>1
  <2>3. \A i \in 1 .. w : win[i] \in Prices
    BY <1>1, ElementOfSeq
  <2>4. \A i \in 1 .. Len(h) : h[i] \in Prices
    BY <1>1, ElementOfSeq
  <2> QED
    BY <2>1, <2>2, <2>3, <2>4
<1> DEFINE a == SubSeq(win, w - m + 1, w)
           b == SubSeq(h, d - m + 1, d)
<1>3. /\ a \in Seq(Prices) /\ Len(a) = m
      /\ \A i \in 1 .. m : a[i] = win[w - m + i]
  <2>1. /\ a \in Seq(Prices)
        /\ Len(a) = IF w - m + 1 <= w THEN w - (w - m + 1) + 1 ELSE 0
        /\ \A i \in 1 .. w - (w - m + 1) + 1 : a[i] = win[(w - m + 1) + i - 1]
    BY <1>1, <1>2, SubSeqProperties
  <2>2. /\ (IF w - m + 1 <= w THEN w - (w - m + 1) + 1 ELSE 0) = m
        /\ w - (w - m + 1) + 1 = m
        /\ \A i \in 1 .. m : (w - m + 1) + i - 1 = w - m + i
    BY <1>1
  <2> HIDE DEF a, w
  <2> QED
    BY <2>1, <2>2
<1>4. /\ b \in Seq(Prices) /\ Len(b) = m
      /\ \A i \in 1 .. m : b[i] = h[d - m + i]
  <2>1. /\ b \in Seq(Prices)
        /\ Len(b) = IF d - m + 1 <= d THEN d - (d - m + 1) + 1 ELSE 0
        /\ \A i \in 1 .. d - (d - m + 1) + 1 : b[i] = h[(d - m + 1) + i - 1]
    BY <1>2, SubSeqProperties
  <2>2. /\ (IF d - m + 1 <= d THEN d - (d - m + 1) + 1 ELSE 0) = m
        /\ d - (d - m + 1) + 1 = m
        /\ \A i \in 1 .. m : (d - m + 1) + i - 1 = d - m + i
    OBVIOUS
  <2> HIDE DEF b
  <2> QED
    BY <2>1, <2>2
<1>5. \A i \in 1 .. m : a[i] = b[i]
  <2> SUFFICES ASSUME NEW i \in 1 .. m PROVE a[i] = b[i]
    OBVIOUS
  <2>1. w - m + i \in 1 .. w /\ d - w + (w - m + i) = d - m + i
    BY <1>1
  <2>2. win[w - m + i] = h[d - w + (w - m + i)]
    BY <2>1 DEF EndsAt
  <2> HIDE DEF a, b, w
  <2> QED
    BY <1>3, <1>4, <2>1, <2>2
<1>6. a = b
  <2> HIDE DEF a, b
  <2> QED
    BY <1>3, <1>4, <1>5, SeqEqual
<1> QED
  BY <1>3, <1>6 DEF LastOf

\* What the detector computes from its deque is the side over the history.
LEMMA SideOfIs ==
    ASSUME NEW win \in Seq(Prices), NEW h \in Seq(Prices), NEW d \in Nat,
           d <= Len(h), EndsAt(win, h, d), Slow <= Len(win)
    PROVE  SideOf(win) = SideIn(h, d)
<1>1. Fast \in Nat /\ Slow \in Nat /\ Fast <= Slow /\ Len(win) \in Nat
  BY BotAssumption, LenProperties
<1>2. Fast <= Len(win)
  BY <1>1
<1>3. LastOf(win, Fast) = SubSeq(h, d - Fast + 1, d)
  BY <1>1, <1>2, LastOfIs
<1>4. LastOf(win, Slow) = SubSeq(h, d - Slow + 1, d)
  BY <1>1, LastOfIs
<1> QED
  BY <1>3, <1>4 DEF SideOf, SideIn

\* A history that grows keeps its windows and its sides.
LEMMA GrowingKeeps ==
    ASSUME NEW h \in Seq(Prices), NEW p \in Prices, NEW n \in Nat, n <= Len(h)
    PROVE  /\ \A win \in Seq(Prices) : EndsAt(win, h, n) => EndsAt(win, Append(h, p), n)
           /\ Slow <= n => SideIn(Append(h, p), n) = SideIn(h, n)
<1> DEFINE g == Append(h, p)
<1>1. /\ g \in Seq(Prices) /\ Len(g) = Len(h) + 1 /\ Len(h) \in Nat
      /\ \A i \in 1 .. Len(h) : g[i] = h[i]
  BY AppendProperties, LenProperties
<1> HIDE DEF g
<1>2. ASSUME NEW win \in Seq(Prices), EndsAt(win, h, n) PROVE EndsAt(win, g, n)
  <2>1. Len(win) \in Nat
    BY LenProperties
  <2>2. Len(win) <= n
    BY <1>2 DEF EndsAt
  <2>3. \A w \in Nat, l \in Nat : w <= n /\ n <= l =>
            \A i \in 1 .. w : n - w + i \in 1 .. l
    OBVIOUS
  <2>4. \A i \in 1 .. Len(win) : n - Len(win) + i \in 1 .. Len(h)
    BY <1>1, <2>1, <2>2, <2>3
  <2> QED
    BY <1>1, <1>2, <2>4 DEF EndsAt
<1>3. ASSUME NEW m \in Nat, m <= n
      PROVE  SubSeq(g, n - m + 1, n) = SubSeq(h, n - m + 1, n)
  <2>1. /\ \A i \in 1 .. n : h[i] \in Prices /\ g[i] \in Prices /\ g[i] = h[i]
    <3>1. \A i \in 1 .. n : i \in 1 .. Len(h)
      BY <1>1
    <3>2. \A i \in 1 .. Len(h) : h[i] \in Prices
      BY ElementOfSeq
    <3> QED
      BY <1>1, <3>1, <3>2
  <2> DEFINE k == n - m + 1
             a == SubSeq(g, k, n)
             b == SubSeq(h, k, n)
  <2>2. k \in Int /\ k >= 1
    BY <1>3
  <2> HIDE DEF k
  <2>3. \A i \in k .. n : h[i] \in Prices /\ g[i] \in Prices
    BY <2>1, <2>2
  <2>4. /\ a \in Seq(Prices) /\ Len(a) = IF k <= n THEN n - k + 1 ELSE 0
        /\ \A i \in 1 .. n - k + 1 : a[i] = g[k + i - 1]
    BY <2>2, <2>3, SubSeqProperties
  <2>5. /\ b \in Seq(Prices) /\ Len(b) = IF k <= n THEN n - k + 1 ELSE 0
        /\ \A i \in 1 .. n - k + 1 : b[i] = h[k + i - 1]
    BY <2>2, <2>3, SubSeqProperties
  <2> HIDE DEF a, b
  <2>6. \A i \in 1 .. n - k + 1 : k + i - 1 \in 1 .. n
    BY <2>2
  <2>7. \A i \in 1 .. n - k + 1 : a[i] = b[i]
    BY <2>1, <2>4, <2>5, <2>6
  <2>8. \A i \in 1 .. Len(a) : i \in 1 .. n - k + 1
    BY <2>2, <2>4
  <2>9. a = b
    BY <2>4, <2>5, <2>7, <2>8, SeqEqual
  <2> QED
    BY <2>9 DEF a, b, k
<1>4. ASSUME Slow <= n PROVE SideIn(g, n) = SideIn(h, n)
  <2>1. Fast \in Nat /\ Slow \in Nat /\ Fast <= n
    BY <1>4, BotAssumption
  <2> QED
    BY <1>3, <1>4, <2>1 DEF SideIn
<1> QED
  BY <1>2, <1>4 DEF g

-----------------------------------------------------------------------------
(* The invariant.                                                           *)

\* The trade of ev is in hist, and the jump detector has yet to be fed it.
Pending(s) ==
    /\ \/ pc = "jump"
       \/ pc \in {"cooldown", "send"} /\ next = "jump"
    /\ ev[1] = s

\* So many trades of a symbol the jump detector has dealt with.
Dealt(s) == IF Pending(s) THEN Len(hist[s]) - 1 ELSE Len(hist[s])

TradesInv ==
    /\ pc \in {"listen", "ma", "jump", "cooldown", "send", "end"}
    /\ next \in {"listen", "jump"}
    /\ pc \notin {"listen", "end"} => ev \in Symbols \X Prices
    /\ hist \in [Symbols -> Seq(Prices)]
    /\ ma_win \in [Symbols -> Seq(Prices)]
    /\ jump_win \in [Symbols -> Seq(Prices)]
    /\ \A s \in Symbols :
          Pending(s) => Len(hist[s]) > 0 /\ hist[s][Len(hist[s])] = ev[2]

\* A signal belongs to a trade that was, and a jump to one that was dealt with.
SignalsInv ==
    /\ \A s \in Symbols, k \in Crosses \cup Jumps, n \in Int :
          <<s, k, n>> \in emitted => n \in 1 .. Len(hist[s])
    /\ pc # "end" =>
          \A s \in Symbols, n \in Int : JumpAt(s, n) => n <= Dealt(s)

\* The deque of the averages holds the last prices, all of them while it may.
AveragesInv ==
    \A s \in Symbols :
        /\ Len(ma_win[s]) <= Keep
        /\ Len(ma_win[s]) < Keep => Len(ma_win[s]) = Len(hist[s])
        /\ EndsAt(ma_win[s], hist[s], Len(hist[s]))

\* The window w of the jump detector after d trades: no jump is in it, and it
\* is full unless there were no more trades or a jump stands before it.
WindowIs(s, w, d) ==
    /\ Len(w) <= Window
    /\ EndsAt(w, hist[s], d)
    /\ \A m \in d - Len(w) + 1 .. d : ~JumpAt(s, m)
    /\ Len(w) < Window /\ Len(w) < d => JumpAt(s, d - Len(w))

\* When the detector has raised its exception the program ends.
WindowInv == pc # "end" => \A s \in Symbols : WindowIs(s, jump_win[s], Dealt(s))

\* What SignalsMatchReference says of one trade.
CrossMatches(s, n) ==
    /\ <<s, "ma_cross_up", n>> \in emitted
          <=> n > Slow /\ CrossesUp(SideIn(hist[s], n - 1), SideIn(hist[s], n))
    /\ <<s, "ma_cross_down", n>> \in emitted
          <=> n > Slow /\ CrossesDown(SideIn(hist[s], n - 1), SideIn(hist[s], n))

JumpMatches(s, n) ==
    JumpAt(s, n) <=>
        /\ n >= Window
        /\ \A m \in n - Window + 1 .. n - 1 : ~JumpAt(s, m)
        /\ Jump(hist[s][n - Window + 1], hist[s][n])

CrossInv == \A s \in Symbols : \A n \in 1 .. Len(hist[s]) : CrossMatches(s, n)
JumpInv ==
    \A s \in Symbols : \A n \in 1 .. Len(hist[s]) :
        Seen(s, n) => JumpMatches(s, n)

BotInv ==
    TradesInv /\ SignalsInv /\ AveragesInv /\ WindowInv /\ CrossInv /\ JumpInv

\* The invariant says what the property says.
LEMMA BotInvMatches == BotInv => SignalsMatchReference
<1> SUFFICES ASSUME BotInv PROVE SignalsMatchReference
  OBVIOUS
<1> SUFFICES ASSUME NEW s \in Symbols, NEW n \in DOMAIN hist[s]
             PROVE  CrossMatches(s, n) /\ (Seen(s, n) => JumpMatches(s, n))
  BY DEF SignalsMatchReference, CrossMatches, JumpMatches, Side, SideIn
<1>1. n \in 1 .. Len(hist[s])
  BY LenProperties DEF BotInv, TradesInv
<1> QED
  BY <1>1 DEF BotInv, CrossInv, JumpInv

\* At the start there is no trade.
LEMMA BotInit == Init => BotInv
<1> SUFFICES ASSUME Init PROVE BotInv
  OBVIOUS
<1>1. <<>> \in Seq(Prices) /\ Len(<<>>) = 0
  BY EmptySeq
<1>2. \A s \in Symbols : /\ hist[s] = <<>> /\ ma_win[s] = <<>> /\ jump_win[s] = <<>>
                         /\ Dealt(s) = 0 /\ ~Pending(s)
  BY <1>1 DEF Init, Dealt, Pending
<1>3. TradesInv
  BY <1>1, <1>2 DEF Init, TradesInv
<1>4. SignalsInv
  BY DEF Init, SignalsInv, JumpAt
<1>5. \A h : EndsAt(<<>>, h, 0)
  BY <1>1 DEF EndsAt
<1>6. AveragesInv
  BY <1>1, <1>2, <1>5, BotAssumption DEF AveragesInv, Keep
<1>7. Window \in Nat
  BY BotAssumption
<1>8. WindowInv
  BY <1>1, <1>2, <1>5, <1>7 DEF WindowInv, WindowIs, Init, JumpAt
<1>9. CrossInv /\ JumpInv
  BY <1>1, <1>2 DEF CrossInv, JumpInv
<1> QED
  BY <1>3, <1>4, <1>6, <1>8, <1>9 DEF BotInv

\* Steps of the loop that neither trade nor signal.
LEMMA LoopStep ==
    ASSUME BotInv, UNCHANGED winVars, TradesInv', pc = "end" => pc' = "end",
           pc' # "end" => \A s \in Symbols : Dealt(s)' = Dealt(s),
           \A s \in Symbols, n \in Int : Seen(s, n)' => Seen(s, n)
    PROVE  BotInv'
<1>1. hist' = hist /\ ma_win' = ma_win /\ jump_win' = jump_win /\ emitted' = emitted
  BY DEF winVars
<1>2. \A s, n : JumpAt(s, n)' <=> JumpAt(s, n)
  BY <1>1 DEF JumpAt
<1>3. SignalsInv'
  BY <1>1, <1>2 DEF BotInv, SignalsInv
<1>4. AveragesInv'
  BY <1>1 DEF BotInv, AveragesInv
<1>5. WindowInv'
  <2> SUFFICES ASSUME pc' # "end", NEW s \in Symbols
               PROVE  WindowIs(s, jump_win[s], Dealt(s))'
    BY DEF WindowInv
  <2>1. Dealt(s)' = Dealt(s) /\ jump_win[s]' = jump_win[s]
    BY <1>1
  <2>2. WindowIs(s, jump_win[s], Dealt(s))
    BY DEF BotInv, WindowInv
  <2> QED
    BY <1>1, <1>2, <2>1, <2>2 DEF WindowIs
<1>6. CrossInv'
  BY <1>1 DEF BotInv, CrossInv, CrossMatches
<1>7. JumpInv'
  <2>1. \A s, n : JumpMatches(s, n)' <=> JumpMatches(s, n)
    BY <1>1, <1>2 DEF JumpMatches
  <2> QED
    BY <1>1, <2>1 DEF BotInv, JumpInv
<1> QED
  BY <1>3, <1>4, <1>5, <1>6, <1>7 DEF BotInv

\* The loop, the clock and the signal handler.
LEMMA LoopSteps ==
    ASSUME BotInv,
           \/ Tick \/ handle_sig \/ Break \/ stream_raises \/ Suppress \/ Try \/ send
           \/ \E s \in Symbols, p \in Prices : stream_trades(s, p)
           \/ UNCHANGED vars
    PROVE  BotInv'
<1> USE DEF BotInv, TradesInv, Pending, Dealt, Seen
<1>1. CASE Tick \/ handle_sig \/ UNCHANGED vars
  <2>1. UNCHANGED <<pc, ev, next, winVars>>
    BY <1>1 DEF Tick, handle_sig, vars
  <2>2. UNCHANGED <<pc, ev, next, hist, ma_win, jump_win>>
    BY <2>1 DEF winVars
  <2>3. TradesInv'
    BY <2>2
  <2>4. /\ \A s \in Symbols : Dealt(s)' = Dealt(s)
        /\ \A s \in Symbols, n \in Int : Seen(s, n)' => Seen(s, n)
    BY <2>2
  <2> QED
    BY <2>1, <2>2, <2>3, <2>4, LoopStep
<1>2. CASE Break \/ stream_raises
  <2>1. pc = "listen" /\ pc' = "end" /\ UNCHANGED <<ev, next, winVars>>
    BY <1>2 DEF Break, stream_raises
  <2>2. UNCHANGED <<ev, next, hist, ma_win, jump_win>>
    BY <2>1 DEF winVars
  <2>3. TradesInv'
    BY <2>1, <2>2
  <2>4. \A s \in Symbols, n \in Int : Seen(s, n)' => Seen(s, n)
    BY <2>1
  <2> QED
    BY <2>1, <2>3, <2>4, LoopStep
<1>3. CASE Suppress \/ Try \/ send
  <2>1. /\ pc \in {"cooldown", "send"} /\ pc' \in {next, "send"}
        /\ UNCHANGED <<ev, next, winVars>>
    BY <1>3 DEF Suppress, Try, send
  <2>2. UNCHANGED <<ev, next, hist, ma_win, jump_win>>
    BY <2>1 DEF winVars
  <2>3. TradesInv'
    BY <2>1, <2>2
  <2>4. /\ \A s \in Symbols : Dealt(s)' = Dealt(s)
        /\ \A s \in Symbols, n \in Int : Seen(s, n)' => Seen(s, n)
    BY <2>1, <2>2
  <2> QED
    BY <2>1, <2>3, <2>4, LoopStep
<1>4. ASSUME NEW s \in Symbols, NEW p \in Prices, stream_trades(s, p) PROVE BotInv'
  <2>1. /\ pc = "listen" /\ pc' = "ma" /\ ev' = <<s, p>>
        /\ UNCHANGED <<next, winVars>>
    BY <1>4 DEF stream_trades
  <2>2. UNCHANGED <<next, hist, ma_win, jump_win>>
    BY <2>1 DEF winVars
  <2>3. TradesInv'
    BY <2>1, <2>2
  <2>4. /\ \A x \in Symbols : Dealt(x)' = Dealt(x)
        /\ \A x \in Symbols, n \in Int : Seen(x, n)' => Seen(x, n)
    BY <2>1, <2>2
  <2> QED
    BY <2>1, <2>3, <2>4, LoopStep
<1> QED
  BY <1>1, <1>2, <1>3, <1>4

-----------------------------------------------------------------------------
(* A detector is fed.                                                       *)

\* What the averages signal at trade n: nothing or one crossing.
Crossing(s, n, k) ==
    /\ k \in Crosses \cup {"none"}
    /\ emitted' = IF k = "none" THEN emitted ELSE emitted \cup {<<s, k, n>>}

\* FeedAverages, once: the history grows, and the loop goes on to the jumps.
LEMMA AveragesEffect ==
    ASSUME BotInv, FeedAverages
    PROVE  LET s == ev[1]
               p == ev[2]
               old == ma_win[s]
               win == Push(old, p, Keep)
               ready == Len(old) >= Slow
               up   == ready /\ CrossesUp(SideOf(old), SideOf(win))
               down == ready /\ CrossesDown(SideOf(old), SideOf(win))
           IN /\ s \in Symbols /\ p \in Prices
              /\ hist' = [hist EXCEPT ![s] = Append(hist[s], p)]
              /\ ma_win' = [ma_win EXCEPT ![s] = win]
              /\ pc = "ma" /\ UNCHANGED <<ev, jump_win>>
              /\ pc' = "jump" \/ (pc' = "cooldown" /\ next' = "jump")
              /\ next' \in {"listen", "jump"}
              /\ \E k \in Crosses \cup {"none"} :
                    /\ Crossing(s, Len(hist[s]) + 1, k)
                    /\ k = "ma_cross_up" => up
                    /\ k = "ma_cross_down" => down
                    /\ k = "none" => ~up /\ ~down
<1> DEFINE s == ev[1]
           p == ev[2]
           old == ma_win[s]
           win == Push(old, p, Keep)
           ready == Len(old) >= Slow
           up   == ready /\ CrossesUp(SideOf(old), SideOf(win))
           down == ready /\ CrossesDown(SideOf(old), SideOf(win))
           n    == Len(hist[s]) + 1
<1>1. pc = "ma" /\ ev \in Symbols \X Prices /\ next \in {"listen", "jump"}
  BY DEF FeedAverages, BotInv, TradesInv
<1>2. s \in Symbols /\ p \in Prices
  BY <1>1, BotAssumption
<1>3. /\ hist' = [hist EXCEPT ![s] = Append(hist[s], p)]
      /\ ma_win' = [ma_win EXCEPT ![s] = win]
      /\ UNCHANGED <<ev, jump_win>>
  BY DEF FeedAverages
<1>4. Len(hist'[s]) = n
  <2>1. hist \in [Symbols -> Seq(Prices)]
    BY DEF BotInv, TradesInv
  <2>2. hist'[s] = Append(hist[s], p)
    BY <1>2, <1>3, <2>1
  <2> QED
    BY <1>2, <2>1, <2>2, AppendProperties
<1>5. \/ up /\ Emit("ma_cross_up", "jump")
      \/ down /\ Emit("ma_cross_down", "jump")
      \/ ~up /\ ~down /\ EmitNone("jump")
  BY DEF FeedAverages
<1> HIDE DEF s, p, win, up, down, n
<1>6. CASE up /\ Emit("ma_cross_up", "jump")
  <2>1. Crossing(s, n, "ma_cross_up")
    BY <1>4, <1>6 DEF Emit, Crossing, Crosses, s
  <2>2. pc' = "cooldown" /\ next' = "jump"
    BY <1>6 DEF Emit
  <2>3. /\ "ma_cross_up" \in Crosses \cup {"none"}
        /\ "ma_cross_up" # "ma_cross_down" /\ "ma_cross_up" # "none"
    BY DEF Crosses
  <2>4. \E k \in Crosses \cup {"none"} :
            /\ Crossing(s, n, k)
            /\ k = "ma_cross_up" => up
            /\ k = "ma_cross_down" => down
            /\ k = "none" => ~up /\ ~down
    BY <1>6, <2>1, <2>3
  <2> QED
    BY <1>1, <1>2, <1>3, <2>2, <2>4 DEF s, p, win, up, down, n
<1>7. CASE down /\ Emit("ma_cross_down", "jump")
  <2>1. Crossing(s, n, "ma_cross_down")
    BY <1>4, <1>7 DEF Emit, Crossing, Crosses, s
  <2>2. pc' = "cooldown" /\ next' = "jump"
    BY <1>7 DEF Emit
  <2>3. /\ "ma_cross_down" \in Crosses \cup {"none"}
        /\ "ma_cross_down" # "ma_cross_up" /\ "ma_cross_down" # "none"
    BY DEF Crosses
  <2>4. \E k \in Crosses \cup {"none"} :
            /\ Crossing(s, n, k)
            /\ k = "ma_cross_up" => up
            /\ k = "ma_cross_down" => down
            /\ k = "none" => ~up /\ ~down
    BY <1>7, <2>1, <2>3
  <2> QED
    BY <1>1, <1>2, <1>3, <2>2, <2>4 DEF s, p, win, up, down, n
<1>8. CASE ~up /\ ~down /\ EmitNone("jump")
  <2>1. Crossing(s, n, "none")
    BY <1>8 DEF EmitNone, Crossing
  <2>2. pc' = "jump" /\ next' = next
    BY <1>8 DEF EmitNone
  <2>3. "none" # "ma_cross_up" /\ "none" # "ma_cross_down"
    OBVIOUS
  <2>4. \E k \in Crosses \cup {"none"} :
            /\ Crossing(s, n, k)
            /\ k = "ma_cross_up" => up
            /\ k = "ma_cross_down" => down
            /\ k = "none" => ~up /\ ~down
    BY <1>8, <2>1, <2>3
  <2> QED
    BY <1>1, <1>2, <1>3, <2>2, <2>4 DEF s, p, win, up, down, n
<1> QED
  BY <1>5, <1>6, <1>7, <1>8

\* MovingAverageDetector.feed.
LEMMA FeedAveragesStep == ASSUME BotInv, FeedAverages PROVE BotInv'
<1> DEFINE s == ev[1]
           p == ev[2]
           h == hist[s]
           g == Append(h, p)
           l == Len(h)
           old == ma_win[s]
           win == Push(old, p, Keep)
           ready == Len(old) >= Slow
           up   == ready /\ CrossesUp(SideOf(old), SideOf(win))
           down == ready /\ CrossesDown(SideOf(old), SideOf(win))
<1>1. /\ s \in Symbols /\ p \in Prices
      /\ hist' = [hist EXCEPT ![s] = g]
      /\ ma_win' = [ma_win EXCEPT ![s] = win]
      /\ pc = "ma" /\ ev' = ev /\ jump_win' = jump_win
      /\ pc' = "jump" \/ (pc' = "cooldown" /\ next' = "jump")
      /\ next' \in {"listen", "jump"}
  BY AveragesEffect
<1>2. PICK k \in Crosses \cup {"none"} :
            /\ Crossing(s, l + 1, k)
            /\ k = "ma_cross_up" => up
            /\ k = "ma_cross_down" => down
            /\ k = "none" => ~up /\ ~down
  BY AveragesEffect
<1>3. /\ hist \in [Symbols -> Seq(Prices)] /\ ma_win \in [Symbols -> Seq(Prices)]
      /\ jump_win \in [Symbols -> Seq(Prices)]
  BY DEF BotInv, TradesInv
<1>4. /\ h \in Seq(Prices) /\ old \in Seq(Prices) /\ l \in Nat
      /\ g \in Seq(Prices) /\ Len(g) = l + 1 /\ g[l + 1] = p
      /\ \A i \in 1 .. l : g[i] = h[i]
  BY <1>1, <1>3, LenProperties, AppendProperties
<1>5. Keep \in Nat \ {0} /\ Slow \in Nat /\ Slow < Keep /\ Slow > 0
  BY BotAssumption DEF Keep
<1>6. /\ Len(old) \in Nat /\ Len(old) <= Keep /\ (Len(old) < Keep => Len(old) = l)
      /\ EndsAt(old, h, l)
  BY <1>1, <1>4, LenProperties DEF BotInv, AveragesInv
<1>7. EndsAt(old, g, l)
  <2>1. l <= Len(h)
    BY <1>4
  <2> HIDE DEF h, l, old, p
  <2> QED
    BY <1>1, <1>4, <1>6, <2>1, GrowingKeeps
<1>8. /\ win \in Seq(Prices) /\ Len(win) = (IF Len(old) < Keep THEN Len(old) + 1 ELSE Keep)
      /\ EndsAt(win, g, l + 1)
  <2> HIDE DEF g, l, old, p
  <2>1. l + 1 <= Len(g)
    BY <1>4
  <2>2. /\ Push(old, g[l + 1], Keep) \in Seq(Prices)
        /\ Len(Push(old, g[l + 1], Keep))
              = IF Len(old) < Keep THEN Len(old) + 1 ELSE Keep
        /\ EndsAt(Push(old, g[l + 1], Keep), g, l + 1)
    BY <1>4, <1>5, <1>6, <1>7, <2>1, PushEndsAt
  <2> QED
    BY <1>4, <2>2
<1>9. /\ hist'[s] = g /\ ma_win'[s] = win
      /\ \A x \in Symbols \ {s} : hist'[x] = hist[x] /\ ma_win'[x] = ma_win[x]
      /\ hist' \in [Symbols -> Seq(Prices)] /\ ma_win' \in [Symbols -> Seq(Prices)]
  <2> HIDE DEF s, g, win
  <2> QED
    BY <1>1, <1>3, <1>4, <1>8
<1> HIDE DEF s, p, g, l, win, h, old, up, down
<1>10. TradesInv'
  <2>1. \A x \in Symbols : Pending(x)' => x = s
    BY <1>1 DEF Pending, s
  <2>2. Len(hist'[s]) > 0 /\ hist'[s][Len(hist'[s])] = ev'[2]
    BY <1>1, <1>4, <1>9 DEF p
  <2>3. ev' \in Symbols \X Prices
    BY <1>1 DEF BotInv, TradesInv
  <2>4. pc' \in {"listen", "ma", "jump", "cooldown", "send", "end"}
    BY <1>1
  <2> QED
    BY <1>1, <1>3, <1>9, <2>1, <2>2, <2>3, <2>4 DEF TradesInv
<1>11. \A x \in Symbols : Dealt(x) = Len(hist[x]) /\ Dealt(x)' = Len(hist[x])
  <2>1. \A x \in Symbols : ~Pending(x) /\ (Pending(x)' <=> x = s)
    BY <1>1 DEF Pending, s
  <2>2. \A x \in Symbols : x # s => Dealt(x) = Len(hist[x]) /\ Dealt(x)' = Len(hist[x])
    BY <1>9, <2>1 DEF Dealt
  <2>3. Len(hist[s]) = l /\ Len(hist'[s]) - 1 = l
    BY <1>4, <1>9 DEF l, h
  <2>4. ASSUME NEW x \in Symbols, x = s
        PROVE  Dealt(x) = Len(hist[x]) /\ Dealt(x)' = Len(hist[x])
    BY <2>1, <2>3, <2>4 DEF Dealt
  <2> QED
    BY <2>2, <2>4
<1>12. \A x \in Symbols : \A j, n : <<x, j, n>> \in emitted'
            <=> <<x, j, n>> \in emitted \/ (k # "none" /\ x = s /\ j = k /\ n = l + 1)
  BY <1>2 DEF Crossing
<1>13. \A x \in Symbols : \A n : JumpAt(x, n)' <=> JumpAt(x, n)
  BY <1>12 DEF JumpAt, Jumps, Crosses
<1>14. \A x \in Symbols : Len(hist[x]) \in Nat /\ Len(hist'[x]) \in Nat
                        /\ Len(hist[x]) <= Len(hist'[x])
  <2>1. \A x \in Symbols : Len(hist[x]) \in Nat /\ Len(hist'[x]) \in Nat
    BY <1>3, <1>9, LenProperties
  <2>2. Len(hist[s]) = l /\ Len(hist'[s]) = l + 1
    BY <1>4, <1>9 DEF l, h
  <2>3. ASSUME NEW x \in Symbols PROVE Len(hist[x]) <= Len(hist'[x])
    <3>1. CASE x = s
      BY <1>4, <2>2, <3>1
    <3>2. CASE x # s
      <4>1. hist'[x] = hist[x]
        BY <1>9, <3>2
      <4> QED
        BY <2>1, <4>1
    <3> QED
      BY <3>1, <3>2
  <2> QED
    BY <2>1, <2>3
<1>15. SignalsInv'
  <2>1. ASSUME NEW x \in Symbols, NEW j \in Crosses \cup Jumps, NEW n \in Int,
               <<x, j, n>> \in emitted'
        PROVE  n \in 1 .. Len(hist'[x])
    <3>1. CASE <<x, j, n>> \in emitted
      <4>1. n \in 1 .. Len(hist[x])
        BY <3>1 DEF BotInv, SignalsInv
      <4> QED
        BY <4>1, <1>14
    <3>2. CASE x = s /\ n = l + 1
      BY <3>2, <1>4, <1>9
    <3> QED
      BY <1>12, <2>1, <3>1, <3>2
  <2>2. ASSUME NEW x \in Symbols, NEW n \in Int, JumpAt(x, n)'
        PROVE  n <= Dealt(x)'
    <3>1. n <= Dealt(x)
      BY <1>1, <1>13, <2>2 DEF BotInv, SignalsInv
    <3> QED
      BY <1>11, <3>1
  <2> QED
    BY <2>1, <2>2 DEF SignalsInv
<1>16. AveragesInv'
  <2> SUFFICES ASSUME NEW x \in Symbols
               PROVE  /\ Len(ma_win'[x]) <= Keep
                      /\ Len(ma_win'[x]) < Keep => Len(ma_win'[x]) = Len(hist'[x])
                      /\ EndsAt(ma_win'[x], hist'[x], Len(hist'[x]))
    BY DEF AveragesInv
  <2>1. CASE x = s
    <3>1. Len(win) <= Keep /\ (Len(win) < Keep => Len(win) = l + 1)
      BY <1>4, <1>5, <1>6, <1>8
    <3> QED
      BY <1>4, <1>8, <1>9, <2>1, <3>1
  <2>2. CASE x # s
    BY <1>9, <2>2 DEF BotInv, AveragesInv
  <2> QED
    BY <2>1, <2>2
<1>17. WindowInv'
  <2> SUFFICES ASSUME NEW x \in Symbols
               PROVE  WindowIs(x, jump_win[x], Dealt(x))'
    BY DEF WindowInv
  <2>1. WindowIs(x, jump_win[x], Len(hist[x]))
    BY <1>1, <1>11 DEF BotInv, WindowInv
  <2>2. EndsAt(jump_win[x], hist'[x], Len(hist[x]))
    <3>1. CASE x = s
      <4>1. EndsAt(jump_win[s], h, l)
        BY <2>1, <3>1 DEF WindowIs, l, h
      <4>2. jump_win[s] \in Seq(Prices) /\ l <= Len(h)
        BY <1>1, <1>3, <1>4 DEF l
      <4>3. EndsAt(jump_win[s], Append(h, p), l)
        BY <1>1, <1>4, <4>1, <4>2, GrowingKeeps
      <4> QED
        BY <1>9, <3>1, <4>3 DEF g, l, h
    <3>2. CASE x # s
      BY <1>9, <2>1, <3>2 DEF WindowIs
    <3> QED
      BY <3>1, <3>2
  <2>3. Dealt(x)' = Len(hist[x]) /\ jump_win'[x] = jump_win[x]
    BY <1>1, <1>11
  <2> QED
    BY <1>13, <2>1, <2>2, <2>3 DEF WindowIs
<1>18. CrossInv'
  <2> SUFFICES ASSUME NEW x \in Symbols, NEW n \in 1 .. Len(hist'[x])
               PROVE  CrossMatches(x, n)'
    BY DEF CrossInv
  <2>1. CASE x # s
    <3>1. CrossMatches(x, n)
      BY <1>9, <2>1 DEF BotInv, CrossInv
    <3> QED
      BY <1>9, <1>12, <2>1, <3>1 DEF CrossMatches
  <2>2. CASE x = s /\ n \in 1 .. l
    <3>1. CrossMatches(s, n)
      BY <1>1, <2>2 DEF BotInv, CrossInv, l, h
    <3>2. n # l + 1
      BY <1>4, <2>2
    <3>3. ASSUME n > Slow
          PROVE  SideIn(g, n) = SideIn(h, n) /\ SideIn(g, n - 1) = SideIn(h, n - 1)
      <4>1. n \in Nat /\ n - 1 \in Nat /\ n <= Len(h) /\ n - 1 <= Len(h)
            /\ Slow <= n /\ Slow <= n - 1
        BY <1>4, <1>5, <2>2, <3>3 DEF l
      <4> QED
        BY <1>1, <1>4, <4>1, GrowingKeeps DEF g
    <3> QED
      BY <1>9, <1>12, <2>2, <3>1, <3>2, <3>3 DEF CrossMatches, h
  <2>3. CASE x = s /\ n = l + 1
    <3>1. /\ <<s, "ma_cross_up", n>> \notin emitted
          /\ <<s, "ma_cross_down", n>> \notin emitted
      <4>1. n \in Int /\ n \notin 1 .. l
        BY <1>4, <2>3
      <4>2. "ma_cross_up" \in Crosses \cup Jumps /\ "ma_cross_down" \in Crosses \cup Jumps
        BY DEF Crosses
      <4> QED
        BY <1>1, <4>1, <4>2 DEF BotInv, SignalsInv, l, h
    <3>2. /\ <<s, "ma_cross_up", n>> \in emitted' <=> k = "ma_cross_up"
          /\ <<s, "ma_cross_down", n>> \in emitted' <=> k = "ma_cross_down"
      BY <1>1, <1>12, <2>3, <3>1
    <3>3. ready <=> n > Slow
      <4>1. Len(old) <= l
        BY <1>6 DEF EndsAt
      <4> QED
        BY <1>4, <1>5, <1>6, <2>3, <4>1
    <3>4. ASSUME ready
          PROVE  SideOf(old) = SideIn(g, n - 1) /\ SideOf(win) = SideIn(g, n)
      <4>1. Slow <= Len(old) /\ Slow <= Len(win) /\ l <= Len(g) /\ l + 1 <= Len(g)
            /\ l + 1 \in Nat /\ n - 1 = l
        BY <1>4, <1>5, <1>6, <1>8, <2>3, <3>4
      <4>2. SideOf(old) = SideIn(g, l)
        BY <1>4, <1>7, <4>1, SideOfIs
      <4>3. SideOf(win) = SideIn(g, l + 1)
        BY <1>4, <1>8, <4>1, SideOfIs
      <4> QED
        BY <2>3, <4>1, <4>2, <4>3
    <3>5. ~(up /\ down)
      BY DEF up, down, CrossesUp, CrossesDown
    <3>6. (k = "ma_cross_up" <=> up) /\ (k = "ma_cross_down" <=> down)
      BY <1>2, <3>5 DEF Crosses
    <3>7. /\ up <=> n > Slow /\ CrossesUp(SideIn(g, n - 1), SideIn(g, n))
          /\ down <=> n > Slow /\ CrossesDown(SideIn(g, n - 1), SideIn(g, n))
      BY <3>3, <3>4 DEF up, down
    <3> QED
      BY <1>9, <2>3, <3>2, <3>6, <3>7 DEF CrossMatches
  <2>4. x = s => n \in 1 .. l \/ n = l + 1
    BY <1>4, <1>9
  <2> QED
    BY <2>1, <2>2, <2>3, <2>4
<1>19. JumpInv'
  <2> SUFFICES ASSUME NEW x \in Symbols, NEW n \in 1 .. Len(hist'[x]), Seen(x, n)'
               PROVE  JumpMatches(x, n)'
    BY DEF JumpInv
  <2>1. n \in 1 .. Len(hist[x])
    <3>1. CASE x # s
      BY <1>9, <3>1
    <3>2. CASE x = s
      <4>1. n < Len(hist'[s])
        BY <1>1, <3>2 DEF Seen, s
      <4> QED
        BY <1>4, <1>9, <3>2, <4>1 DEF l, h
    <3> QED
      BY <3>1, <3>2
  <2>2. JumpMatches(x, n)
    BY <1>1, <2>1 DEF BotInv, JumpInv, Seen
  <2>3. \A i \in 1 .. Len(hist[x]) : hist'[x][i] = hist[x][i]
    BY <1>4, <1>9 DEF l, h
  <2>4. n >= Window => n - Window + 1 \in 1 .. Len(hist[x])
    BY <1>14, <2>1, BotAssumption
  <2> QED
    BY <1>13, <2>1, <2>2, <2>3, <2>4 DEF JumpMatches
<1> QED
  BY <1>10, <1>15, <1>16, <1>17, <1>18, <1>19 DEF BotInv

\* PriceJumpDetector.feed, and its exception.
LEMMA FeedJumpsStep == ASSUME BotInv, FeedJumps PROVE BotInv'
<1> DEFINE s == ev[1]
           p == ev[2]
           h == hist[s]
           l == Len(h)
           d == l - 1
           old == jump_win[s]
           win == Push(old, p, Window)
           w == Len(win)
           full == w = Window
           kind == IF Moves(win[1], p) = "up" THEN "price_jump_up" ELSE "price_jump_down"
           jumps == full /\ Jump(win[1], p)
<1>1. /\ pc = "jump" /\ UNCHANGED <<ev, ma_win, hist>>
      /\ \/ jumps /\ jump_win' = [jump_win EXCEPT ![s] = <<>>] /\ Emit(kind, "listen")
         \/ /\ ~jumps
            /\ jump_win' = [jump_win EXCEPT ![s] = win]
            /\ EmitNone("listen")
         \/ full /\ pc' = "end" /\ UNCHANGED <<jump_win, next, emitted>>
  BY DEF FeedJumps, After
<1>2. /\ hist \in [Symbols -> Seq(Prices)] /\ ma_win \in [Symbols -> Seq(Prices)]
      /\ jump_win \in [Symbols -> Seq(Prices)]
      /\ s \in Symbols /\ next \in {"listen", "jump"}
  BY <1>1 DEF BotInv, TradesInv
<1>3. Pending(s) /\ l > 0 /\ h[l] = p
  BY <1>1, <1>2 DEF BotInv, TradesInv, Pending
<1>4. h \in Seq(Prices) /\ old \in Seq(Prices) /\ l \in Nat /\ d \in Nat /\ d + 1 = l
  BY <1>2, <1>3, LenProperties
<1>5. Window \in Nat \ {0}
  BY BotAssumption
<1>6. \A x \in Symbols : Dealt(x) = IF x = s THEN Len(hist[x]) - 1 ELSE Len(hist[x])
  BY <1>1 DEF Dealt, Pending
<1>7. WindowIs(s, old, d)
  BY <1>1, <1>2, <1>6 DEF BotInv, WindowInv
<1>8. /\ win \in Seq(Prices) /\ w = (IF Len(old) < Window THEN Len(old) + 1 ELSE Window)
      /\ EndsAt(win, h, l)
  <2>1. Len(old) <= Window /\ EndsAt(old, h, d) /\ d + 1 <= Len(h)
    BY <1>4, <1>7 DEF WindowIs
  <2>2. p = h[d + 1]
    BY <1>3, <1>4
  <2> HIDE DEF h, old, d, p
  <2>3. /\ Push(old, h[d + 1], Window) \in Seq(Prices)
        /\ Len(Push(old, h[d + 1], Window))
              = IF Len(old) < Window THEN Len(old) + 1 ELSE Window
        /\ EndsAt(Push(old, h[d + 1], Window), h, d + 1)
    BY <1>4, <1>5, <2>1, PushEndsAt
  <2> QED
    BY <1>4, <2>2, <2>3
<1> HIDE DEF s, p, h, l, d, old, win, w, kind
<1>9. w \in Nat /\ w > 0 /\ w <= Window /\ w <= l
  <2>1. w \in Nat
    BY <1>8, LenProperties DEF w
  <2>2. Len(old) \in Nat /\ Len(old) <= Window
    BY <1>4, <1>7, LenProperties DEF WindowIs
  <2>3. w <= l
    BY <1>8 DEF EndsAt, w
  <2> QED
    BY <1>5, <1>8, <2>1, <2>2, <2>3
<1>10. kind \in Jumps
  BY DEF kind, Jumps

\* What the reference says of this trade is what the detector finds.
<1>11. ~JumpAt(s, l)
  BY <1>1, <1>2, <1>4, <1>6 DEF BotInv, SignalsInv, d, l, h
<1>12. jumps <=>
          /\ l >= Window
          /\ \A m \in l - Window + 1 .. l - 1 : ~JumpAt(s, m)
          /\ Jump(h[l - Window + 1], h[l])
  <2>1. CASE full
    <3>1. win[1] = h[l - Window + 1]
      <4>1. 1 \in 1 .. Len(win) /\ l - Len(win) + 1 = l - Window + 1
        BY <1>4, <1>9, <2>1 DEF w
      <4> QED
        BY <1>8, <4>1 DEF EndsAt
    <3>2. \A m \in l - Window + 1 .. l - 1 : ~JumpAt(s, m)
      <4>1. Len(old) \in Nat /\ Len(old) >= Window - 1
        BY <1>4, <1>5, <1>8, <2>1, LenProperties
      <4>2. \A m \in l - Window + 1 .. l - 1 : m \in d - Len(old) + 1 .. d
        BY <1>4, <1>5, <4>1
      <4> QED
        BY <1>7, <4>2 DEF WindowIs
    <3>3. l >= Window
      BY <1>4, <1>5, <1>9, <2>1
    <3>4. jumps <=> Jump(h[l - Window + 1], h[l])
      BY <1>3, <2>1, <3>1
    <3> HIDE DEF jumps
    <3> QED
      BY <3>2, <3>3, <3>4
  <2>2. CASE ~full
    <3>1. Len(old) \in Nat /\ Len(old) < Window /\ w = Len(old) + 1 /\ w < Window
      BY <1>4, <1>5, <1>8, <1>9, <2>2, LenProperties
    <3>2. CASE Len(old) < d
      <4>1. JumpAt(s, d - Len(old))
        BY <1>7, <3>1, <3>2 DEF WindowIs
      <4>2. d - Len(old) \in l - Window + 1 .. l - 1
        BY <1>4, <1>5, <3>1, <3>2
      <4> QED
        BY <2>2, <4>1, <4>2
    <3>3. CASE Len(old) >= d
      <4>1. ~(l >= Window)
        BY <1>4, <1>5, <1>9, <3>1, <3>3
      <4> QED
        BY <2>2, <4>1
    <3> QED
      BY <1>4, <3>1, <3>2, <3>3
  <2> QED
    BY <2>1, <2>2

\* What the three ways have in common.
<1>13. AveragesInv'
  BY <1>1 DEF BotInv, AveragesInv
<1>14. ASSUME NEW x \in Symbols, NEW n \in 1 .. Len(hist[x]), Seen(x, n)
       PROVE  JumpMatches(x, n)
  BY <1>14 DEF BotInv, JumpInv
<1>15. \A x \in Symbols, n \in Int :
          n \in 1 .. Len(hist[x]) => Seen(x, n) \/ (x = s /\ n = l)
  <2>1. \A x \in Symbols : x # s => \A n : Seen(x, n)
    BY DEF Seen, s
  <2>2. \A n \in 1 .. l : n < l \/ n = l
    BY <1>4
  <2>3. \A n \in Int : n < l => Seen(s, n)
    BY DEF Seen, l, h
  <2> QED
    BY <2>1, <2>2, <2>3 DEF l, h
<1>16. ASSUME pc' = "listen" \/ (pc' = "cooldown" /\ next' = "listen")
       PROVE  /\ TradesInv' <=> jump_win' \in [Symbols -> Seq(Prices)] /\ next' \in {"listen", "jump"}
              /\ \A x \in Symbols : Dealt(x)' = Len(hist[x])
  <2>1. \A x \in Symbols : ~Pending(x)'
    BY <1>16 DEF Pending
  <2>2. ev' \in Symbols \X Prices
    BY <1>1 DEF BotInv, TradesInv
  <2>3. pc' \in {"listen", "ma", "jump", "cooldown", "send", "end"}
    BY <1>16
  <2>4. TradesInv' <=> jump_win' \in [Symbols -> Seq(Prices)] /\ next' \in {"listen", "jump"}
    BY <1>1, <1>2, <2>1, <2>2, <2>3 DEF TradesInv
  <2>5. \A x \in Symbols : Dealt(x)' = Len(hist[x])
    BY <1>1, <2>1 DEF Dealt
  <2> QED
    BY <2>4, <2>5

\* A jump: it is signalled and the window is emptied.
<1>17. CASE jumps /\ jump_win' = [jump_win EXCEPT ![s] = <<>>] /\ Emit(kind, "listen")
  <2>1. /\ pc' = "cooldown" /\ next' = "listen"
        /\ emitted' = emitted \cup {<<s, kind, l>>}
    BY <1>1, <1>17 DEF Emit, s, l, h
  <2>2. /\ jump_win'[s] = <<>> /\ jump_win' \in [Symbols -> Seq(Prices)]
        /\ \A x \in Symbols : x # s => jump_win'[x] = jump_win[x]
    BY <1>2, <1>17, EmptySeq
  <2>3. TradesInv' /\ \A x \in Symbols : Dealt(x)' = Len(hist[x])
    BY <1>16, <2>1, <2>2
  <2>4. \A x \in Symbols : \A n : JumpAt(x, n)' <=> JumpAt(x, n) \/ (x = s /\ n = l)
    BY <1>10, <2>1 DEF JumpAt
  <2>5. \A x \in Symbols, k \in Crosses : \A n :
            <<x, k, n>> \in emitted' <=> <<x, k, n>> \in emitted
    BY <1>10, <2>1 DEF Crosses, Jumps
  <2>6. SignalsInv'
    <3>1. ASSUME NEW x \in Symbols, NEW k \in Crosses \cup Jumps, NEW n \in Int,
                 <<x, k, n>> \in emitted'
          PROVE  n \in 1 .. Len(hist'[x])
      <4>1. CASE <<x, k, n>> \in emitted
        BY <1>1, <4>1 DEF BotInv, SignalsInv
      <4>2. CASE x = s /\ n = l
        BY <1>1, <1>3, <1>4, <4>2 DEF l, h
      <4> QED
        BY <2>1, <3>1, <4>1, <4>2
    <3>2. ASSUME NEW x \in Symbols, NEW n \in Int, JumpAt(x, n)'
          PROVE  n <= Dealt(x)'
      <4>1. CASE JumpAt(x, n)
        <5>1. \E k \in Crosses \cup Jumps : <<x, k, n>> \in emitted
          BY <4>1 DEF JumpAt
        <5>2. n \in 1 .. Len(hist[x])
          BY <5>1 DEF BotInv, SignalsInv
        <5> QED
          BY <2>3, <5>2
      <4>2. CASE x = s /\ n = l
        BY <1>4, <2>3, <4>2 DEF l, h
      <4> QED
        BY <2>4, <3>2, <4>1, <4>2
    <3> QED
      BY <3>1, <3>2 DEF SignalsInv
  <2>7. WindowInv'
    <3> SUFFICES ASSUME NEW x \in Symbols
                 PROVE  WindowIs(x, jump_win[x], Dealt(x))'
      BY DEF WindowInv
    <3>1. CASE x = s
      <4>1. Len(<<>>) = 0 /\ \A i \in 1 .. 0 : FALSE
        BY EmptySeq
      <4>2. jump_win'[x] = <<>> /\ Dealt(x)' = l
        BY <2>2, <2>3, <3>1 DEF l, h
      <4>3. /\ \A n : n = l => JumpAt(x, n)'
            /\ l - 0 = l /\ l \in Nat /\ 0 <= l /\ 0 <= Window
            /\ \A m \in l - 0 + 1 .. l : FALSE
        <5>1. \A n : n = l => JumpAt(x, n)'
          BY <2>4, <3>1
        <5>2. /\ l - 0 = l /\ l \in Nat /\ 0 <= l /\ 0 <= Window
              /\ \A m \in l - 0 + 1 .. l : FALSE
          BY <1>4, <1>5
        <5> QED
          BY <5>1, <5>2
      <4>4. EndsAt(<<>>, hist'[x], l)
        BY <4>1, <4>3 DEF EndsAt
      <4> QED
        BY <4>1, <4>2, <4>3, <4>4 DEF WindowIs
    <3>2. CASE x # s
      <4>1. WindowIs(x, jump_win[x], Len(hist[x]))
        BY <1>1, <1>6, <3>2 DEF BotInv, WindowInv
      <4> QED
        BY <1>1, <2>2, <2>3, <2>4, <3>2, <4>1 DEF WindowIs
    <3> QED
      BY <3>1, <3>2
  <2>8. CrossInv'
    <3>1. "ma_cross_up" \in Crosses /\ "ma_cross_down" \in Crosses
      BY DEF Crosses
    <3> QED
      BY <1>1, <2>5, <3>1 DEF BotInv, CrossInv, CrossMatches
  <2>9. JumpInv'
    <3> SUFFICES ASSUME NEW x \in Symbols, NEW n \in 1 .. Len(hist[x])
                 PROVE  JumpMatches(x, n)'
      BY <1>1 DEF JumpInv
    <3>1. CASE x = s /\ n = l
      <4>1. JumpAt(x, n)'
        BY <2>4, <3>1
      <4>2. n >= Window /\ Jump(hist'[x][n - Window + 1], hist'[x][n])
        BY <1>1, <1>12, <1>17, <3>1 DEF h
      <4>3. \A m \in n - Window + 1 .. n - 1 : ~JumpAt(x, m) /\ m # l
        BY <1>4, <1>5, <1>12, <1>17, <3>1
      <4>4. \A m \in n - Window + 1 .. n - 1 : ~JumpAt(x, m)'
        BY <2>4, <4>3
      <4> QED
        BY <4>1, <4>2, <4>4 DEF JumpMatches
    <3>2. CASE ~(x = s /\ n = l)
      <4>1. n \in Int /\ Seen(x, n)
        BY <1>15, <3>2
      <4>2. JumpMatches(x, n)
        BY <1>14, <4>1
      <4>3. x = s => n < l
        BY <1>4, <3>2 DEF l, h
      <4>4. \A m \in n - Window + 1 .. n - 1 : ~(x = s /\ m = l)
        BY <1>4, <1>5, <4>1, <4>3
      <4> QED
        BY <1>1, <2>4, <3>2, <4>2, <4>4 DEF JumpMatches
    <3> QED
      BY <3>1, <3>2
  <2> QED
    BY <1>13, <2>3, <2>6, <2>7, <2>8, <2>9 DEF BotInv

\* No jump: the window goes on.
<1>18. CASE /\ ~jumps
            /\ jump_win' = [jump_win EXCEPT ![s] = win]
            /\ EmitNone("listen")
  <2>1. pc' = "listen" /\ next' = next /\ emitted' = emitted
    BY <1>18 DEF EmitNone
  <2>2. /\ jump_win'[s] = win /\ jump_win' \in [Symbols -> Seq(Prices)]
        /\ \A x \in Symbols : x # s => jump_win'[x] = jump_win[x]
    BY <1>2, <1>8, <1>18
  <2>3. TradesInv' /\ \A x \in Symbols : Dealt(x)' = Len(hist[x])
    BY <1>2, <1>16, <2>1, <2>2
  <2>4. \A x, n : JumpAt(x, n)' <=> JumpAt(x, n)
    BY <2>1 DEF JumpAt
  <2>5. SignalsInv'
    <3>1. ASSUME NEW x \in Symbols, NEW n \in Int, JumpAt(x, n)
          PROVE  n <= Dealt(x)'
      <4>1. \E k \in Crosses \cup Jumps : <<x, k, n>> \in emitted
        BY <3>1 DEF JumpAt
      <4>2. n \in 1 .. Len(hist[x])
        BY <4>1 DEF BotInv, SignalsInv
      <4> QED
        BY <2>3, <4>2
    <3> QED
      BY <1>1, <2>1, <2>4, <3>1 DEF BotInv, SignalsInv
  <2>6. WindowInv'
    <3> SUFFICES ASSUME NEW x \in Symbols
                 PROVE  WindowIs(x, jump_win[x], Dealt(x))'
      BY DEF WindowInv
    <3>1. CASE x = s
      <4>1. jump_win'[x] = win /\ Dealt(x)' = l /\ Len(win) = w
        BY <2>2, <2>3, <3>1 DEF l, h, w
      <4>2. Len(old) \in Nat
        BY <1>4, LenProperties
      <4>3. \A m \in l - w + 1 .. l : ~JumpAt(s, m)
        <5>1. \A m \in l - w + 1 .. l : m = l \/ m \in d - Len(old) + 1 .. d
          BY <1>4, <1>5, <1>7, <1>8, <4>2 DEF WindowIs
        <5> QED
          BY <1>7, <1>11, <5>1 DEF WindowIs
      <4>4. ASSUME w < Window, w < l PROVE JumpAt(s, l - w)
        <5>1. Len(old) < Window /\ w = Len(old) + 1
          BY <1>5, <1>8, <4>2, <4>4
        <5>2. Len(old) < d /\ l - w = d - Len(old)
          BY <1>4, <4>2, <4>4, <5>1
        <5> QED
          BY <1>7, <5>1, <5>2 DEF WindowIs
      <4>5. w <= Window /\ EndsAt(win, hist'[x], l)
        BY <1>1, <1>8, <1>9, <3>1 DEF h
      <4> HIDE DEF full, jumps
      <4> QED
        BY <2>4, <3>1, <4>1, <4>3, <4>4, <4>5 DEF WindowIs
    <3>2. CASE x # s
      <4>1. WindowIs(x, jump_win[x], Len(hist[x]))
        BY <1>1, <1>6, <3>2 DEF BotInv, WindowInv
      <4> QED
        BY <1>1, <2>2, <2>3, <2>4, <3>2, <4>1 DEF WindowIs
    <3> QED
      BY <3>1, <3>2
  <2>7. CrossInv'
    BY <1>1, <2>1 DEF BotInv, CrossInv, CrossMatches
  <2>8. JumpInv'
    <3> SUFFICES ASSUME NEW x \in Symbols, NEW n \in 1 .. Len(hist[x])
                 PROVE  JumpMatches(x, n)
      BY <1>1, <2>4 DEF JumpInv, JumpMatches
    <3>1. CASE x = s /\ n = l
      BY <1>11, <1>12, <1>18, <3>1 DEF JumpMatches, h
    <3>2. CASE ~(x = s /\ n = l)
      BY <1>14, <1>15, <3>2
    <3> QED
      BY <3>1, <3>2
  <2> QED
    BY <1>13, <2>3, <2>5, <2>6, <2>7, <2>8 DEF BotInv

\* The exception: the trade is never dealt with.
<1>19. CASE full /\ pc' = "end" /\ UNCHANGED <<jump_win, next, emitted>>
  <2>1. TradesInv'
    <3>1. \A x \in Symbols : ~Pending(x)'
      BY <1>19 DEF Pending
    <3> QED
      BY <1>1, <1>2, <1>19, <3>1 DEF TradesInv
  <2>2. \A x, n : JumpAt(x, n)' <=> JumpAt(x, n)
    BY <1>19 DEF JumpAt
  <2>3. SignalsInv' /\ WindowInv' /\ CrossInv'
    BY <1>1, <1>19 DEF BotInv, SignalsInv, WindowInv, CrossInv, CrossMatches
  <2>4. \A x \in Symbols, n \in Int : Seen(x, n)' => Seen(x, n)
    BY <1>1, <1>19 DEF Seen
  <2>5. JumpInv'
    BY <1>1, <2>2, <2>4 DEF BotInv, JumpInv, JumpMatches
  <2> QED
    BY <1>13, <2>1, <2>3, <2>5 DEF BotInv
<1> QED
  BY <1>1, <1>17, <1>18, <1>19

\* Every step keeps the invariant.
LEMMA BotStep == BotInv /\ [Next]_vars => BotInv'
BY LoopSteps, FeedAveragesStep, FeedJumpsStep DEF Next

(* Whatever the prices, the lengths and the threshold, and however the trades
   of the symbols are mixed: the detectors signal what the definition over all
   prices of a symbol says, at that trade, and nothing else. *)
THEOREM SignalsAreReference == Spec => []SignalsMatchReference
BY BotInit, BotStep, BotInvMatches, PTL DEF Spec

-----------------------------------------------------------------------------
(* Types.                                                                   *)

\* The deques, by the invariant or because the program has ended.
LEMMA DequesAreBounded ==
    ASSUME BotInv', TypeOK, [Next]_vars, NEW s \in Symbols
    PROVE  Len(ma_win'[s]) <= Slow + 2 /\ Len(jump_win'[s]) <= Window
<1>1. Len(ma_win'[s]) <= Slow + 2
  BY DEF BotInv, AveragesInv, Keep
<1>2. CASE pc' # "end"
  <2>1. WindowIs(s, jump_win[s], Dealt(s))'
    BY <1>2 DEF BotInv, WindowInv
  <2> QED
    BY <1>1, <2>1 DEF WindowIs
<1>3. CASE pc' = "end"
  <2>1. jump_win' = jump_win
    BY <1>3 DEF Next, vars, winVars, Tick, handle_sig, stream_trades, stream_raises,
                Break, FeedAverages, FeedJumps, Emit, EmitNone, Suppress, Try, send
  <2> QED
    BY <1>1, <2>1 DEF TypeOK
<1> QED
  BY <1>2, <1>3

\* The clock, the cooldowns and the signal in work.
LEMMA TypeStep == BotInv /\ BotInv' /\ TypeOK /\ [Next]_vars => TypeOK'
<1> SUFFICES ASSUME BotInv, BotInv', TypeOK, [Next]_vars PROVE TypeOK'
  OBVIOUS
<1>1. \A s \in Symbols : Len(ma_win'[s]) <= Slow + 2 /\ Len(jump_win'[s]) <= Window
  BY DequesAreBounded
<1>2. pc' \in {"listen", "ma", "jump", "cooldown", "send", "end"}
  BY DEF BotInv, TradesInv
<1>3. stop' \in BOOLEAN
  BY DEF TypeOK, Next, vars, Tick, handle_sig, stream_trades, stream_raises, Break,
         FeedAverages, FeedJumps, Suppress, Try, send
<1>4. now' \in 0 .. MaxTime
  <2>1. MaxTime \in Nat /\ now \in 0 .. MaxTime
    BY BotAssumption DEF TypeOK
  <2>2. now' = now \/ (now < MaxTime /\ now' = now + 1)
    BY DEF Next, vars, Tick, handle_sig, stream_trades, stream_raises, Break,
           FeedAverages, FeedJumps, Suppress, Try, send
  <2> QED
    BY <2>1, <2>2
<1>5. last_sent' \in [Keys -> 0 .. MaxTime]
  <2>1. last_sent' = last_sent \/ last_sent' = [last_sent EXCEPT ![sig] = now]
    BY DEF Next, vars, Tick, handle_sig, stream_trades, stream_raises, Break,
           FeedAverages, FeedJumps, Suppress, Try, send
  <2> QED
    BY <2>1 DEF TypeOK
<1>6. pc' \in {"cooldown", "send"} => sig' \in Keys
  <2>1. CASE sig' = sig /\ pc \in {"cooldown", "send"}
    BY <2>1 DEF TypeOK
  <2>2. ASSUME NEW kind \in Crosses \cup Jumps, NEW then, Emit(kind, then),
               pc \in {"ma", "jump"}
        PROVE  sig' \in Keys
    <3>1. ev[1] \in Symbols
      BY <2>2 DEF BotInv, TradesInv
    <3> QED
      BY <2>2, <3>1 DEF Emit, Keys
  <2>3. CASE FeedAverages
    <3>1. "ma_cross_up" \in Crosses \cup Jumps /\ "ma_cross_down" \in Crosses \cup Jumps
      BY DEF Crosses
    <3>2. \/ Emit("ma_cross_up", "jump") \/ Emit("ma_cross_down", "jump")
          \/ pc' = "jump"
      BY <2>3 DEF FeedAverages, EmitNone
    <3>3. pc = "ma"
      BY <2>3 DEF FeedAverages
    <3> QED
      BY <2>2, <3>1, <3>2, <3>3
  <2>4. CASE FeedJumps
    <3>1. pc = "jump"
      BY <2>4 DEF FeedJumps
    <3>2. \/ \E kind \in Crosses \cup Jumps : Emit(kind, "listen")
          \/ pc' \in {"listen", "end"}
      BY <2>4 DEF FeedJumps, EmitNone, Jumps
    <3> QED
      BY <2>2, <3>1, <3>2
  <2>5. CASE Tick \/ handle_sig \/ UNCHANGED vars
    BY <2>5 DEF TypeOK, Tick, handle_sig, vars
  <2>6. CASE Suppress \/ Try \/ send
    BY <2>1, <2>6 DEF Suppress, Try, send
  <2>7. CASE Break \/ stream_raises \/ \E s \in Symbols, p \in Prices : stream_trades(s, p)
    BY <2>7 DEF Break, stream_raises, stream_trades
  <2> QED
    BY <2>3, <2>4, <2>5, <2>6, <2>7 DEF Next
<1> QED
  BY <1>1, <1>2, <1>3, <1>4, <1>5, <1>6 DEF TypeOK

(* Every reachable state of the bot is well typed: its deques never hold more
   than their maxlen, and only a signal that exists is sent. *)
THEOREM BotIsTypeCorrect == Spec => []TypeOK
<1>1. Init => TypeOK
  <2> SUFFICES ASSUME Init PROVE TypeOK
    OBVIOUS
  <2>1. Len(<<>>) = 0 /\ Slow \in Nat /\ Window \in Nat
    BY EmptySeq, BotAssumption
  <2>2. \A s \in Symbols : ma_win[s] = <<>> /\ jump_win[s] = <<>>
    BY DEF Init
  <2>3. 0 \in 0 .. MaxTime /\ cooldown_sec \in 0 .. MaxTime
    BY BotAssumption
  <2>4. last_sent \in [Keys -> 0 .. MaxTime]
    BY <2>3 DEF Init
  <2>5. \A s \in Symbols : Len(ma_win[s]) <= Slow + 2 /\ Len(jump_win[s]) <= Window
    BY <2>1, <2>2
  <2> QED
    BY <2>3, <2>4, <2>5 DEF Init, TypeOK
<1> QED
  BY BotInit, BotStep, TypeStep, <1>1, PTL DEF Spec

-----------------------------------------------------------------------------
(* NewsPipeline.  Totals, and what the entries of a vector weigh. *)

\* What the fold of Total computes.
TotalIter(seq) ==
    CHOOSE g : g = [s \in SUBSET DOMAIN seq |->
                        IF s = {} THEN 0 ELSE g[s \ {Max(s)}] + seq[Max(s)]]

\* Sums along a sequence of numbers.
LEMMA TotalIs ==
    ASSUME NEW n \in Nat, NEW seq, DOMAIN seq = 1 .. n, \A i \in 1 .. n : seq[i] \in Int
    PROVE  \E p \in [0 .. n -> Int] :
              /\ p[0] = 0
              /\ \A k \in 1 .. n : p[k] = p[k - 1] + seq[k]
              /\ Total(seq) = p[n]
<1> DEFINE op == [x \in Int \X (1 .. n) |-> x[1] + seq[x[2]]]
           it == TotalIter(seq)
           Step(g) == [s \in SUBSET (1 .. n) |->
                          IF s = {} THEN 0 ELSE g[s \ {Max(s)}] + seq[Max(s)]]
<1>1. Total(seq) = it[1 .. n]
  BY DEF Total, FoldLeft, MapThenFoldSet, TotalIter
<1>2. op \in [Int \X (1 .. n) -> Int] /\ \A v \in Int, k \in 1 .. n : op[<<v, k>>] = v + seq[k]
  OBVIOUS
<1> HIDE DEF op
<1>3. PICK h : IsLeftFold(h, 0, op, Int, n)
  <2>1. PICK V, zero, o : V = Int /\ zero = 0 /\ o = op
    OBVIOUS
  <2>2. zero \in V /\ o \in [V \X (1 .. n) -> V]
    BY <1>2, <2>1
  <2>3. \E h : IsLeftFold(h, zero, o, V, n)
    BY <2>2, LeftFold
  <2> QED
    BY <2>1, <2>3
<1> h \in [SUBSET (1 .. n) -> Int]
  BY <1>3 DEF IsLeftFold
<1>4. \E g : g = Step(g)
  <2>1. ASSUME NEW s \in SUBSET (1 .. n), s # {}
        PROVE  h[s] = h[s \ {Max(s)}] + seq[Max(s)]
    <3>1. Max(s) \in 1 .. n /\ s \ {Max(s)} \in SUBSET (1 .. n)
      BY <1>3, <2>1 DEF IsLeftFold
    <3>2. h[s \ {Max(s)}] \in Int
      BY <3>1
    <3> QED
      BY <1>2, <1>3, <2>1, <3>1, <3>2 DEF IsLeftFold
  <2>2. h = Step(h)
    BY <1>3, <2>1 DEF IsLeftFold
  <2> QED
    BY <2>2
<1>5. it = Step(it)
  BY <1>4 DEF TotalIter
<1> HIDE DEF it
<1>6. it[1 .. n] = h[1 .. n]
  <2>1. it[{}] = 0
    BY <1>5
  <2>2. ASSUME NEW s \in SUBSET (1 .. n), s # {}, it[s \ {Max(s)}] \in Int
        PROVE  it[s] = op[<<it[s \ {Max(s)}], Max(s)>>]
    <3>1. Max(s) \in 1 .. n
      BY <1>3, <2>2 DEF IsLeftFold
    <3>2. it[s] = it[s \ {Max(s)}] + seq[Max(s)]
      BY <1>5, <2>2
    <3> QED
      BY <1>2, <2>2, <3>1, <3>2
  <2> QED
    BY <1>3, <2>1, <2>2 DEF IsLeftFold
<1>7. PICK p \in [0 .. n -> Int] : p[n] = h[1 .. n] /\ AlongFold(p, 0, op, n)
  BY <1>3 DEF IsLeftFold
<1>8. ASSUME NEW k \in 1 .. n PROVE p[k] = p[k - 1] + seq[k]
  <2>1. p[k - 1] \in Int
    OBVIOUS
  <2> QED
    BY <1>2, <1>7, <2>1 DEF AlongFold
<1> QED
  BY <1>1, <1>6, <1>7, <1>8 DEF AlongFold

\* A function of n arguments that are numbers.
Numbers(seq, n) == DOMAIN seq = 1 .. n /\ \A i \in 1 .. n : seq[i] \in Int

\* A total of numbers is a number.
LEMMA TotalIsInt ==
    ASSUME NEW n \in Nat, NEW seq, Numbers(seq, n)
    PROVE  Total(seq) \in Int
<1>1. PICK p \in [0 .. n -> Int] : Total(seq) = p[n]
  BY TotalIs DEF Numbers
<1> QED
  BY <1>1

\* b are the n elements of a, and behind them nothing but c.
Extends(b, m, a, n, c) ==
    /\ \A i \in 1 .. n : b[i] = a[i]
    /\ \A i \in n + 1 .. m : b[i] = c

\* More numbers, all of them c, add as many times c.
LEMMA TotalExtends ==
    ASSUME NEW n \in Nat, NEW m \in Nat, n <= m, NEW c \in Int,
           NEW a, NEW b, Numbers(a, n), Numbers(b, m), Extends(b, m, a, n, c)
    PROVE  Total(b) = Total(a) + (m - n) * c
<1>1. PICK p \in [0 .. n -> Int] :
         p[0] = 0 /\ (\A k \in 1 .. n : p[k] = p[k - 1] + a[k]) /\ Total(a) = p[n]
  BY TotalIs DEF Numbers
<1>2. PICK q \in [0 .. m -> Int] :
         q[0] = 0 /\ (\A k \in 1 .. m : q[k] = q[k - 1] + b[k]) /\ Total(b) = q[m]
  BY TotalIs DEF Numbers
<1> DEFINE S == {k \in 0 .. n : q[k] = p[k]}
<1>3. \A k \in 0 .. n : k \in S
  <2>1. 0 \in S
    BY <1>1, <1>2
  <2>2. ASSUME NEW k \in 0 .. n - 1, k \in S PROVE k + 1 \in S
    <3>1. k + 1 \in 1 .. n /\ k + 1 \in 1 .. m /\ (k + 1) - 1 = k
      OBVIOUS
    <3>2. p[k + 1] = p[k] + a[k + 1] /\ q[k + 1] = q[k] + b[k + 1]
      BY <1>1, <1>2, <3>1
    <3>3. b[k + 1] = a[k + 1]
      BY <3>1 DEF Extends
    <3> QED
      BY <2>2, <3>1, <3>2, <3>3
  <2> HIDE DEF S
  <2> QED
    BY <2>1, <2>2, CountUp
<1> DEFINE T == {k \in 0 .. m - n : q[n + k] = p[n] + k * c}
<1>4. \A k \in 0 .. m - n : k \in T
  <2>1. 0 \in T
    BY <1>3
  <2>2. ASSUME NEW k \in 0 .. m - n - 1, k \in T PROVE k + 1 \in T
    <3>1. n + (k + 1) \in n + 1 .. m /\ n + (k + 1) \in 1 .. m /\ n + (k + 1) - 1 = n + k
      OBVIOUS
    <3>2. q[n + (k + 1)] = q[n + k] + c
      <4>1. PICK j \in n + 1 .. m : j = n + (k + 1)
        BY <3>1
      <4>2. q[j] = q[j - 1] + b[j] /\ b[j] = c
        <5>1. j \in 1 .. m
          OBVIOUS
        <5> QED
          BY <1>2, <5>1 DEF Extends
      <4> QED
        BY <3>1, <4>1, <4>2
    <3>3. p[n] \in Int /\ p[n] + k * c + c = p[n] + (k + 1) * c
      OBVIOUS
    <3> QED
      BY <2>2, <3>2, <3>3
  <2>3. m - n \in Nat
    OBVIOUS
  <2> HIDE DEF T
  <2> QED
    BY <2>1, <2>2, <2>3, CountUp
<1>5. q[n + (m - n)] = p[n] + (m - n) * c
  <2>1. m - n \in 0 .. m - n
    OBVIOUS
  <2>2. m - n \in T
    BY <1>4, <2>1
  <2> QED
    BY <2>2
<1>6. n + (m - n) = m
  OBVIOUS
<1> QED
  BY <1>1, <1>2, <1>5, <1>6

\* The total of larger numbers is no smaller.
LEMMA TotalIsMonotone ==
    ASSUME NEW n \in Nat, NEW a, NEW b, Numbers(a, n), Numbers(b, n),
           \A i \in 1 .. n : a[i] <= b[i]
    PROVE  Total(a) <= Total(b)
<1>1. PICK p \in [0 .. n -> Int] :
         p[0] = 0 /\ (\A k \in 1 .. n : p[k] = p[k - 1] + a[k]) /\ Total(a) = p[n]
  BY TotalIs DEF Numbers
<1>2. PICK q \in [0 .. n -> Int] :
         q[0] = 0 /\ (\A k \in 1 .. n : q[k] = q[k - 1] + b[k]) /\ Total(b) = q[n]
  BY TotalIs DEF Numbers
<1> DEFINE S == {k \in 0 .. n : p[k] <= q[k]}
<1>3. \A k \in 0 .. n : k \in S
  <2>1. 0 \in S
    BY <1>1, <1>2
  <2>2. ASSUME NEW k \in 0 .. n - 1, k \in S PROVE k + 1 \in S
    <3>1. k + 1 \in 1 .. n /\ (k + 1) - 1 = k
      OBVIOUS
    <3>2. p[k + 1] = p[k] + a[k + 1] /\ q[k + 1] = q[k] + b[k + 1] /\ a[k + 1] <= b[k + 1]
      BY <1>1, <1>2, <3>1
    <3>3. a[k + 1] \in Int /\ b[k + 1] \in Int /\ p[k] \in Int /\ q[k] \in Int
      BY <3>1 DEF Numbers
    <3>4. p[k] <= q[k]
      BY <2>2
    <3>5. p[k + 1] <= q[k + 1]
      BY <3>2, <3>3, <3>4
    <3> QED
      BY <3>1, <3>5
  <2> HIDE DEF S
  <2> QED
    BY <2>1, <2>2, CountUp
<1> QED
  BY <1>1, <1>2, <1>3

\* What the entries of a vector weigh, by a function of the entries.
Weight(vec, w) == Total([i \in DOMAIN vec |-> w[vec[i]]])

\* A vector weighs a number, an empty one nothing.
LEMMA WeightIs ==
    ASSUME NEW E, NEW w \in [E -> Int], NEW vec \in Seq(E)
    PROVE  /\ Numbers([i \in DOMAIN vec |-> w[vec[i]]], Len(vec))
           /\ Weight(vec, w) \in Int
           /\ vec = <<>> => Weight(vec, w) = 0
<1>1. Len(vec) \in Nat /\ DOMAIN vec = 1 .. Len(vec) /\ \A i \in 1 .. Len(vec) : vec[i] \in E
  BY LenProperties, ElementOfSeq
<1>2. Numbers([i \in DOMAIN vec |-> w[vec[i]]], Len(vec))
  BY <1>1 DEF Numbers
<1>3. Weight(vec, w) \in Int
  BY <1>1, <1>2, TotalIsInt DEF Weight
<1>4. ASSUME vec = <<>> PROVE Weight(vec, w) = 0
  <2> DEFINE f == [i \in DOMAIN vec |-> w[vec[i]]]
  <2>1. DOMAIN f = 1 .. 0 /\ \A i \in 1 .. 0 : f[i] \in Int
    BY <1>1, <1>4
  <2>2. Total(f) = 0
    <3> HIDE DEF f
    <3>1. PICK p \in [0 .. 0 -> Int] : p[0] = 0 /\ Total(f) = p[0]
      BY <2>1, TotalIs
    <3> QED
      BY <3>1
  <2> QED
    BY <2>2 DEF Weight
<1> QED
  BY <1>2, <1>3, <1>4

\* more is n times e.
Repeats(more, e, n, E) == more \in Seq(E) /\ Len(more) = n /\ \A i \in 1 .. n : more[i] = e

\* Entries that are all the same add as many times the weight of one.
LEMMA WeightOfMore ==
    ASSUME NEW E, NEW w \in [E -> Int], NEW vec \in Seq(E), NEW e \in E, NEW n \in Nat,
           NEW more, Repeats(more, e, n, E)
    PROVE  /\ vec \o more \in Seq(E)
           /\ Len(vec \o more) = Len(vec) + n
           /\ Weight(vec \o more, w) = Weight(vec, w) + n * w[e]
<1> USE DEF Repeats
<1> DEFINE v == vec \o more
           a == [i \in DOMAIN vec |-> w[vec[i]]]
           b == [i \in DOMAIN v |-> w[v[i]]]
<1>1. /\ v \in Seq(E) /\ Len(v) = Len(vec) + n
      /\ \A i \in 1 .. Len(vec) : v[i] = vec[i]
      /\ \A i \in Len(vec) + 1 .. Len(v) : v[i] = e
      /\ Len(vec) \in Nat
  <2>1. v \in Seq(E) /\ Len(v) = Len(vec) + n /\ Len(vec) \in Nat
    BY ConcatProperties, LenProperties
  <2>2. \A i \in 1 .. Len(vec) : v[i] = vec[i]
    BY <2>1, ConcatProperties
  <2>3. ASSUME NEW i \in Len(vec) + 1 .. Len(v) PROVE v[i] = e
    <3>1. i \in 1 .. Len(vec) + Len(more) /\ ~ (i <= Len(vec))
      BY <2>1
    <3>2. v[i] = more[i - Len(vec)]
      BY <3>1, ConcatProperties
    <3>3. i - Len(vec) \in 1 .. n
      BY <2>1
    <3> QED
      BY <3>2, <3>3
  <2> QED
    BY <2>1, <2>2, <2>3
<1> HIDE DEF v
<1>2. Numbers(a, Len(vec)) /\ Numbers(b, Len(v))
  BY <1>1, WeightIs
<1>3. /\ \A i \in 1 .. Len(vec) : b[i] = a[i]
      /\ \A i \in Len(vec) + 1 .. Len(v) : b[i] = w[e]
  <2>1. DOMAIN v = 1 .. Len(v) /\ DOMAIN vec = 1 .. Len(vec)
    BY <1>1, LenProperties
  <2>2. ASSUME NEW i \in 1 .. Len(vec) PROVE b[i] = a[i]
    <3>1. i \in 1 .. Len(v)
      BY <1>1
    <3> QED
      BY <1>1, <2>1, <3>1
  <2>3. ASSUME NEW i \in Len(vec) + 1 .. Len(v) PROVE b[i] = w[e]
    <3>1. i \in 1 .. Len(v)
      BY <1>1
    <3> QED
      BY <1>1, <2>1, <3>1
  <2> QED
    BY <2>2, <2>3
<1> HIDE DEF a, b
<1>4. Total(b) = Total(a) + (Len(v) - Len(vec)) * w[e]
  <2>1. w[e] \in Int /\ Len(vec) <= Len(v) /\ Len(v) \in Nat
    BY <1>1
  <2>2. PICK x, y, c : x = Len(vec) /\ y = Len(v) /\ c = w[e]
    OBVIOUS
  <2>3. x \in Nat /\ y \in Nat /\ x <= y /\ c \in Int
    BY <1>1, <2>1, <2>2
  <2>4. Numbers(a, x) /\ Numbers(b, y)
    BY <1>2, <2>2
  <2>5. Extends(b, y, a, x, c)
    BY <1>3, <2>2 DEF Extends
  <2>6. Total(b) = Total(a) + (y - x) * c
    BY <2>3, <2>4, <2>5, TotalExtends
  <2> QED
    BY <2>2, <2>6
<1>5. Len(v) - Len(vec) = n
  BY <1>1
<1> QED
  BY <1>1, <1>4, <1>5 DEF Weight, a, b, v

-----------------------------------------------------------------------------
(* The folds of the model, step by step. *)

\* vec has n elements, all of them in E.
Elements(vec, n, E) == DOMAIN vec = 1 .. n /\ \A k \in 1 .. n : vec[k] \in E

\* One step of vec.erase(remove_if): an entry is kept unless it is too old.
KeepOne(kept, e) == IF clock - e.ts > Cutoff THEN kept ELSE Append(kept, e)

\* What the fold of Kept computes.
KeptIter(vec) ==
    CHOOSE g : g = [s \in SUBSET DOMAIN vec |->
                        IF s = {} THEN <<>> ELSE KeepOne(g[s \ {Max(s)}], vec[Max(s)])]

\* What score() keeps, entry by entry.
KeptRun(p, vec, n, E) ==
    /\ p \in [0 .. n -> Seq(E)]
    /\ p[0] = <<>>
    /\ \A k \in 1 .. n : p[k] = KeepOne(p[k - 1], vec[k])
    /\ Kept(vec) = p[n]

\* The fold of Kept drops or keeps one entry after the other.
LEMMA KeptIs ==
    ASSUME NEW E, NEW vec, NEW n \in Nat, Elements(vec, n, E)
    PROVE  \E p : KeptRun(p, vec, n, E)
<1> DEFINE W == Seq(E)
           step(v, k) == KeepOne(v, vec[k])
           op == [x \in W \X (1 .. n) |-> step(x[1], x[2])]
           it == KeptIter(vec)
           Step(g) == [s \in SUBSET (1 .. n) |->
                          IF s = {} THEN <<>> ELSE KeepOne(g[s \ {Max(s)}], vec[Max(s)])]
<1>1. Kept(vec) = it[1 .. n]
  BY DEF Kept, KeepOne, FoldLeft, MapThenFoldSet, KeptIter, Elements
<1>2. /\ op \in [W \X (1 .. n) -> W] /\ <<>> \in W
      /\ \A v \in W, k \in 1 .. n : op[<<v, k>>] = KeepOne(v, vec[k])
  <2>1. ASSUME NEW v \in W, NEW k \in 1 .. n PROVE step(v, k) \in W
    BY AppendProperties DEF KeepOne, Elements
  <2>2. <<>> \in W
    OBVIOUS
  <2>3. op \in [W \X (1 .. n) -> W] /\ \A v \in W, k \in 1 .. n : op[<<v, k>>] = step(v, k)
    <3> HIDE DEF W, step
    <3> QED
      BY <2>1
  <2> HIDE DEF W, op
  <2> QED
    BY <2>2, <2>3
<1> HIDE DEF op, W
<1>3. PICK h : IsLeftFold(h, <<>>, op, W, n)
  <2>1. PICK b, o : b = <<>> /\ o = op
    OBVIOUS
  <2>2. b \in W /\ o \in [W \X (1 .. n) -> W]
    BY <1>2, <2>1
  <2>3. \E h : IsLeftFold(h, b, o, W, n)
    BY <2>2, LeftFold
  <2> QED
    BY <2>1, <2>3
<1> h \in [SUBSET (1 .. n) -> W]
  BY <1>3 DEF IsLeftFold
<1>4. \E g : g = Step(g)
  <2>1. ASSUME NEW s \in SUBSET (1 .. n), s # {}
        PROVE  h[s] = KeepOne(h[s \ {Max(s)}], vec[Max(s)])
    <3>1. Max(s) \in 1 .. n /\ s \ {Max(s)} \in SUBSET (1 .. n)
      BY <1>3, <2>1 DEF IsLeftFold
    <3>2. h[s \ {Max(s)}] \in W
      BY <3>1
    <3> QED
      BY <1>2, <1>3, <2>1, <3>1, <3>2 DEF IsLeftFold
  <2>2. h = Step(h)
    BY <1>3, <2>1 DEF IsLeftFold
  <2> QED
    BY <2>2
<1>5. it = Step(it)
  BY <1>4 DEF KeptIter, Elements
<1> HIDE DEF it
<1>6. it[1 .. n] = h[1 .. n]
  <2>1. it[{}] = <<>>
    BY <1>5
  <2>2. ASSUME NEW s \in SUBSET (1 .. n), s # {}, it[s \ {Max(s)}] \in W
        PROVE  it[s] = op[<<it[s \ {Max(s)}], Max(s)>>]
    <3>1. Max(s) \in 1 .. n
      BY <1>3, <2>2 DEF IsLeftFold
    <3>2. it[s] = KeepOne(it[s \ {Max(s)}], vec[Max(s)])
      BY <1>5, <2>2
    <3> QED
      BY <1>2, <2>2, <3>1, <3>2
  <2> QED
    BY <1>3, <2>1, <2>2 DEF IsLeftFold
<1>7. PICK p \in [0 .. n -> W] : p[n] = h[1 .. n] /\ AlongFold(p, <<>>, op, n)
  BY <1>3 DEF IsLeftFold
<1>8. ASSUME NEW k \in 1 .. n PROVE p[k] = KeepOne(p[k - 1], vec[k])
  <2>1. p[k - 1] \in W
    OBVIOUS
  <2> QED
    BY <1>2, <1>7, <2>1 DEF AlongFold
<1> QED
  BY <1>1, <1>6, <1>7, <1>8 DEF AlongFold, W, KeptRun

\* tag, as a function of the recogniser: it is the same in every state.
TagOf(dict, order, body) ==
    FoldLeft(LAMBDA hits, a : TakeFree(dict, body, hits, a), {}, order)

\* What the fold of tag computes.
TagIter(dict, order, body) ==
    CHOOSE g : g = [s \in SUBSET DOMAIN order |->
                        IF s = {} THEN {} ELSE TakeFree(dict, body, g[s \ {Max(s)}], order[Max(s)])]

\* Hits, alias by alias.
TagRun(p, dict, order, body, n, M) ==
    /\ p \in [0 .. n -> SUBSET M]
    /\ p[0] = {}
    /\ \A k \in 1 .. n : p[k] = TakeFree(dict, body, p[k - 1], order[k])
    /\ TagOf(dict, order, body) = p[n]

\* The fold of tag takes one alias after the other.
LEMMA TagIs ==
    ASSUME NEW M, NEW dict, NEW body, NEW order, NEW n \in Nat, DOMAIN order = 1 .. n,
           \A k \in 1 .. n : {Span(dict, order[k], p) : p \in Found(order[k], body)} \subseteq M
    PROVE  \E p : TagRun(p, dict, order, body, n, M)
<1> DEFINE W == SUBSET M
           step(v, k) == TakeFree(dict, body, v, order[k])
           op == [x \in W \X (1 .. n) |-> step(x[1], x[2])]
           it == TagIter(dict, order, body)
           Step(g) == [s \in SUBSET (1 .. n) |->
                          IF s = {} THEN {} ELSE TakeFree(dict, body, g[s \ {Max(s)}], order[Max(s)])]
<1>1. TagOf(dict, order, body) = it[1 .. n]
  BY DEF TagOf, FoldLeft, MapThenFoldSet, TagIter, Elements
<1>2. /\ op \in [W \X (1 .. n) -> W] /\ {} \in W
      /\ \A v \in W, k \in 1 .. n : op[<<v, k>>] = TakeFree(dict, body, v, order[k])
  <2>1. ASSUME NEW v \in W, NEW k \in 1 .. n PROVE step(v, k) \in W
    BY DEF TakeFree
  <2>2. {} \in W
    OBVIOUS
  <2>3. op \in [W \X (1 .. n) -> W] /\ \A v \in W, k \in 1 .. n : op[<<v, k>>] = step(v, k)
    <3> HIDE DEF W, step
    <3> QED
      BY <2>1
  <2> HIDE DEF W, op
  <2> QED
    BY <2>2, <2>3
<1> HIDE DEF op, W
<1>3. PICK h : IsLeftFold(h, {}, op, W, n)
  <2>1. PICK b, o : b = {} /\ o = op
    OBVIOUS
  <2>2. b \in W /\ o \in [W \X (1 .. n) -> W]
    BY <1>2, <2>1
  <2>3. \E h : IsLeftFold(h, b, o, W, n)
    BY <2>2, LeftFold
  <2> QED
    BY <2>1, <2>3
<1> h \in [SUBSET (1 .. n) -> W]
  BY <1>3 DEF IsLeftFold
<1>4. \E g : g = Step(g)
  <2>1. ASSUME NEW s \in SUBSET (1 .. n), s # {}
        PROVE  h[s] = TakeFree(dict, body, h[s \ {Max(s)}], order[Max(s)])
    <3>1. Max(s) \in 1 .. n /\ s \ {Max(s)} \in SUBSET (1 .. n)
      BY <1>3, <2>1 DEF IsLeftFold
    <3>2. h[s \ {Max(s)}] \in W
      BY <3>1
    <3> QED
      BY <1>2, <1>3, <2>1, <3>1, <3>2 DEF IsLeftFold
  <2>2. h = Step(h)
    BY <1>3, <2>1 DEF IsLeftFold
  <2> QED
    BY <2>2
<1>5. it = Step(it)
  <2>1. it = CHOOSE g : g = Step(g)
    BY DEF TagIter
  <2> HIDE DEF Step, it
  <2> QED
    BY <1>4, <2>1
<1> HIDE DEF it
<1>6. it[1 .. n] = h[1 .. n]
  <2>1. it[{}] = {}
    BY <1>5
  <2>2. ASSUME NEW s \in SUBSET (1 .. n), s # {}, it[s \ {Max(s)}] \in W
        PROVE  it[s] = op[<<it[s \ {Max(s)}], Max(s)>>]
    <3>1. Max(s) \in 1 .. n
      BY <1>3, <2>2 DEF IsLeftFold
    <3>2. it[s] = TakeFree(dict, body, it[s \ {Max(s)}], order[Max(s)])
      BY <1>5, <2>2
    <3> QED
      BY <1>2, <2>2, <3>1, <3>2
  <2> QED
    BY <1>3, <2>1, <2>2 DEF IsLeftFold
<1>7. PICK p \in [0 .. n -> W] : p[n] = h[1 .. n] /\ AlongFold(p, {}, op, n)
  BY <1>3 DEF IsLeftFold
<1>8. ASSUME NEW k \in 1 .. n PROVE p[k] = TakeFree(dict, body, p[k - 1], order[k])
  <2>1. p[k - 1] \in W
    OBVIOUS
  <2> QED
    BY <1>2, <1>7, <2>1 DEF AlongFold
<1> QED
  BY <1>1, <1>6, <1>7, <1>8 DEF AlongFold, W, TagRun

\* The dictionaries with the corp of a line entered.
Headed(line, ds) == {Enter(d, line.corp, line.corp, line.ticker) : d \in ds}

\* What the fold of add_line computes.
AddLineIter(line, ds) ==
    CHOOSE g : g = [s \in SUBSET DOMAIN line.aliases |->
                        IF s = {} THEN Headed(line, ds) ELSE add_alias(g[s \ {Max(s)}], line.ticker, line.aliases[Max(s)])]

\* The dictionaries after a line, alias by alias.
AddLineRun(p, line, ds, n, N) ==
    /\ p \in [0 .. n -> SUBSET N]
    /\ p[0] = Headed(line, ds)
    /\ \A k \in 1 .. n : p[k] = add_alias(p[k - 1], line.ticker, line.aliases[k])
    /\ add_line(ds, line) = p[n]

\* The fold of add_line adds one alias after the other.
LEMMA AddLineIs ==
    ASSUME NEW N, NEW line, NEW ds \in SUBSET N, NEW n \in Nat, DOMAIN line.aliases = 1 .. n,
           Headed(line, ds) \subseteq N,
           \A v \in SUBSET N, k \in 1 .. n :
               add_alias(v, line.ticker, line.aliases[k]) \subseteq N
    PROVE  \E p : AddLineRun(p, line, ds, n, N)
<1> DEFINE W == SUBSET N
           step(v, k) == add_alias(v, line.ticker, line.aliases[k])
           op == [x \in W \X (1 .. n) |-> step(x[1], x[2])]
           it == AddLineIter(line, ds)
           Step(g) == [s \in SUBSET (1 .. n) |->
                          IF s = {} THEN Headed(line, ds) ELSE add_alias(g[s \ {Max(s)}], line.ticker, line.aliases[Max(s)])]
<1>1. add_line(ds, line) = it[1 .. n]
  BY DEF add_line, Headed, FoldLeft, MapThenFoldSet, AddLineIter, Elements
<1>2. /\ op \in [W \X (1 .. n) -> W] /\ Headed(line, ds) \in W
      /\ \A v \in W, k \in 1 .. n : op[<<v, k>>] = add_alias(v, line.ticker, line.aliases[k])
  <2>1. ASSUME NEW v \in W, NEW k \in 1 .. n PROVE step(v, k) \in W
    OBVIOUS
  <2>2. Headed(line, ds) \in W
    OBVIOUS
  <2>3. op \in [W \X (1 .. n) -> W] /\ \A v \in W, k \in 1 .. n : op[<<v, k>>] = step(v, k)
    <3> HIDE DEF W, step
    <3> QED
      BY <2>1
  <2> HIDE DEF W, op
  <2> QED
    BY <2>2, <2>3
<1> HIDE DEF op, W
<1>3. PICK h : IsLeftFold(h, Headed(line, ds), op, W, n)
  <2>1. PICK b, o : b = Headed(line, ds) /\ o = op
    OBVIOUS
  <2>2. b \in W /\ o \in [W \X (1 .. n) -> W]
    BY <1>2, <2>1
  <2>3. \E h : IsLeftFold(h, b, o, W, n)
    BY <2>2, LeftFold
  <2> QED
    BY <2>1, <2>3
<1> h \in [SUBSET (1 .. n) -> W]
  BY <1>3 DEF IsLeftFold
<1>4. \E g : g = Step(g)
  <2>1. ASSUME NEW s \in SUBSET (1 .. n), s # {}
        PROVE  h[s] = add_alias(h[s \ {Max(s)}], line.ticker, line.aliases[Max(s)])
    <3>1. Max(s) \in 1 .. n /\ s \ {Max(s)} \in SUBSET (1 .. n)
      BY <1>3, <2>1 DEF IsLeftFold
    <3>2. h[s \ {Max(s)}] \in W
      BY <3>1
    <3> QED
      BY <1>2, <1>3, <2>1, <3>1, <3>2 DEF IsLeftFold
  <2>2. h = Step(h)
    BY <1>3, <2>1 DEF IsLeftFold
  <2> QED
    BY <2>2
<1>5. it = Step(it)
  BY <1>4 DEF AddLineIter, Elements
<1> HIDE DEF it
<1>6. it[1 .. n] = h[1 .. n]
  <2>1. it[{}] = Headed(line, ds)
    BY <1>5
  <2>2. ASSUME NEW s \in SUBSET (1 .. n), s # {}, it[s \ {Max(s)}] \in W
        PROVE  it[s] = op[<<it[s \ {Max(s)}], Max(s)>>]
    <3>1. Max(s) \in 1 .. n
      BY <1>3, <2>2 DEF IsLeftFold
    <3>2. it[s] = add_alias(it[s \ {Max(s)}], line.ticker, line.aliases[Max(s)])
      BY <1>5, <2>2
    <3> QED
      BY <1>2, <2>2, <3>1, <3>2
  <2> QED
    BY <1>3, <2>1, <2>2 DEF IsLeftFold
<1>7. PICK p \in [0 .. n -> W] : p[n] = h[1 .. n] /\ AlongFold(p, Headed(line, ds), op, n)
  BY <1>3 DEF IsLeftFold
<1>8. ASSUME NEW k \in 1 .. n PROVE p[k] = add_alias(p[k - 1], line.ticker, line.aliases[k])
  <2>1. p[k - 1] \in W
    OBVIOUS
  <2> QED
    BY <1>2, <1>7, <2>1 DEF AlongFold
<1> QED
  BY <1>1, <1>6, <1>7, <1>8 DEF AlongFold, W, AddLineRun

\* What the fold of load_csv computes.
LoadIter(lines) ==
    CHOOSE g : g = [s \in SUBSET DOMAIN lines |->
                        IF s = {} THEN {Empty} ELSE add_line(g[s \ {Max(s)}], lines[Max(s)])]

\* The dictionaries, line by line.
LoadRun(p, lines, n, N) ==
    /\ p \in [0 .. n -> SUBSET N]
    /\ p[0] = {Empty}
    /\ \A k \in 1 .. n : p[k] = add_line(p[k - 1], lines[k])
    /\ load_csv(lines) = p[n]

\* The fold of load_csv adds one line after the other.
LEMMA LoadIs ==
    ASSUME NEW N, NEW lines, NEW n \in Nat, DOMAIN lines = 1 .. n, Empty \in N,
           \A v \in SUBSET N, k \in 1 .. n : add_line(v, lines[k]) \subseteq N
    PROVE  \E p : LoadRun(p, lines, n, N)
<1> DEFINE W == SUBSET N
           step(v, k) == add_line(v, lines[k])
           op == [x \in W \X (1 .. n) |-> step(x[1], x[2])]
           it == LoadIter(lines)
           Step(g) == [s \in SUBSET (1 .. n) |->
                          IF s = {} THEN {Empty} ELSE add_line(g[s \ {Max(s)}], lines[Max(s)])]
<1>1. load_csv(lines) = it[1 .. n]
  BY DEF load_csv, FoldLeft, MapThenFoldSet, LoadIter, Elements
<1>2. /\ op \in [W \X (1 .. n) -> W] /\ {Empty} \in W
      /\ \A v \in W, k \in 1 .. n : op[<<v, k>>] = add_line(v, lines[k])
  <2>1. ASSUME NEW v \in W, NEW k \in 1 .. n PROVE step(v, k) \in W
    OBVIOUS
  <2>2. {Empty} \in W
    OBVIOUS
  <2>3. op \in [W \X (1 .. n) -> W] /\ \A v \in W, k \in 1 .. n : op[<<v, k>>] = step(v, k)
    <3> HIDE DEF W, step
    <3> QED
      BY <2>1
  <2> HIDE DEF W, op
  <2> QED
    BY <2>2, <2>3
<1> HIDE DEF op, W
<1>3. PICK h : IsLeftFold(h, {Empty}, op, W, n)
  <2>1. PICK b, o : b = {Empty} /\ o = op
    OBVIOUS
  <2>2. b \in W /\ o \in [W \X (1 .. n) -> W]
    BY <1>2, <2>1
  <2>3. \E h : IsLeftFold(h, b, o, W, n)
    BY <2>2, LeftFold
  <2> QED
    BY <2>1, <2>3
<1> h \in [SUBSET (1 .. n) -> W]
  BY <1>3 DEF IsLeftFold
<1>4. \E g : g = Step(g)
  <2>1. ASSUME NEW s \in SUBSET (1 .. n), s # {}
        PROVE  h[s] = add_line(h[s \ {Max(s)}], lines[Max(s)])
    <3>1. Max(s) \in 1 .. n /\ s \ {Max(s)} \in SUBSET (1 .. n)
      BY <1>3, <2>1 DEF IsLeftFold
    <3>2. h[s \ {Max(s)}] \in W
      BY <3>1
    <3> QED
      BY <1>2, <1>3, <2>1, <3>1, <3>2 DEF IsLeftFold
  <2>2. h = Step(h)
    BY <1>3, <2>1 DEF IsLeftFold
  <2> QED
    BY <2>2
<1>5. it = Step(it)
  BY <1>4 DEF LoadIter, Elements
<1> HIDE DEF it
<1>6. it[1 .. n] = h[1 .. n]
  <2>1. it[{}] = {Empty}
    BY <1>5
  <2>2. ASSUME NEW s \in SUBSET (1 .. n), s # {}, it[s \ {Max(s)}] \in W
        PROVE  it[s] = op[<<it[s \ {Max(s)}], Max(s)>>]
    <3>1. Max(s) \in 1 .. n
      BY <1>3, <2>2 DEF IsLeftFold
    <3>2. it[s] = add_line(it[s \ {Max(s)}], lines[Max(s)])
      BY <1>5, <2>2
    <3> QED
      BY <1>2, <2>2, <3>1, <3>2
  <2> QED
    BY <1>3, <2>1, <2>2 DEF IsLeftFold
<1>7. PICK p \in [0 .. n -> W] : p[n] = h[1 .. n] /\ AlongFold(p, {Empty}, op, n)
  BY <1>3 DEF IsLeftFold
<1>8. ASSUME NEW k \in 1 .. n PROVE p[k] = add_line(p[k - 1], lines[k])
  <2>1. p[k - 1] \in W
    OBVIOUS
  <2> QED
    BY <1>2, <1>7, <2>1 DEF AlongFold
<1> QED
  BY <1>1, <1>6, <1>7, <1>8 DEF AlongFold, W, LoadRun

\* One entry more adds its weight.
LEMMA WeightOfAppend ==
    ASSUME NEW E, NEW w \in [E -> Int], NEW vec \in Seq(E), NEW e \in E
    PROVE  Weight(Append(vec, e), w) = Weight(vec, w) + w[e]
<1>1. PICK more : more = <<e>>
  OBVIOUS
<1>2. more \in Seq(E) /\ Len(more) = 1 /\ (\A i \in 1 .. 1 : more[i] = e)
  BY <1>1
<1>3. Append(vec, e) = vec \o more
  BY <1>1, AppendIsConcat
<1>4. Weight(vec \o more, w) = Weight(vec, w) + 1 * w[e]
  <2>1. PICK n \in Nat : n = 1
    OBVIOUS
  <2>2. Repeats(more, e, n, E)
    BY <1>2, <2>1 DEF Repeats
  <2>3. Weight(vec \o more, w) = Weight(vec, w) + n * w[e]
    BY <1>2, <2>2, WeightOfMore
  <2> QED
    BY <2>1, <2>3
<1>5. w[e] \in Int
  OBVIOUS
<1> QED
  BY <1>3, <1>4, <1>5

\* What score() drops weighs nothing, if what is too old does not.
Recent(e) == clock - e.ts <= Cutoff

\* What score() keeps is recent, and weighs what the vector did by every function that
\* gives what is too old no weight.
LEMMA KeptWeighsTheSame ==
    ASSUME NEW E, \A e \in E : clock - e.ts \in Int, NEW vec \in Seq(E), Cutoff \in Nat
    PROVE  /\ Kept(vec) \in Seq(E)
           /\ \A i \in DOMAIN Kept(vec) : Recent(Kept(vec)[i])
           /\ \A w \in [E -> Int] : (\A e \in E : ~ Recent(e) => w[e] = 0) =>
                 Weight(Kept(vec), w) = Weight(vec, w)
<1> DEFINE n == Len(vec)
<1>1. n \in Nat /\ DOMAIN vec = 1 .. n /\ \A k \in 1 .. n : vec[k] \in E
  BY LenProperties, ElementOfSeq
<1>2. PICK p \in [0 .. n -> Seq(E)] :
         p[0] = <<>> /\ (\A k \in 1 .. n : p[k] = KeepOne(p[k - 1], vec[k])) /\ Kept(vec) = p[n]
  <2>1. Elements(vec, n, E)
    BY <1>1 DEF Elements
  <2> HIDE DEF n
  <2>2. \E p : KeptRun(p, vec, n, E)
    BY <1>1, <2>1, KeptIs
  <2> QED
    BY <2>2 DEF KeptRun
<1>3. \A e \in E : Recent(e) <=> ~ (clock - e.ts > Cutoff)
  BY DEF Recent
<1>4. \A i \in DOMAIN p[n] : Recent(p[n][i])
  <2> DEFINE S == {k \in 0 .. n : \A i \in DOMAIN p[k] : Recent(p[k][i])}
  <2>1. 0 \in S
    BY <1>1, <1>2
  <2>2. ASSUME NEW k \in 0 .. n - 1, k \in S PROVE k + 1 \in S
    <3>1. k + 1 \in 1 .. n /\ (k + 1) - 1 = k /\ k \in 0 .. n /\ k + 1 \in 0 .. n
      BY <1>1
    <3>2. p[k + 1] = KeepOne(p[k], vec[k + 1]) /\ vec[k + 1] \in E /\ p[k] \in Seq(E)
      BY <1>1, <1>2, <3>1
    <3>3. \A i \in DOMAIN p[k] : Recent(p[k][i])
      BY <2>2
    <3>4. PICK v, e : v = p[k] /\ e = vec[k + 1]
      OBVIOUS
    <3>5. \A i \in DOMAIN KeepOne(v, e) : Recent(KeepOne(v, e)[i])
      <4>1. CASE clock - e.ts > Cutoff
        BY <3>3, <3>4, <4>1 DEF KeepOne
      <4>2. CASE ~ (clock - e.ts > Cutoff)
        <5>1. KeepOne(v, e) = Append(v, e) /\ Recent(e) /\ v \in Seq(E) /\ e \in E
          BY <1>3, <3>2, <3>4, <4>2 DEF KeepOne
        <5>2. \A i \in DOMAIN Append(v, e) : (i \in DOMAIN v /\ Append(v, e)[i] = v[i]) \/ Append(v, e)[i] = e
          BY <5>1, AppendProperties, LenProperties
        <5> QED
          BY <3>3, <3>4, <5>1, <5>2
      <4> QED
        BY <4>1, <4>2
    <3>6. \A i \in DOMAIN p[k + 1] : Recent(p[k + 1][i])
      BY <3>2, <3>4, <3>5
    <3> QED
      BY <3>1, <3>6
  <2> HIDE DEF S, n
  <2>3. \A k \in 0 .. n : k \in S
    BY <1>1, <2>1, <2>2, CountUp
  <2>4. n \in S
    BY <1>1, <2>3
  <2> QED
    BY <2>4 DEF S
<1>5. ASSUME NEW w \in [E -> Int], \A e \in E : ~ Recent(e) => w[e] = 0
      PROVE  Weight(p[n], w) = Weight(vec, w)
  <2> DEFINE a == [i \in DOMAIN vec |-> w[vec[i]]]
  <2>1. PICK q \in [0 .. n -> Int] :
           q[0] = 0 /\ (\A k \in 1 .. n : q[k] = q[k - 1] + a[k]) /\ Total(a) = q[n]
    <3>1. DOMAIN a = 1 .. n /\ \A i \in 1 .. n : a[i] \in Int
      BY <1>1
    <3> HIDE DEF a, n
    <3> QED
      BY <1>1, <3>1, TotalIs
  <2> DEFINE S == {k \in 0 .. n : Weight(p[k], w) = q[k]}
  <2>2. 0 \in S
    <3>1. Weight(<<>>, w) = 0
      <4>1. PICK v : v = <<>> /\ v \in Seq(E)
        BY EmptySeq
      <4>2. Weight(v, w) = 0
        BY <4>1, WeightIs
      <4> QED
        BY <4>1, <4>2
    <3> QED
      BY <1>1, <1>2, <2>1, <3>1
  <2>3. ASSUME NEW k \in 0 .. n - 1, k \in S PROVE k + 1 \in S
    <3>1. k + 1 \in 1 .. n /\ (k + 1) - 1 = k /\ k \in 0 .. n /\ k + 1 \in 0 .. n
      BY <1>1
    <3>2. p[k + 1] = KeepOne(p[k], vec[k + 1]) /\ vec[k + 1] \in E /\ p[k] \in Seq(E)
      BY <1>1, <1>2, <3>1
    <3>3. q[k + 1] = q[k] + w[vec[k + 1]] /\ q[k] \in Int
      BY <1>1, <2>1, <3>1
    <3>4. Weight(p[k], w) = q[k]
      BY <2>3
    <3>5. PICK v, e : v = p[k] /\ e = vec[k + 1]
      OBVIOUS
    <3>6. Weight(KeepOne(v, e), w) = Weight(v, w) + w[e]
      <4>1. v \in Seq(E) /\ e \in E /\ Weight(v, w) \in Int
        BY <3>2, <3>3, <3>4, <3>5
      <4>2. CASE Recent(e)
        <5>1. KeepOne(v, e) = Append(v, e)
          BY <1>3, <4>1, <4>2 DEF KeepOne
        <5> QED
          BY <4>1, <5>1, WeightOfAppend
      <4>3. CASE ~ Recent(e)
        <5>1. KeepOne(v, e) = v /\ w[e] = 0
          BY <1>3, <1>5, <4>1, <4>3 DEF KeepOne
        <5> QED
          BY <4>1, <5>1
      <4> QED
        BY <4>2, <4>3
    <3>7. Weight(p[k + 1], w) = q[k + 1]
      BY <3>2, <3>3, <3>4, <3>5, <3>6
    <3> QED
      BY <3>1, <3>7
  <2> HIDE DEF S, n
  <2>4. \A k \in 0 .. n : k \in S
    BY <1>1, <2>2, <2>3, CountUp
  <2>5. n \in S
    BY <1>1, <2>4
  <2> QED
    BY <2>1, <2>5 DEF S, Weight
<1>6. n \in 0 .. n /\ p[n] \in Seq(E) /\ Kept(vec) = p[n]
  BY <1>1, <1>2
<1>7. PICK r : r = p[n]
  OBVIOUS
<1>8. /\ r \in Seq(E) /\ Kept(vec) = r
      /\ \A i \in DOMAIN r : Recent(r[i])
      /\ \A w \in [E -> Int] : (\A e \in E : ~ Recent(e) => w[e] = 0) =>
            Weight(r, w) = Weight(vec, w)
  BY <1>4, <1>5, <1>6, <1>7
<1> HIDE DEF n
<1> QED
  BY <1>8

-----------------------------------------------------------------------------
(* The dictionary. *)

\* Dictionaries: by_alias maps a text to a company and a ticker.
Dicts == UNION {[S -> [corp : Texts, ticker : Tickers]] : S \in SUBSET Texts}

\* The lines up to the kth that name an alias.
NamedBy(lines, a, k) ==
    {i \in 1 .. k : a = lines[i].corp \/ a \in ToSet(lines[i].aliases)}

\* Every alias has the ticker of the last of these lines.
Follows(d, lines, k) ==
    /\ IsFiniteSet(DOMAIN d)
    /\ \A a \in DOMAIN d : /\ NamedBy(lines, a, k) # {}
                           /\ d[a].ticker = lines[Max(NamedBy(lines, a, k))].ticker

\* The same amid a line, whose corp and first j aliases are entered.
FollowsAmid(d, lines, k, j) ==
    /\ IsFiniteSet(DOMAIN d)
    /\ \A a \in DOMAIN d :
          \/ /\ a = lines[k].corp \/ \E i \in 1 .. j : a = lines[k].aliases[i]
             /\ d[a].ticker = lines[k].ticker
          \/ /\ a # lines[k].corp
             /\ \A i \in 1 .. j : a # lines[k].aliases[i]
             /\ NamedBy(lines, a, k - 1) # {}
             /\ d[a].ticker = lines[Max(NamedBy(lines, a, k - 1))].ticker

\* A dictionary is a function from texts.
LEMMA DictsAre ==
    ASSUME NEW d
    PROVE  d \in Dicts <=> /\ d = [a \in DOMAIN d |-> d[a]]
                           /\ DOMAIN d \subseteq Texts
                           /\ \A a \in DOMAIN d : d[a] \in [corp : Texts, ticker : Tickers]
BY DEF Dicts

\* e is d with the alias a entered for the ticker t.
Entered(e, d, a, t) ==
    /\ e \in Dicts
    /\ DOMAIN e = DOMAIN d \cup {a}
    /\ e[a].ticker = t
    /\ \A b \in DOMAIN d : b # a => e[b] = d[b]
    /\ IsFiniteSet(DOMAIN d) => IsFiniteSet(DOMAIN e)

\* Enter keeps a dictionary one.
LEMMA EnterIs ==
    ASSUME NEW d \in Dicts, NEW a \in Texts, NEW c \in Texts, NEW t \in Tickers
    PROVE  Entered(Enter(d, a, c, t), d, a, t)
<1>1. /\ DOMAIN d \subseteq Texts
      /\ \A b \in DOMAIN d : d[b] \in [corp : Texts, ticker : Tickers]
  BY DictsAre
<1>2. [corp |-> c, ticker |-> t] \in [corp : Texts, ticker : Tickers]
  OBVIOUS
<1> DEFINE e == Enter(d, a, c, t)
<1>3. /\ DOMAIN e = DOMAIN d \cup {a}
      /\ e = [b \in DOMAIN e |-> e[b]]
      /\ e[a] = [corp |-> c, ticker |-> t]
      /\ \A b \in DOMAIN d : b # a => e[b] = d[b]
  BY DEF Enter
<1> HIDE DEF e
<1>4. e \in Dicts
  <2>1. DOMAIN e \subseteq Texts
    BY <1>1, <1>3
  <2>2. \A b \in DOMAIN e : e[b] \in [corp : Texts, ticker : Tickers]
    BY <1>1, <1>2, <1>3
  <2> QED
    BY <1>3, <2>1, <2>2, DictsAre
<1>5. IsFiniteSet(DOMAIN d) => IsFiniteSet(DOMAIN e)
  BY <1>3, FS_AddElement
<1> QED
  BY <1>3, <1>4, <1>5 DEF e, Entered

\* What add_alias can make is a dictionary with the alias entered for some company.
LEMMA AddAliasIs ==
    ASSUME NEW ds \in SUBSET Dicts, NEW t \in Tickers, NEW alias \in Texts
    PROVE  \A e \in add_alias(ds, t, alias) :
              \E d \in ds, c \in Texts : e = Enter(d, alias, c, t)
<1> SUFFICES ASSUME NEW e \in add_alias(ds, t, alias)
             PROVE  \E d \in ds, c \in Texts : e = Enter(d, alias, c, t)
  OBVIOUS
<1>1. PICK d \in ds : \E a \in DOMAIN d : e = Enter(d, alias, d[a].corp, t)
  BY DEF add_alias
<1>a. PICK a \in DOMAIN d : e = Enter(d, alias, d[a].corp, t)
  BY <1>1
<1>2. d[a] \in [corp : Texts, ticker : Tickers]
  BY <1>a, DictsAre
<1>3. d[a].corp \in Texts
  BY <1>2
<1> QED
  BY <1>a, <1>3

\* A line of the table has a ticker and names that are texts.
LEMMA LineIs ==
    ASSUME NEW line \in Lines
    PROVE  /\ line.ticker \in Tickers /\ line.corp \in Texts
           /\ Len(line.aliases) \in Nat /\ DOMAIN line.aliases = 1 .. Len(line.aliases)
           /\ \A j \in 1 .. Len(line.aliases) : line.aliases[j] \in Texts
           /\ \A a : a \in ToSet(line.aliases) <=>
                        \E j \in 1 .. Len(line.aliases) : a = line.aliases[j]
<1>1. line.ticker \in Tickers /\ line.corp \in Texts /\ line.aliases \in Seq(Texts)
  BY DEF Lines
<1>2. /\ Len(line.aliases) \in Nat /\ DOMAIN line.aliases = 1 .. Len(line.aliases)
      /\ \A j \in 1 .. Len(line.aliases) : line.aliases[j] \in Texts
  BY <1>1, LenProperties, ElementOfSeq
<1> QED
  BY <1>1, <1>2 DEF ToSet

\* A line enters its own names.
LEMMA AddLineFollows ==
    ASSUME NEW lines, NEW k \in Nat \ {0}, lines[k] \in Lines,
           NEW ds \in SUBSET Dicts
    PROVE  /\ add_line(ds, lines[k]) \in SUBSET Dicts
           /\ (\A d \in ds : Follows(d, lines, k - 1)) =>
                  \A d \in add_line(ds, lines[k]) : Follows(d, lines, k)
<1> DEFINE line == lines[k]
           n == Len(line.aliases)
<1>1. /\ line.ticker \in Tickers /\ line.corp \in Texts
      /\ n \in Nat /\ DOMAIN line.aliases = 1 .. n
      /\ \A j \in 1 .. n : line.aliases[j] \in Texts
      /\ \A a : a \in ToSet(line.aliases) <=> \E j \in 1 .. n : a = line.aliases[j]
  BY LineIs
<1>2. /\ Headed(line, ds) \in SUBSET Dicts
      /\ (\A d \in ds : Follows(d, lines, k - 1)) =>
             \A d \in Headed(line, ds) : FollowsAmid(d, lines, k, 0)
  <2> SUFFICES ASSUME NEW c \in ds
               PROVE  /\ Enter(c, line.corp, line.corp, line.ticker) \in Dicts
                      /\ Follows(c, lines, k - 1) =>
                         FollowsAmid(Enter(c, line.corp, line.corp, line.ticker), lines, k, 0)
    BY DEF Headed
  <2> DEFINE d == Enter(c, line.corp, line.corp, line.ticker)
  <2>1. /\ d \in Dicts /\ DOMAIN d = DOMAIN c \cup {line.corp}
        /\ d[line.corp].ticker = line.ticker
        /\ \A b \in DOMAIN c : b # line.corp => d[b] = c[b]
        /\ IsFiniteSet(DOMAIN c) => IsFiniteSet(DOMAIN d)
    <3>1. PICK a, t, e : a = line.corp /\ t = line.ticker /\ e = Enter(c, a, a, t)
      OBVIOUS
    <3>2. a \in Texts /\ t \in Tickers /\ c \in Dicts
      BY <1>1, <3>1
    <3>3. Entered(e, c, a, t)
      BY <3>1, <3>2, EnterIs
    <3>4. e = d
      BY <3>1
    <3> HIDE DEF d
    <3> QED
      BY <3>1, <3>3, <3>4 DEF Entered
  <2> HIDE DEF d
  <2>2. Follows(c, lines, k - 1) => FollowsAmid(d, lines, k, 0)
    BY <2>1 DEF Follows, FollowsAmid
  <2> QED
    BY <2>1, <2>2 DEF d
<1>3. ASSUME NEW v \in SUBSET Dicts, NEW j \in 1 .. n
      PROVE  /\ add_alias(v, line.ticker, line.aliases[j]) \in SUBSET Dicts
             /\ (\A d \in v : FollowsAmid(d, lines, k, j - 1)) =>
                   \A d \in add_alias(v, line.ticker, line.aliases[j]) :
                       FollowsAmid(d, lines, k, j)
  <2> SUFFICES ASSUME NEW d \in add_alias(v, line.ticker, line.aliases[j])
               PROVE  /\ d \in Dicts
                      /\ (\A c \in v : FollowsAmid(c, lines, k, j - 1)) =>
                             FollowsAmid(d, lines, k, j)
    OBVIOUS
  <2>a. PICK al : al = line.aliases[j]
    OBVIOUS
  <2>1. PICK c \in v, corp \in Texts : d = Enter(c, al, corp, line.ticker)
    <3> HIDE DEF line, n
    <3> QED
      BY <1>1, <2>a, AddAliasIs
  <2>2. /\ d \in Dicts /\ DOMAIN d = DOMAIN c \cup {al}
        /\ d[al].ticker = line.ticker
        /\ \A b \in DOMAIN c : b # al => d[b] = c[b]
        /\ IsFiniteSet(DOMAIN c) => IsFiniteSet(DOMAIN d)
    <3>1. PICK t : t = line.ticker
      OBVIOUS
    <3>2. al \in Texts /\ t \in Tickers /\ c \in Dicts /\ d = Enter(c, al, corp, t)
      BY <1>1, <2>1, <2>a, <3>1
    <3>3. Entered(d, c, al, t)
      BY <3>2, EnterIs
    <3> QED
      BY <3>1, <3>3 DEF Entered
  <2>3. ASSUME FollowsAmid(c, lines, k, j - 1) PROVE FollowsAmid(d, lines, k, j)
    <3>1. 1 .. j = 1 .. j - 1 \cup {j}
      BY <1>1
    <3>2. IsFiniteSet(DOMAIN d)
      BY <2>2, <2>3 DEF FollowsAmid
    <3>3. ASSUME NEW a \in DOMAIN d, a # al
          PROVE  a \in DOMAIN c /\ d[a] = c[a]
      BY <2>2, <3>3
    <3> QED
      BY <2>a, <2>2, <2>3, <3>1, <3>2, <3>3 DEF FollowsAmid
  <2> QED
    BY <2>2, <2>3
<1>4. PICK p \in [0 .. n -> SUBSET Dicts] :
         /\ p[0] = Headed(line, ds)
         /\ \A j \in 1 .. n : p[j] = add_alias(p[j - 1], line.ticker, line.aliases[j])
         /\ add_line(ds, line) = p[n]
  <2> HIDE DEF line, n
  <2>1. \E p : AddLineRun(p, line, ds, n, Dicts)
    BY <1>1, <1>2, <1>3, AddLineIs
  <2> QED
    BY <2>1 DEF AddLineRun
<1> DEFINE S == {j \in 0 .. n : \A d \in p[j] : FollowsAmid(d, lines, k, j)}
<1>5. ASSUME \A d \in ds : Follows(d, lines, k - 1) PROVE n \in S
  <2>1. 0 \in S
    BY <1>1, <1>2, <1>4, <1>5
  <2>2. ASSUME NEW j \in 0 .. n - 1, j \in S PROVE j + 1 \in S
    <3>1. j + 1 \in 1 .. n /\ j + 1 \in 0 .. n /\ j \in 0 .. n /\ (j + 1) - 1 = j
      BY <1>1
    <3>2. p[j] \in SUBSET Dicts /\ p[j + 1] = add_alias(p[j], line.ticker, line.aliases[j + 1])
      BY <1>4, <3>1
    <3>3. \A d \in p[j] : FollowsAmid(d, lines, k, j)
      BY <2>2
    <3>4. PICK i \in 1 .. n : i = j + 1 /\ i - 1 = j
      BY <3>1
    <3>5. \A d \in add_alias(p[j], line.ticker, line.aliases[i]) : FollowsAmid(d, lines, k, i)
      BY <1>3, <3>2, <3>3, <3>4
    <3> QED
      BY <3>1, <3>2, <3>4, <3>5
  <2> HIDE DEF S, n
  <2>3. \A j \in 0 .. n : j \in S
    BY <1>1, <2>1, <2>2, CountUp
  <2> QED
    BY <1>1, <2>3
<1>6. ASSUME NEW d, FollowsAmid(d, lines, k, n) PROVE Follows(d, lines, k)
  <2>1. \A a : /\ a = line.corp \/ (\E j \in 1 .. n : a = line.aliases[j])
                     => NamedBy(lines, a, k) # {} /\ Max(NamedBy(lines, a, k)) = k
               /\ ~ (a = line.corp \/ (\E j \in 1 .. n : a = line.aliases[j]))
                     => NamedBy(lines, a, k) = NamedBy(lines, a, k - 1)
    <3> SUFFICES ASSUME NEW a
                 PROVE  /\ k \in NamedBy(lines, a, k) => Max(NamedBy(lines, a, k)) = k
                        /\ k \notin NamedBy(lines, a, k) =>
                              NamedBy(lines, a, k) = NamedBy(lines, a, k - 1)
      <4>1. k \in 1 .. k
        OBVIOUS
      <4> QED
        BY <1>1, <4>1 DEF NamedBy
    <3>1. NamedBy(lines, a, k) \in SUBSET (1 .. k)
      BY DEF NamedBy
    <3>2. ASSUME k \in NamedBy(lines, a, k) PROVE Max(NamedBy(lines, a, k)) = k
      <4> PICK T : T = NamedBy(lines, a, k)
        OBVIOUS
      <4>1. Max(T) \in T /\ \A y \in T : Max(T) >= y
        BY <3>1, <3>2, MaxOfSome
      <4> QED
        BY <3>1, <3>2, <4>1
    <3>3. ASSUME k \notin NamedBy(lines, a, k)
          PROVE  NamedBy(lines, a, k) = NamedBy(lines, a, k - 1)
      <4>1. 1 .. k = 1 .. k - 1 \cup {k}
        OBVIOUS
      <4> QED
        BY <3>3, <4>1 DEF NamedBy
    <3> QED
      BY <3>2, <3>3
  <2> QED
    BY <1>6, <2>1 DEF Follows, FollowsAmid
<1>7. n \in 0 .. n
  BY <1>1
<1> QED
  BY <1>4, <1>5, <1>6, <1>7

\* What load_csv can make of a table follows it.
LEMMA LoadFollows ==
    ASSUME NEW lines \in Seq(Lines), NEW d \in load_csv(lines)
    PROVE  d \in Dicts /\ Follows(d, lines, Len(lines))
<1> DEFINE n == Len(lines)
<1>1. n \in Nat /\ DOMAIN lines = 1 .. n /\ \A k \in 1 .. n : lines[k] \in Lines
  BY LenProperties, ElementOfSeq
<1>2. Empty \in Dicts /\ Follows(Empty, lines, 0)
  <2>1. Empty \in Dicts
    BY DictsAre DEF Empty
  <2>2. IsFiniteSet(DOMAIN Empty)
    BY FS_EmptySet DEF Empty
  <2> QED
    BY <2>1, <2>2 DEF Follows, Empty
<1>3. \A v \in SUBSET Dicts, k \in 1 .. n : add_line(v, lines[k]) \subseteq Dicts
  <2> SUFFICES ASSUME NEW v \in SUBSET Dicts, NEW k \in 1 .. n
               PROVE  add_line(v, lines[k]) \subseteq Dicts
    OBVIOUS
  <2>1. k \in Nat \ {0} /\ lines[k] \in Lines
    BY <1>1
  <2> QED
    BY <2>1, AddLineFollows
<1>4. PICK p \in [0 .. n -> SUBSET Dicts] :
         /\ p[0] = {Empty}
         /\ \A k \in 1 .. n : p[k] = add_line(p[k - 1], lines[k])
         /\ load_csv(lines) = p[n]
  <2> HIDE DEF n
  <2>1. \E p : LoadRun(p, lines, n, Dicts)
    BY <1>1, <1>2, <1>3, LoadIs
  <2> QED
    BY <2>1 DEF LoadRun
<1> DEFINE S == {k \in 0 .. n : \A e \in p[k] : Follows(e, lines, k)}
<1>5. n \in S
  <2>1. 0 \in S
    BY <1>1, <1>2, <1>4
  <2>2. ASSUME NEW k \in 0 .. n - 1, k \in S PROVE k + 1 \in S
    <3>1. k + 1 \in 1 .. n /\ k + 1 \in 0 .. n /\ k \in 0 .. n
      BY <1>1
    <3>2. PICK i \in 1 .. n : i = k + 1 /\ i - 1 = k /\ i \in Nat \ {0}
      BY <3>1
    <3>3. p[k] \in SUBSET Dicts /\ p[i] = add_line(p[k], lines[i]) /\ lines[i] \in Lines
      BY <1>1, <1>4, <3>1, <3>2
    <3>4. \A e \in p[k] : Follows(e, lines, i - 1)
      BY <2>2, <3>2
    <3>5. \A e \in add_line(p[k], lines[i]) : Follows(e, lines, i)
      BY <3>2, <3>3, <3>4, AddLineFollows
    <3> QED
      BY <3>1, <3>2, <3>3, <3>5
  <2> HIDE DEF S, n
  <2>3. \A k \in 0 .. n : k \in S
    BY <1>1, <2>1, <2>2, CountUp
  <2> QED
    BY <1>1, <2>3
<1>6. n \in 0 .. n
  BY <1>1
<1> QED
  BY <1>4, <1>5, <1>6

-----------------------------------------------------------------------------
(* The order of the aliases. *)

\* Every alias has its place, and none before it is shorter.
InOrder(order, A, n) ==
    /\ DOMAIN order = 1 .. n
    /\ \A k \in 1 .. n : order[k] \in A
    /\ \A a \in A : \E k \in 1 .. n : order[k] = a
    /\ \A i, j \in 1 .. n : i < j => Len(order[i]) >= Len(order[j])

\* What std::sort can make of the aliases holds each of them, the longest first.
LEMMA SortedIsInOrder ==
    ASSUME NEW A, IsFiniteSet(A), NEW order \in Sorted(A)
    PROVE  \E n \in Nat : InOrder(order, A, n)
<1> DEFINE n == Cardinality(A)
           D == 1 .. n
<1>1. n \in Nat
  BY FS_CardinalityType
<1>2. /\ order \in [D -> A]
      /\ \A i, j \in D : i # j => order[i] # order[j]
      /\ \A i, j \in DOMAIN order : i < j => Len(order[i]) >= Len(order[j])
  BY DEF Sorted, SetToSeqs
<1>3. order \in Injection(D, A)
  BY <1>2 DEF Injection, IsInjective
<1>4. IsFiniteSet(D) /\ Cardinality(D) = Cardinality(A)
  BY <1>1, FS_Interval
<1>5. order \in Surjection(D, A)
  <2> HIDE DEF D, n
  <2> QED
    BY <1>3, <1>4, FS_Injection
<1>6. \A a \in A : \E k \in D : order[k] = a
  BY <1>5 DEF Surjection
<1>7. InOrder(order, A, n)
  BY <1>2, <1>6 DEF InOrder
<1> QED
  BY <1>1, <1>7

(* The scan for an alias. *)

\* What the scan finds at p or behind it: occurrences, apart from each other, and
\* all others begin within one that it has found.
ScanIs(f, O, l, p) ==
    /\ f \subseteq {q \in O : q >= p}
    /\ \A x, y \in f : x < y => x + l <= y
    /\ \A q \in O : q >= p /\ q \notin f => \E x \in f : x < q /\ q < x + l

\* The first occurrence and what the scan finds behind it are what it finds.
LEMMA ScanStep ==
    ASSUME NEW N \in Nat, NEW O \in SUBSET (1 .. N), NEW l \in Nat \ {0}, NEW p \in Nat,
           NEW m \in O, m >= p, \A q \in O : q >= p => m <= q,
           NEW f, ScanIs(f, O, l, m + l)
    PROVE  ScanIs({m} \cup f, O, l, p)
<1> O \subseteq Nat
  OBVIOUS
<1>1. {m} \cup f \subseteq {q \in O : q >= p}
  BY DEF ScanIs
<1>2. ASSUME NEW x \in {m} \cup f, NEW y \in {m} \cup f, x < y PROVE x + l <= y
  BY <1>2 DEF ScanIs
<1>3. ASSUME NEW q \in O, q >= p, q \notin {m} \cup f
      PROVE  \E x \in {m} \cup f : x < q /\ q < x + l
  <2>1. m < q
    BY <1>3
  <2>2. CASE q < m + l
    BY <2>1, <2>2
  <2>3. CASE q >= m + l
    BY <1>3, <2>3 DEF ScanIs
  <2> QED
    BY <2>2, <2>3
<1> QED
  BY <1>1, <1>2, <1>3 DEF ScanIs

\* The recursive function of Found, and what it is to satisfy.
From(O, l) ==
    CHOOSE from : from = [p \in Nat |-> IF {q \in O : q >= p} = {} THEN {}
                                        ELSE {Min({q \in O : q >= p})} \cup
                                             from[Min({q \in O : q >= p}) + l]]

\* There is such a function: behind an occurrence there are fewer.
LEMMA FromExists ==
    ASSUME NEW N \in Nat, NEW O \in SUBSET (1 .. N), NEW l \in Nat \ {0}
    PROVE  \E from : from = [p \in Nat |-> IF {q \in O : q >= p} = {} THEN {}
                                           ELSE {Min({q \in O : q >= p})} \cup
                                                from[Min({q \in O : q >= p}) + l]]
<1> DEFINE At(p) == {q \in O : q >= p}
           rest == [s \in SUBSET O |-> {q \in s : q >= Min(s) + l}]
           op == [x \in (SUBSET O) \X (SUBSET O) |-> ({Min(x[2])} \cap O) \cup x[1]]
<1>1. \A s \in SUBSET O : s # {} => Min(s) \in s /\ Min(s) \in Nat /\ \A q \in s : Min(s) <= q
  <2> SUFFICES ASSUME NEW s \in SUBSET O, s # {}
               PROVE  Min(s) \in s /\ Min(s) \in Nat /\ \A q \in s : Min(s) <= q
    OBVIOUS
  <2>1. s \in SUBSET Nat
    OBVIOUS
  <2>2. Min(s) \in s /\ \A q \in s : Min(s) <= q
    BY <2>1, MinOfSome
  <2> QED
    BY <2>1, <2>2
<1>2. Smaller(rest, O)
  <2> SUFFICES ASSUME NEW s \in SUBSET O, s # {}
               PROVE  rest[s] \in SUBSET s /\ rest[s] # s
    BY DEF Smaller
  <2>1. Min(s) \in s /\ Min(s) \in Nat
    BY <1>1
  <2>2. Min(s) \notin rest[s]
    BY <2>1
  <2> QED
    BY <2>1, <2>2
<1>3. op \in [(SUBSET O) \X (SUBSET O) -> SUBSET O]
  OBVIOUS
<1>4. \A v \in SUBSET O, s \in SUBSET O : s # {} => op[<<v, s>>] = {Min(s)} \cup v
  <2> SUFFICES ASSUME NEW v \in SUBSET O, NEW s \in SUBSET O, s # {}
               PROVE  op[<<v, s>>] = {Min(s)} \cup v
    OBVIOUS
  <2>1. Min(s) \in O
    BY <1>1
  <2> QED
    BY <2>1
<1>5. IsFiniteSet(O)
  <2>1. PICK D : D = 1 .. N
    OBVIOUS
  <2>2. IsFiniteSet(D) /\ O \in SUBSET D
    BY <2>1, FS_Interval
  <2> QED
    BY <2>2, FS_Subset
<1>6. PICK h : TheSolution(h, {}, op, rest, SUBSET O, O)
  <2>1. PICK e, V : e = {} /\ V = SUBSET O
    OBVIOUS
  <2>2. e \in V /\ op \in [V \X SUBSET O -> V]
    BY <1>3, <2>1
  <2>3. \E h : TheSolution(h, e, op, rest, V, O)
    <3> HIDE DEF op, rest
    <3> QED
      BY <1>2, <1>5, <2>2, RecursionTheorem
  <2> QED
    BY <2>1, <2>3
<1>7. /\ h \in [SUBSET O -> SUBSET O]
      /\ \A s \in SUBSET O : h[s] = IF s = {} THEN {} ELSE op[<<h[rest[s]], s>>]
  BY <1>6 DEF TheSolution, Recursive
<1> HIDE DEF op
<1>8. \A s \in SUBSET O : s # {} => h[s] = {Min(s)} \cup h[rest[s]]
  BY <1>1, <1>4, <1>7
<1> DEFINE from == [p \in Nat |-> h[At(p)]]
<1>9. ASSUME NEW p \in Nat
      PROVE  from[p] = IF At(p) = {} THEN {} ELSE {Min(At(p))} \cup from[Min(At(p)) + l]
  <2>1. At(p) \in SUBSET O
    OBVIOUS
  <2>2. CASE At(p) = {}
    BY <1>7, <2>1, <2>2
  <2>3. CASE At(p) # {}
    <3>1. Min(At(p)) \in At(p) /\ Min(At(p)) \in Nat /\ Min(At(p)) >= p
      BY <1>1, <2>1, <2>3
    <3>2. rest[At(p)] = At(Min(At(p)) + l)
      <4>1. PICK m \in Nat : m = Min(At(p)) /\ m >= p
        BY <3>1
      <4>2. rest[At(p)] = {q \in At(p) : q >= m + l}
        <5> HIDE DEF At
        <5> QED
          BY <2>1, <4>1
      <4>3. {q \in At(p) : q >= m + l} = At(m + l)
        <5>1. \A q \in O : q \in Nat /\ (q >= m + l => q >= p)
          BY <4>1
        <5> QED
          BY <5>1
      <4> QED
        BY <4>1, <4>2, <4>3
    <3>3. from[p] = h[At(p)] /\ from[Min(At(p)) + l] = h[At(Min(At(p)) + l)]
      BY <3>1
    <3> HIDE DEF from, At, rest
    <3> QED
      BY <1>8, <2>1, <2>3, <3>2, <3>3
  <2> QED
    BY <2>2, <2>3
<1>10. from = [p \in Nat |-> IF At(p) = {} THEN {} ELSE {Min(At(p))} \cup from[Min(At(p)) + l]]
  <2>1. from = [p \in Nat |-> from[p]]
    OBVIOUS
  <2> HIDE DEF from, At
  <2> QED
    BY <1>9, <2>1
<1> HIDE DEF from
<1> QED
  BY <1>10

\* The scan finds what it is to find from every position.
LEMMA FromIs ==
    ASSUME NEW N \in Nat, NEW O \in SUBSET (1 .. N), NEW l \in Nat \ {0}
    PROVE  \A p \in Nat : ScanIs(From(O, l)[p], O, l, p)
<1> DEFINE At(p) == {q \in O : q >= p}
           f == From(O, l)
<1>a. O \subseteq Nat /\ \A q \in O : q <= N
  OBVIOUS
<1>1. \A p \in Nat : f[p] = IF At(p) = {} THEN {} ELSE {Min(At(p))} \cup f[Min(At(p)) + l]
  <2>1. f = [p \in Nat |-> IF At(p) = {} THEN {} ELSE {Min(At(p))} \cup f[Min(At(p)) + l]]
    BY FromExists DEF From
  <2> HIDE DEF f, At
  <2> QED
    BY <2>1
<1> HIDE DEF f
<1>2. ASSUME NEW p \in Nat, At(p) = {} PROVE ScanIs(f[p], O, l, p)
  <2>1. f[p] = {}
    BY <1>1, <1>2
  <2> QED
    BY <1>2, <2>1 DEF ScanIs
<1> DEFINE Bad == {p \in 0 .. N : ~ ScanIs(f[p], O, l, p)}
           B == {N - p : p \in Bad}
<1>3. Bad = {}
  <2> SUFFICES ASSUME Bad # {} PROVE FALSE
    OBVIOUS
  <2>1. PICK b \in B : \A c \in B : b <= c
    <3>1. \A p \in Bad : N - p \in Nat
      OBVIOUS
    <3>2. B \in SUBSET Nat /\ B # {}
      BY <3>1
    <3> HIDE DEF B
    <3> QED
      BY <3>2, LeastNumber
  <2>2. PICK p \in Bad : b = N - p
    BY <2>1
  <2>3. \A q \in Bad : q <= p
    <3> SUFFICES ASSUME NEW q \in Bad PROVE q <= p
      OBVIOUS
    <3>1. b <= N - q
      BY <2>1
    <3> QED
      BY <2>2, <3>1
  <2>4. p \in 0 .. N /\ ~ ScanIs(f[p], O, l, p) /\ At(p) # {}
    BY <1>2
  <2>5. PICK m \in O : m = Min(At(p)) /\ m \in At(p) /\ \A q \in At(p) : m <= q
    <3>1. At(p) \in SUBSET Nat
      BY <1>a
    <3>2. PICK s : s = At(p)
      OBVIOUS
    <3>3. Min(s) \in s /\ \A q \in s : Min(s) <= q
      BY <2>4, <3>1, <3>2, MinOfSome
    <3> QED
      BY <3>2, <3>3
  <2>6. m + l \in Nat /\ m + l > p
    BY <2>5
  <2>7. ScanIs(f[m + l], O, l, m + l)
    <3>1. CASE m + l \in 0 .. N
      BY <2>3, <2>6, <3>1
    <3>2. CASE m + l > N
      <4>1. At(m + l) = {}
        <5>1. \A q \in O : ~ (q >= m + l)
          BY <1>a, <2>6, <3>2
        <5> QED
          BY <5>1
      <4> QED
        BY <1>2, <2>6, <4>1
    <3> QED
      BY <2>6, <3>1, <3>2
  <2>8. f[p] = {m} \cup f[m + l]
    <3>1. f[p] = {Min(At(p))} \cup f[Min(At(p)) + l]
      <4>1. p \in Nat /\ At(p) # {}
        BY <2>4
      <4> HIDE DEF At
      <4> QED
        BY <1>1, <4>1
    <3> QED
      BY <2>5, <3>1
  <2>9. ScanIs({m} \cup f[m + l], O, l, p)
    <3>1. m >= p /\ (\A q \in O : q >= p => m <= q) /\ p \in Nat
      BY <2>4, <2>5
    <3> QED
      BY <2>7, <3>1, ScanStep
  <2> QED
    BY <2>4, <2>8, <2>9
<1>4. ASSUME NEW p \in Nat PROVE ScanIs(f[p], O, l, p)
  <2>1. CASE p \in 0 .. N
    BY <1>3, <2>1
  <2>2. CASE p > N
    <3>1. At(p) = {}
      <4>1. \A q \in O : ~ (q >= p)
        BY <1>a, <2>2
      <4> QED
        BY <4>1
    <3> QED
      BY <1>2, <3>1
  <2> QED
    BY <2>1, <2>2
<1> QED
  BY <1>4 DEF f

\* The scan of an alias through a text; that of the empty alias finds nothing.
LEMMA FoundIs ==
    ASSUME NEW a \in Texts, NEW body \in Texts
    PROVE  /\ Occurs(a, body) \in SUBSET (1 .. Len(body) + 1)
           /\ a = <<>> => Found(a, body) = {}
           /\ a # <<>> => /\ Len(a) \in Nat \ {0}
                          /\ ScanIs(Found(a, body), Occurs(a, body), Len(a), 1)
<1>1. Len(a) \in Nat /\ Len(body) \in Nat /\ (a # <<>> => Len(a) # 0)
  BY LenProperties, EmptySeq DEF Texts
<1>2. Occurs(a, body) \in SUBSET (1 .. Len(body) + 1)
  <2>1. \A p \in 1 .. Len(body) - Len(a) + 1 : p \in 1 .. Len(body) + 1
    BY <1>1
  <2> QED
    BY <2>1 DEF Occurs
<1>3. a = <<>> => Found(a, body) = {}
  BY DEF Found
<1>4. a # <<>> => Found(a, body) = From(Occurs(a, body), Len(a))[1]
  BY DEF Found, From
<1>5. ASSUME a # <<>> PROVE ScanIs(From(Occurs(a, body), Len(a))[1], Occurs(a, body), Len(a), 1)
  <2>1. PICK O, l, N : O = Occurs(a, body) /\ l = Len(a) /\ N = Len(body) + 1
    OBVIOUS
  <2>2. N \in Nat /\ O \in SUBSET (1 .. N) /\ l \in Nat \ {0}
    BY <1>1, <1>2, <1>5, <2>1
  <2>3. \A p \in Nat : ScanIs(From(O, l)[p], O, l, p)
    BY <2>2, FromIs
  <2>4. ScanIs(From(O, l)[1], O, l, 1)
    BY <2>3
  <2> QED
    BY <2>1, <2>4
<1> QED
  BY <1>1, <1>2, <1>3, <1>4, <1>5

(* Tagging. *)

\* The hits after k aliases: spans of these, apart from each other, that leave no
\* other find of these without a hit over it that is no shorter.
HitsAre(hits, dict, order, body, k) ==
    /\ IsFiniteSet(hits)
    /\ \A m \in hits : \E j \in 1 .. k : \E p \in Found(order[j], body) :
          m = Span(dict, order[j], p)
    /\ \A m, n \in hits : Overlap(m, n) => m = n
    /\ \A j \in 1 .. k : \A p \in Found(order[j], body) :
          \E m \in hits : /\ Overlap(m, Span(dict, order[j], p))
                          /\ m.end - m.start >= Len(order[j]) - 1

\* Where a span begins and ends, and whose it is.
LEMMA SpanIs ==
    ASSUME NEW dict, NEW a, NEW p
    PROVE  /\ Span(dict, a, p).start = p /\ Span(dict, a, p).end = p + Len(a) - 1
           /\ Span(dict, a, p).ticker = dict[a].ticker
BY DEF Span

\* The spans of what a scan finds lie apart.
LEMMA SpansLieApart ==
    ASSUME NEW dict, NEW a \in Texts, NEW body \in Texts,
           NEW p \in Found(a, body), NEW q \in Found(a, body)
    PROVE  /\ p \in Nat /\ p \in Occurs(a, body) /\ Len(a) \in Nat \ {0} /\ a # <<>>
           /\ Overlap(Span(dict, a, p), Span(dict, a, q)) <=> p = q
<1>1. a # <<>>
  BY FoundIs
<1>2. /\ Occurs(a, body) \in SUBSET (1 .. Len(body) + 1) /\ Len(a) \in Nat \ {0}
      /\ ScanIs(Found(a, body), Occurs(a, body), Len(a), 1)
  BY <1>1, FoundIs
<1>3. p \in Occurs(a, body) /\ q \in Occurs(a, body) /\ p \in Nat /\ q \in Nat
  BY <1>2 DEF ScanIs
<1>4. (p < q => p + Len(a) <= q) /\ (q < p => q + Len(a) <= p)
  BY <1>2 DEF ScanIs
<1>5. PICK l \in Nat \ {0} : l = Len(a)
  BY <1>2
<1>6. Overlap(Span(dict, a, p), Span(dict, a, q)) <=> p <= q + l - 1 /\ q <= p + l - 1
  BY <1>5, SpanIs DEF Overlap
<1>7. (p <= q + l - 1 /\ q <= p + l - 1) <=> p = q
  BY <1>3, <1>4, <1>5
<1> QED
  BY <1>1, <1>2, <1>3, <1>6, <1>7

\* A scan finds finitely many.
LEMMA FoundIsFinite ==
    ASSUME NEW a \in Texts, NEW body \in Texts
    PROVE  IsFiniteSet(Found(a, body))
<1>1. CASE a = <<>>
  BY <1>1, FoundIs, FS_EmptySet
<1>2. CASE a # <<>>
  <2>1. Found(a, body) \in SUBSET (1 .. Len(body) + 1)
    BY <1>2, FoundIs DEF ScanIs
  <2>2. PICK D : D = 1 .. Len(body) + 1 /\ IsFiniteSet(D)
    <3>1. Len(body) + 1 \in Int
      BY LenProperties DEF Texts
    <3> QED
      BY <3>1, FS_Interval
  <2> QED
    BY <2>1, <2>2, FS_Subset
<1> QED
  BY <1>1, <1>2

\* One alias more, no longer than those before it, keeps the hits what they are.
LEMMA TakeFreeKeeps ==
    ASSUME NEW dict, NEW order, NEW body \in Texts, NEW k \in Nat \ {0},
           \A j \in 1 .. k : order[j] \in Texts,
           \A j \in 1 .. k - 1 : Len(order[j]) >= Len(order[k]),
           NEW hits, HitsAre(hits, dict, order, body, k - 1)
    PROVE  HitsAre(TakeFree(dict, body, hits, order[k]), dict, order, body, k)
<1> DEFINE F == Found(order[k], body)
           spans == {Span(dict, order[k], p) : p \in F}
           new == {m \in spans : \A h \in hits : ~ Overlap(m, h)}
           all == hits \cup new
<1>1. TakeFree(dict, body, hits, order[k]) = all
  BY DEF TakeFree
<1>2. 1 .. k = 1 .. k - 1 \cup {k} /\ order[k] \in Texts
  OBVIOUS
<1>3. IsFiniteSet(all)
  <2>1. IsFiniteSet(F)
    BY <1>2, FoundIsFinite
  <2>2. IsFiniteSet(spans)
    <3>1. [p \in F |-> Span(dict, order[k], p)] \in Surjection(F, spans)
      BY DEF Surjection
    <3> HIDE DEF F, spans
    <3> QED
      BY <2>1, <3>1, FS_Surjection
  <2>3. IsFiniteSet(new)
    <3> HIDE DEF spans
    <3> QED
      BY <2>2, FS_Subset
  <2> HIDE DEF new
  <2> QED
    BY <2>3, FS_Union DEF HitsAre
<1>4. ASSUME NEW m \in all
      PROVE  \E j \in 1 .. k : \E p \in Found(order[j], body) : m = Span(dict, order[j], p)
  <2>1. CASE m \in hits
    BY <1>2, <2>1 DEF HitsAre
  <2>2. CASE m \in new
    BY <1>2, <2>2
  <2> QED
    BY <2>1, <2>2
<1>5. ASSUME NEW m \in all, NEW n \in all, Overlap(m, n) PROVE m = n
  <2>1. CASE m \in hits /\ n \in hits
    BY <1>5, <2>1 DEF HitsAre
  <2>2. CASE m \in new /\ n \in hits
    BY <1>5, <2>2
  <2>3. CASE m \in hits /\ n \in new
    <3>1. Overlap(n, m)
      BY <1>5 DEF Overlap
    <3> QED
      BY <2>3, <3>1
  <2>4. CASE m \in new /\ n \in new
    <3>1. PICK p \in F : m = Span(dict, order[k], p)
      BY <2>4
    <3>2. PICK q \in F : n = Span(dict, order[k], q)
      BY <2>4
    <3>3. p = q
      BY <1>2, <1>5, <3>1, <3>2, SpansLieApart
    <3> QED
      BY <3>1, <3>2, <3>3
  <2> QED
    BY <2>1, <2>2, <2>3, <2>4
<1>6. ASSUME NEW j \in 1 .. k, NEW p \in Found(order[j], body)
      PROVE  \E m \in all : /\ Overlap(m, Span(dict, order[j], p))
                            /\ m.end - m.start >= Len(order[j]) - 1
  <2>1. CASE j \in 1 .. k - 1
    BY <2>1 DEF HitsAre
  <2>2. CASE j = k
    <3> PICK s : s = Span(dict, order[k], p)
      OBVIOUS
    <3>1. s \in spans /\ s.start = p /\ s.end = p + Len(order[k]) - 1
      BY <2>2, SpanIs
    <3>2. p \in Nat /\ Len(order[k]) \in Nat \ {0} /\ Overlap(s, s)
      BY <1>2, <2>2, SpansLieApart
    <3>3. CASE s \in new
      BY <2>2, <3>1, <3>2, <3>3
    <3>4. CASE s \notin new
      <4>1. PICK h \in hits : Overlap(s, h)
        BY <3>1, <3>4
      <4>2. Overlap(h, s)
        BY <4>1 DEF Overlap
      <4>3. PICK i \in 1 .. k - 1 : \E q \in Found(order[i], body) : h = Span(dict, order[i], q)
        BY DEF HitsAre
      <4>4. PICK q \in Found(order[i], body) : h = Span(dict, order[i], q)
        BY <4>3
      <4>5. i \in 1 .. k /\ order[i] \in Texts /\ Len(order[i]) >= Len(order[k])
        BY <1>2
      <4>6. q \in Nat /\ Len(order[i]) \in Nat
        BY <4>5, SpansLieApart
      <4>7. h.start = q /\ h.end = q + Len(order[i]) - 1
        BY <4>4, SpanIs
      <4>8. h.end - h.start >= Len(order[k]) - 1
        BY <3>2, <4>5, <4>6, <4>7
      <4> QED
        BY <2>2, <4>2, <4>8
    <3> QED
      BY <3>3, <3>4
  <2> QED
    BY <1>2, <2>1, <2>2
<1> HIDE DEF all
<1> QED
  BY <1>1, <1>3, <1>4, <1>5, <1>6 DEF HitsAre

\* The hits of all aliases are what hits are to be.
LEMMA TagOfIs ==
    ASSUME NEW dict, NEW A \in SUBSET Texts, NEW n \in Nat, NEW order, InOrder(order, A, n),
           NEW body \in Texts
    PROVE  HitsAre(TagOf(dict, order, body), dict, order, body, n)
<1>1. /\ DOMAIN order = 1 .. n /\ \A k \in 1 .. n : order[k] \in Texts
      /\ \A i, j \in 1 .. n : i < j => Len(order[i]) >= Len(order[j])
  BY DEF InOrder
<1> DEFINE M == UNION {{Span(dict, order[k], p) : p \in Found(order[k], body)} : k \in 1 .. n}
<1>2. PICK q : /\ q[0] = {} /\ TagOf(dict, order, body) = q[n]
               /\ \A k \in 1 .. n : q[k] = TakeFree(dict, body, q[k - 1], order[k])
  <2>1. \A k \in 1 .. n : {Span(dict, order[k], p) : p \in Found(order[k], body)} \subseteq M
    OBVIOUS
  <2> HIDE DEF M
  <2>2. \E q : TagRun(q, dict, order, body, n, M)
    BY <1>1, <2>1, TagIs
  <2> QED
    BY <2>2 DEF TagRun
<1> DEFINE S == {k \in 0 .. n : HitsAre(q[k], dict, order, body, k)}
<1>3. 0 \in S
  <2>1. HitsAre({}, dict, order, body, 0)
    BY FS_EmptySet DEF HitsAre
  <2> QED
    BY <1>2, <2>1
<1>4. ASSUME NEW k \in 0 .. n - 1, k \in S PROVE k + 1 \in S
  <2>1. PICK i \in 1 .. n : i = k + 1 /\ i - 1 = k /\ i \in Nat \ {0}
    OBVIOUS
  <2>2. HitsAre(q[k], dict, order, body, i - 1)
    BY <1>4, <2>1
  <2>3. q[i] = TakeFree(dict, body, q[k], order[i])
    BY <1>2, <2>1
  <2>4. /\ \A j \in 1 .. i : order[j] \in Texts
        /\ \A j \in 1 .. i - 1 : Len(order[j]) >= Len(order[i])
    BY <1>1, <2>1
  <2>5. HitsAre(TakeFree(dict, body, q[k], order[i]), dict, order, body, i)
    BY <2>1, <2>2, <2>4, TakeFreeKeeps
  <2> QED
    BY <2>1, <2>3, <2>5
<1> HIDE DEF S
<1>5. \A k \in 0 .. n : k \in S
  BY <1>3, <1>4, CountUp
<1>6. n \in S
  BY <1>5
<1> QED
  BY <1>2, <1>6 DEF S

-----------------------------------------------------------------------------
(* The recogniser never changes.                                            *)

\* It was loaded from a table and sorted.
RecogniserOK ==
    /\ table \in Tables
    /\ by_alias \in load_csv(table)
    /\ aliases \in Sorted(DOMAIN by_alias)

\* Its dictionary follows the table, and the aliases are in order.
LEMMA RecogniserIs ==
    ASSUME RecogniserOK
    PROVE  /\ table \in Seq(Lines) /\ by_alias \in Dicts
           /\ Follows(by_alias, table, Len(table))
           /\ \E n \in Nat : InOrder(aliases, DOMAIN by_alias, n)
<1>1. table \in Seq(Lines)
  BY NewsAssumption DEF RecogniserOK
<1>2. by_alias \in Dicts /\ Follows(by_alias, table, Len(table))
  BY <1>1, LoadFollows DEF RecogniserOK
<1>3. \E n \in Nat : InOrder(aliases, DOMAIN by_alias, n)
  <2>1. IsFiniteSet(DOMAIN by_alias)
    BY <1>2 DEF Follows
  <2> QED
    BY <2>1, SortedIsInOrder DEF RecogniserOK
<1> QED
  BY <1>1, <1>2, <1>3

LEMMA TagIsTagOf == \A body : tag(body) = TagOf(by_alias, aliases, body)
BY DEF tag, TagOf

\* The hits of a text.
LEMMA TagHits ==
    ASSUME RecogniserOK, NEW body \in Texts
    PROVE  \E n \in Nat : /\ InOrder(aliases, DOMAIN by_alias, n)
                          /\ HitsAre(tag(body), by_alias, aliases, body, n)
<1>1. PICK n \in Nat : InOrder(aliases, DOMAIN by_alias, n)
  BY RecogniserIs
<1>2. DOMAIN by_alias \in SUBSET Texts
  BY RecogniserIs, DictsAre
<1>3. HitsAre(TagOf(by_alias, aliases, body), by_alias, aliases, body, n)
  BY <1>1, <1>2, TagOfIs
<1>4. HitsAre(tag(body), by_alias, aliases, body, n)
  BY <1>3, TagIsTagOf
<1> QED
  BY <1>1, <1>4

\* A company is mentioned a number of times, zero times if it is not.
LEMMA CountIsNat ==
    ASSUME RecogniserOK, NEW body \in Texts, NEW t
    PROVE  /\ Count(tag(body), t) \in Nat
           /\ t \notin {m.ticker : m \in tag(body)} => Count(tag(body), t) = 0
<1>1. IsFiniteSet(tag(body))
  BY TagHits DEF HitsAre
<1> DEFINE T == {m \in tag(body) : m.ticker = t}
<1>2. IsFiniteSet(T)
  BY <1>1, FS_Subset
<1>3. Cardinality(T) \in Nat
  BY <1>2, FS_CardinalityType
<1>4. ASSUME t \notin {m.ticker : m \in tag(body)} PROVE Cardinality(T) = 0
  <2>1. T = {}
    BY <1>4
  <2> QED
    BY <2>1, FS_EmptySet
<1> QED
  BY <1>3, <1>4 DEF Count

\* What MentionsAreLongest says of a text and its mentions.
Longest(body, mentions) ==
    /\ \A m, n \in mentions : Overlap(m, n) => m = n
    /\ \A m \in mentions :
          /\ SubSeq(body, m.start, m.end) \in DOMAIN by_alias
          /\ m.ticker = LineOf(SubSeq(body, m.start, m.end)).ticker
    /\ \A a \in DOMAIN by_alias \ {<<>>} : \A p \in Occurs(a, body) :
          LET o == [start |-> p, end |-> p + Len(a) - 1]
          IN  \/ \E m \in mentions :
                    Overlap(m, o) /\ m.end - m.start >= o.end - o.start
              \/ \E q \in Occurs(a, body) : q < p /\ p < q + Len(a)

\* tag reports the longest mentions of every text.
LEMMA TagIsLongest ==
    ASSUME RecogniserOK, NEW body \in Texts
    PROVE  Longest(body, tag(body))
<1>1. PICK n \in Nat : /\ InOrder(aliases, DOMAIN by_alias, n)
                       /\ HitsAre(tag(body), by_alias, aliases, body, n)
  BY TagHits
<1>2. \A k \in 1 .. n : aliases[k] \in DOMAIN by_alias /\ aliases[k] \in Texts
  <2>1. DOMAIN by_alias \in SUBSET Texts
    BY RecogniserIs, DictsAre
  <2> QED
    BY <1>1, <2>1 DEF InOrder
<1>3. \A m, k \in tag(body) : Overlap(m, k) => m = k
  BY <1>1 DEF HitsAre
<1>4. ASSUME NEW m \in tag(body)
      PROVE  /\ SubSeq(body, m.start, m.end) \in DOMAIN by_alias
             /\ m.ticker = LineOf(SubSeq(body, m.start, m.end)).ticker
  <2>1. PICK j \in 1 .. n : \E p \in Found(aliases[j], body) : m = Span(by_alias, aliases[j], p)
    BY <1>1 DEF HitsAre
  <2>2. PICK p \in Found(aliases[j], body) : m = Span(by_alias, aliases[j], p)
    BY <2>1
  <2>3. PICK a \in DOMAIN by_alias : a = aliases[j] /\ a \in Texts
    BY <1>2
  <2>4. p \in Occurs(a, body)
    BY <2>3, SpansLieApart
  <2>5. m.start = p /\ m.end = p + Len(a) - 1 /\ m.ticker = by_alias[a].ticker
    BY <2>2, <2>3, SpanIs
  <2>6. SubSeq(body, m.start, m.end) = a
    BY <2>4, <2>5 DEF Occurs
  <2>7. by_alias[a].ticker = LineOf(a).ticker
    <3>1. by_alias[a].ticker = table[Max(NamedBy(table, a, Len(table)))].ticker
      BY RecogniserIs DEF Follows
    <3>2. DOMAIN table = 1 .. Len(table)
      BY RecogniserIs, LenProperties
    <3>3. LineOf(a) = table[Max(NamedBy(table, a, Len(table)))]
      BY <3>2 DEF LineOf, NamedBy
    <3> QED
      BY <3>1, <3>3
  <2> QED
    BY <2>5, <2>6, <2>7
<1>5. ASSUME NEW a \in DOMAIN by_alias \ {<<>>}, NEW p \in Occurs(a, body)
      PROVE  LET o == [start |-> p, end |-> p + Len(a) - 1]
             IN  \/ \E m \in tag(body) :
                       Overlap(m, o) /\ m.end - m.start >= o.end - o.start
                 \/ \E q \in Occurs(a, body) : q < p /\ p < q + Len(a)
  <2> DEFINE o == [start |-> p, end |-> p + Len(a) - 1]
  <2>1. PICK j \in 1 .. n : a = aliases[j]
    BY <1>1 DEF InOrder
  <2>2. a \in Texts
    BY <1>2, <2>1
  <2>3. /\ Occurs(a, body) \in SUBSET (1 .. Len(body) + 1) /\ Len(a) \in Nat \ {0}
        /\ ScanIs(Found(a, body), Occurs(a, body), Len(a), 1)
    BY <2>2, FoundIs
  <2>4. p \in Nat /\ p >= 1
    BY <2>3
  <2>5. CASE p \in Found(a, body)
    <3>1. PICK m \in tag(body) : /\ Overlap(m, Span(by_alias, a, p))
                                 /\ m.end - m.start >= Len(a) - 1
      BY <1>1, <2>1, <2>5 DEF HitsAre
    <3>2. o.end - o.start = Len(a) - 1
      BY <2>3, <2>4
    <3>3. Overlap(m, o)
      BY <3>1, SpanIs DEF Overlap
    <3> QED
      BY <3>1, <3>2, <3>3
  <2>6. CASE p \notin Found(a, body)
    <3>1. PICK x \in Found(a, body) : x < p /\ p < x + Len(a)
      BY <2>3, <2>4, <2>6 DEF ScanIs
    <3>2. x \in Occurs(a, body)
      BY <2>3 DEF ScanIs
    <3> QED
      BY <3>1, <3>2
  <2> QED
    BY <2>5, <2>6
<1> QED
  BY <1>3, <1>4, <1>5 DEF Longest

-----------------------------------------------------------------------------
(* Types. *)

LEMMA AppendIsSeq ==
    ASSUME NEW E, NEW s \in Seq(E), NEW e \in E
    PROVE  Append(s, e) \in Seq(E)
OBVIOUS

\* Entries and articles of a time are entries and articles of a later one.
LEMMA TypesGrow ==
    ASSUME NEW n \in Nat, NEW m \in Nat, n <= m
    PROVE  /\ Seq([art : Articles, at : 0 .. n]) \subseteq Seq([art : Articles, at : 0 .. m])
           /\ Seq([contribution : Scores, ts : 0 .. n])
                 \subseteq Seq([contribution : Scores, ts : 0 .. m])
           /\ Seq([body : Texts, s : Scores, at : 0 .. n])
                 \subseteq Seq([body : Texts, s : Scores, at : 0 .. m])
<1>1. 0 .. n \subseteq 0 .. m
  OBVIOUS
<1>2. PICK A, B : A = 0 .. n /\ B = 0 .. m /\ A \subseteq B
  BY <1>1
<1>3. /\ [art : Articles, at : A] \subseteq [art : Articles, at : B]
      /\ [contribution : Scores, ts : A] \subseteq [contribution : Scores, ts : B]
      /\ [body : Texts, s : Scores, at : A] \subseteq [body : Texts, s : Scores, at : B]
  BY <1>2
<1>4. \A S, T : S \subseteq T => Seq(S) \subseteq Seq(T)
  BY SeqMonotonic
<1> QED
  BY <1>2, <1>3, <1>4

\* What hydrate_body makes of an article is a text.
LEMMA BodiesAreTexts ==
    ASSUME NEW art \in Articles, NEW body \in Bodies(art)
    PROVE  body \in Texts
<1>1. art.body \in Seq(Chars)
  BY DEF Articles, Texts
<1>2. Len(art.body) \in Nat /\ \A i \in 1 .. Len(art.body) : art.body[i] \in Chars
  BY <1>1, LenProperties, ElementOfSeq
<1>3. PICK n \in 0 .. Len(art.body) : body = SubSeq(art.body, 1, n)
  BY <1>2 DEF Bodies
<1>4. \A i \in 1 .. n : art.body[i] \in Chars
  BY <1>2, <1>3
<1>5. SubSeq(art.body, 1, n) \in Seq(Chars)
  BY <1>2, <1>3, <1>4, SubSeqProperties
<1> QED
  BY <1>3, <1>5 DEF Texts

-----------------------------------------------------------------------------
(* The score board. *)

\* The vector of a ticker on a score board.
On(board, t) == IF t \in DOMAIN board THEN board[t] ELSE <<>>

LEMMA VectorIs == \A t : Vector(t) = On(entries, t)
BY DEF Vector, On

\* n times the same entry.
Times(n, e) == [i \in 1 .. n |-> e]

LEMMA TimesIs ==
    ASSUME NEW n \in Nat, NEW E, NEW e \in E
    PROVE  Repeats(Times(n, e), e, n, E)
<1>1. Times(n, e) \in Seq(E)
  BY IsASeq DEF Times
<1>2. Len(Times(n, e)) = n
  <2>1. DOMAIN Times(n, e) = 1 .. n
    BY DEF Times
  <2> QED
    BY <1>1, <2>1, LenProperties
<1> QED
  BY <1>1, <1>2 DEF Repeats, Times

\* What an article brings to the board.
Ingested(new, body, s, e, E) ==
    /\ \A t \in DOMAIN new : new[t] \in Seq(E)
    /\ \A t : IF s = 0 THEN On(new, t) = Vector(t)
                       ELSE On(new, t) = Vector(t) \o Times(Count(tag(body), t), e)

\* ingest appends one entry for each mention, and nothing if the score is zero.
LEMMA IngestIs ==
    ASSUME RecogniserOK, NEW body \in Texts, NEW s, NEW ts, NEW E,
           [contribution |-> s, ts |-> ts] \in E,
           \A t \in DOMAIN entries : entries[t] \in Seq(E)
    PROVE  Ingested(ingest(tag(body), s, ts), body, s, [contribution |-> s, ts |-> ts], E)
<1> PICK e : e = [contribution |-> s, ts |-> ts]
  OBVIOUS
<1> DEFINE new == ingest(tag(body), s, ts)
           T == {m.ticker : m \in tag(body)}
<1>1. CASE s = 0
  BY <1>1, VectorIs DEF ingest, Ingested
<1>2. CASE s # 0
  <2>1. /\ DOMAIN new = DOMAIN entries \cup T
        /\ \A t \in DOMAIN entries \cup T : new[t] = Vector(t) \o Times(Count(tag(body), t), e)
    BY <1>2 DEF ingest, Times
  <2> HIDE DEF new
  <2>2. ASSUME NEW t
        PROVE  /\ Vector(t) \o Times(Count(tag(body), t), e) \in Seq(E)
               /\ t \notin DOMAIN entries \cup T =>
                      Vector(t) \o Times(Count(tag(body), t), e) = <<>>
    <3>1. PICK c : c = Count(tag(body), t)
      OBVIOUS
    <3>2. c \in Nat /\ (t \notin T => c = 0)
      BY <3>1, CountIsNat
    <3>3. PICK more : more = Times(c, e)
      OBVIOUS
    <3>4. more \in Seq(E) /\ (c = 0 => more = <<>>)
      <4>1. Repeats(more, e, c, E)
        BY <3>2, <3>3, TimesIs
      <4> QED
        BY <4>1, EmptySeq DEF Repeats
    <3>5. PICK v : v = Vector(t)
      OBVIOUS
    <3>6. v \in Seq(E) /\ (t \notin DOMAIN entries => v = <<>>)
      BY <3>5, EmptySeq DEF Vector
    <3>7. v \o more \in Seq(E) /\ (v = <<>> /\ more = <<>> => v \o more = <<>>)
      BY <3>4, <3>6, ConcatProperties, ConcatEmptySeq
    <3>8. v \o more = Vector(t) \o Times(Count(tag(body), t), e)
      BY <3>1, <3>3, <3>5
    <3> HIDE DEF T
    <3> QED
      BY <3>2, <3>4, <3>6, <3>7, <3>8
  <2>3. \A t \in DOMAIN new : new[t] \in Seq(E)
    BY <2>1, <2>2
  <2>4. \A t : On(new, t) = Vector(t) \o Times(Count(tag(body), t), e)
    BY <2>1, <2>2 DEF On
  <2>5. Ingested(new, body, s, e, E)
    BY <1>2, <2>3, <2>4 DEF Ingested
  <2> QED
    BY <2>5 DEF new
<1> QED
  BY <1>1, <1>2

\* Articles to score, entries of the board and articles scored, up to a time.
Jobs(n)   == [art : Articles, at : 0 .. n]
Books(n)  == [contribution : Scores, ts : 0 .. n]
Judged(n) == [body : Texts, s : Scores, at : 0 .. n]

\* What the program begins with is well typed.
LEMMA InitIsTyped == NewsInit => NewsTypeOK
<1> SUFFICES ASSUME NewsInit PROVE NewsTypeOK
  OBVIOUS
<1>1. /\ 0 \in 0 .. Horizon /\ 0 \in 0 .. Sources /\ 0 \in 0 .. 0
  BY NewsAssumption
<1>2. <<>> \in Texts /\ (\A S : <<>> \in Seq(S))
  BY EmptySeq DEF Texts
<1>3. DOMAIN Empty = {}
  BY DEF Empty
<1> QED
  BY <1>1, <1>2, <1>3 DEF NewsInit, NewsTypeOK

\* An article that is scored.
LEMMA ScoreIs ==
    ASSUME NewsTypeOK, score_article
    PROVE  \E body \in Texts, s \in Scores, at \in 0 .. clock :
              /\ at = Head(todo).at /\ todo' = Tail(todo) /\ todo # <<>>
              /\ sa' = [body |-> body, mentions |-> tag(body)]
              /\ entries' = ingest(tag(body), s, at)
              /\ scored' = Append(scored, [body |-> body, s |-> s, at |-> at])
              /\ Ingested(entries', body, s, [contribution |-> s, ts |-> at], Books(clock))
<1>1. todo \in Seq(Jobs(clock)) /\ todo # <<>> /\ todo' = Tail(todo)
  BY DEF NewsTypeOK, Jobs, score_article
<1>2. PICK at : at = Head(todo).at
  OBVIOUS
<1>3. Head(todo) \in Jobs(clock)
  BY <1>1, HeadTailProperties
<1>4. Head(todo).art \in Articles /\ at \in 0 .. clock
  BY <1>2, <1>3 DEF Jobs
<1>5. PICK body \in Bodies(Head(todo).art) : \E s \in Scores :
         /\ sa' = [body |-> body, mentions |-> tag(body)]
         /\ entries' = ingest(sa'.mentions, s, Head(todo).at)
         /\ scored' = Append(scored, [body |-> body, s |-> s, at |-> Head(todo).at])
  BY DEF score_article
<1>6. PICK s \in Scores :
         /\ sa' = [body |-> body, mentions |-> tag(body)]
         /\ entries' = ingest(sa'.mentions, s, Head(todo).at)
         /\ scored' = Append(scored, [body |-> body, s |-> s, at |-> Head(todo).at])
  BY <1>5
<1>7. body \in Texts
  BY <1>4, BodiesAreTexts
<1>8. sa'.mentions = tag(body)
  BY <1>6
<1>9. entries' = ingest(tag(body), s, at)
  BY <1>2, <1>6, <1>8
<1>10. Ingested(entries', body, s, [contribution |-> s, ts |-> at], Books(clock))
  <2>1. [contribution |-> s, ts |-> at] \in Books(clock)
    BY <1>4 DEF Books
  <2>2. \A t \in DOMAIN entries : entries[t] \in Seq(Books(clock))
    BY DEF NewsTypeOK, Books
  <2>3. RecogniserOK
    BY DEF NewsTypeOK, RecogniserOK
  <2> QED
    BY <1>7, <1>9, <2>1, <2>2, <2>3, IngestIs
<1> QED
  BY <1>1, <1>2, <1>4, <1>6, <1>7, <1>9, <1>10

\* Every step of main keeps the types.
LEMMA StepIsTyped == NewsTypeOK /\ [NewsNext]_newsVars => NewsTypeOK'
<1> SUFFICES ASSUME NewsTypeOK, [NewsNext]_newsVars PROVE NewsTypeOK'
  OBVIOUS
<1>1. clock \in Nat /\ Horizon \in Nat /\ clock <= Horizon
  BY NewsAssumption DEF NewsTypeOK
<1>2. ASSUME clock' = clock + 1, clock < Horizon, UNCHANGED nerVars,
             mpc' \in {"head", "fetch", "score", "sleep", "end"},
             UNCHANGED <<g_run, workVars, entries, snap, scored>>
      PROVE  NewsTypeOK'
  <2>1. /\ Seq([art : Articles, at : 0 .. clock]) \subseteq Seq([art : Articles, at : 0 .. clock'])
        /\ Seq([contribution : Scores, ts : 0 .. clock])
              \subseteq Seq([contribution : Scores, ts : 0 .. clock'])
        /\ Seq([body : Texts, s : Scores, at : 0 .. clock])
              \subseteq Seq([body : Texts, s : Scores, at : 0 .. clock'])
    <3>1. PICK n \in Nat, m \in Nat : n = clock /\ m = clock' /\ n <= m
      BY <1>1, <1>2
    <3> QED
      BY <3>1, TypesGrow
  <2>2. clock' \in 0 .. Horizon /\ snap.at \in 0 .. clock'
    BY <1>1, <1>2 DEF NewsTypeOK
  <2> QED
    BY <1>2, <2>1, <2>2 DEF NewsTypeOK, nerVars, workVars
<1>3. CASE Elapse
  BY <1>2, <1>3 DEF Elapse, NewsTypeOK
<1>4. CASE Signal
  BY <1>4 DEF Signal, NewsTypeOK, nerVars, workVars
<1>5. CASE Head_
  <2>1. left' \in 0 .. Sources /\ mpc' \in {"head", "fetch", "score", "sleep", "end"}
    BY <1>5, NewsAssumption DEF Head_, NewsTypeOK
  <2> QED
    BY <1>5, <2>1 DEF Head_, NewsTypeOK, nerVars
<1>6. CASE fetch
  <2>1. left' \in 0 .. Sources /\ mpc' \in {"head", "fetch", "score", "sleep", "end"}
    <3>1. left \in 0 .. Sources /\ Sources \in Nat
      BY NewsAssumption DEF NewsTypeOK
    <3>2. left' = left \/ (left # 0 /\ left' = left - 1)
      BY <1>6 DEF fetch
    <3> QED
      BY <1>6, <3>1, <3>2 DEF fetch, NewsTypeOK
  <2>2. todo' \in Seq(Jobs(clock))
    <3>1. todo \in Seq(Jobs(clock))
      BY DEF NewsTypeOK, Jobs
    <3>2. CASE left = 0
      BY <1>6, <3>1, <3>2 DEF fetch
    <3>3. CASE left # 0
      <4>1. PICK f \in Feeds : todo' = todo \o [i \in DOMAIN f |-> [art |-> f[i], at |-> clock]]
        BY <1>6, <3>3 DEF fetch
      <4> DEFINE more == [i \in DOMAIN f |-> [art |-> f[i], at |-> clock]]
      <4>2. f \in Seq(Articles)
        BY NewsAssumption
      <4>3. DOMAIN f = 1 .. Len(f) /\ Len(f) \in Nat /\ \A i \in 1 .. Len(f) : f[i] \in Articles
        BY <4>2, LenProperties, ElementOfSeq
      <4>4. \A i \in 1 .. Len(f) : [art |-> f[i], at |-> clock] \in Jobs(clock)
        BY <1>1, <4>3 DEF Jobs
      <4>5. more \in Seq(Jobs(clock))
        <5>1. more = [i \in 1 .. Len(f) |-> [art |-> f[i], at |-> clock]]
          BY <4>3
        <5> QED
          BY <4>3, <4>4, <5>1, IsASeq
      <4> HIDE DEF more
      <4> QED
        BY <3>1, <4>1, <4>5, ConcatProperties DEF more
    <3> QED
      BY <3>2, <3>3
  <2> QED
    BY <1>6, <2>1, <2>2 DEF fetch, NewsTypeOK, nerVars, Jobs
<1>7. CASE score_article
  <2>1. PICK body \in Texts, s \in Scores, at \in 0 .. clock :
              /\ todo' = Tail(todo) /\ todo # <<>>
              /\ sa' = [body |-> body, mentions |-> tag(body)]
              /\ scored' = Append(scored, [body |-> body, s |-> s, at |-> at])
              /\ Ingested(entries', body, s, [contribution |-> s, ts |-> at], Books(clock))
    BY <1>7, ScoreIs
  <2>2. todo' \in Seq(Jobs(clock))
    <3>1. todo \in Seq(Jobs(clock))
      BY DEF NewsTypeOK, Jobs
    <3> QED
      BY <2>1, <3>1, HeadTailProperties
  <2>3. scored' \in Seq(Judged(clock))
    <3>1. scored \in Seq(Judged(clock)) /\ [body |-> body, s |-> s, at |-> at] \in Judged(clock)
      BY DEF NewsTypeOK, Judged
    <3> QED
      BY <2>1, <3>1, AppendIsSeq
  <2>4. \A t \in DOMAIN entries' : entries'[t] \in Seq(Books(clock))
    BY <2>1 DEF Ingested
  <2>5. sa'.body \in Texts
    BY <2>1
  <2>6. UNCHANGED <<nerVars, clock, g_run, mpc, left, snap>>
    BY <1>7 DEF score_article
  <2> QED
    BY <2>2, <2>3, <2>4, <2>5, <2>6 DEF NewsTypeOK, nerVars, Jobs, Books, Judged
<1>8. CASE snapshot
  <2>1. \A t \in DOMAIN entries' : entries'[t] \in Seq(Books(clock))
    <3>1. ASSUME NEW t \in DOMAIN entries PROVE Kept(entries[t]) \in Seq(Books(clock))
      <4>1. entries[t] \in Seq(Books(clock))
        BY DEF NewsTypeOK, Books
      <4>2. \A e \in Books(clock) : clock - e.ts \in Int
        BY <1>1 DEF Books
      <4> QED
        BY <4>1, <4>2, KeptWeighsTheSame, NewsAssumption
    <3> QED
      BY <1>8, <3>1 DEF snapshot
  <2>2. snap'.at \in 0 .. clock /\ mpc' = "sleep"
    BY <1>1, <1>8 DEF snapshot
  <2> QED
    BY <1>8, <2>1, <2>2 DEF snapshot, NewsTypeOK, nerVars, workVars, Books
<1>9. CASE WakeUp
  BY <1>2, <1>9 DEF WakeUp, NewsTypeOK
<1>10. CASE UNCHANGED newsVars
  BY <1>10 DEF newsVars, NewsTypeOK, nerVars, workVars
<1> QED
  BY <1>3, <1>4, <1>5, <1>6, <1>7, <1>8, <1>9, <1>10 DEF NewsNext

(* Every reachable state of the pipeline is well typed: the recogniser is one the
   table can load, and no article, entry or snapshot is dated later than now. *)
THEOREM NewsIsTypeCorrect == NewsSpec => []NewsTypeOK
BY InitIsTyped, StepIsTyped, PTL DEF NewsSpec

-----------------------------------------------------------------------------
(* Mentions. *)

LEMMA MentionsAre == MentionsAreLongest <=> Longest(sa.body, sa.mentions)
BY DEF MentionsAreLongest, Longest

\* Only scoring an article changes the mentions, and tag reports the longest.
LEMMA StepKeepsMentions ==
    NewsTypeOK /\ MentionsAreLongest /\ [NewsNext]_newsVars => MentionsAreLongest'
<1> SUFFICES ASSUME NewsTypeOK, MentionsAreLongest, [NewsNext]_newsVars
             PROVE  MentionsAreLongest'
  OBVIOUS
<1>1. CASE UNCHANGED <<nerVars, sa>>
  BY <1>1 DEF MentionsAreLongest, LineOf, nerVars
<1>2. CASE score_article
  <2>1. PICK body \in Texts : sa' = [body |-> body, mentions |-> tag(body)]
    BY <1>2, ScoreIs
  <2>2. RecogniserOK
    BY DEF NewsTypeOK, RecogniserOK
  <2>3. Longest(body, tag(body))
    BY <2>1, <2>2, TagIsLongest
  <2>4. PICK mentions : mentions = tag(body)
    OBVIOUS
  <2>5. Longest(body, mentions) /\ sa'.body = body /\ sa'.mentions = mentions
    BY <2>1, <2>3, <2>4
  <2>6. UNCHANGED nerVars
    BY <1>2 DEF score_article
  <2> QED
    BY <2>5, <2>6 DEF MentionsAreLongest, Longest, LineOf, nerVars
<1>3. Elapse \/ Signal \/ Head_ \/ fetch \/ snapshot \/ WakeUp \/ UNCHANGED newsVars
         => UNCHANGED <<nerVars, sa>>
  BY DEF Elapse, Signal, Head_, fetch, snapshot, WakeUp, newsVars, workVars
<1> QED
  BY <1>1, <1>2, <1>3 DEF NewsNext

\* Before the first article there is no text to find anything in.
LEMMA InitHasMentions == NewsInit => MentionsAreLongest
<1> SUFFICES ASSUME NewsInit PROVE MentionsAreLongest
  OBVIOUS
<1>1. NewsTypeOK
  BY InitIsTyped
<1>2. sa.body = <<>> /\ sa.mentions = {}
  BY DEF NewsInit
<1>3. ASSUME NEW a \in DOMAIN by_alias \ {<<>>} PROVE Occurs(a, <<>>) = {}
  <2>1. a \in Texts
    <3>1. RecogniserOK
      BY <1>1 DEF NewsTypeOK, RecogniserOK
    <3> QED
      BY <3>1, RecogniserIs, DictsAre
  <2>2. Len(a) \in Nat \ {0}
    BY <2>1, FoundIs, EmptySeq DEF Texts
  <2>3. Len(<<>>) - Len(a) + 1 <= 0 /\ Len(<<>>) - Len(a) + 1 \in Int
    BY <2>2
  <2> QED
    BY <2>3 DEF Occurs
<1>4. Longest(<<>>, {})
  BY <1>3 DEF Longest
<1> QED
  BY <1>2, <1>4, MentionsAre

(* "a longest-match rule is applied" (ner.hpp:14): of every article scored, in
   every order of the aliases and the hash table that the code allows, the
   mentions lie apart, are names of their company by the last line that has
   them, and no name is passed over but for one that is no shorter. *)
THEOREM MentionsStayLongest == NewsSpec => []MentionsAreLongest
BY InitIsTyped, StepIsTyped, InitHasMentions, StepKeepsMentions, PTL DEF NewsSpec

-----------------------------------------------------------------------------
(* The history. *)

\* The entries a vector may ever hold.
AllBooks == [contribution : Scores, ts : Nat]

\* w does not count what score() drops at a moment.
Forgets(w, at) == \A e \in AllBooks : at - e.ts > Cutoff => w[e] = 0

\* What an article brought a ticker, weighed by w.
Booked(dict, order, x, t, w) ==
    IF x.s = 0 THEN 0
    ELSE w[[contribution |-> x.s, ts |-> x.at]] * Count(TagOf(dict, order, x.body), t)

\* What each article scored brought a ticker.
Bookings(dict, order, seen, t, w) ==
    [i \in DOMAIN seen |-> Booked(dict, order, seen[i], t, w)]

\* The board holds what all articles ever scored brought, by every way to weigh it
\* that forgets what is too old at a moment.
Agrees(dict, order, board, seen, at) ==
    \A t : \A w \in [AllBooks -> Int] :
        Forgets(w, at) =>
            Weight(On(board, t), w) = Total(Bookings(dict, order, seen, t, w))

\* What each article scored is worth to a ticker at a moment.
Reference(dict, order, seen, at, t) ==
    [i \in DOMAIN seen |-> Worth(seen[i].s, seen[i].at, at)
                               * Count(TagOf(dict, order, seen[i].body), t)]

\* The board agrees with the history as far back as the last snapshot looked.
Ledger == Agrees(by_alias, aliases, entries, scored, snap.at)

\* Nothing on the board was too old for the last snapshot, and nothing fetched
\* and not yet scored is older than it.
Fresh ==
    /\ \A t \in DOMAIN entries : \A i \in DOMAIN entries[t] :
          snap.at - entries[t][i].ts <= Cutoff
    /\ \A i \in DOMAIN todo : todo[i].at >= snap.at

\* After a snapshot its scores are those of the history, for every ticker there is.
Referred ==
    mpc = "sleep" =>
        \A t : IF t \in DOMAIN snap.scores
               THEN snap.scores[t] = Total(Reference(by_alias, aliases, scored, snap.at, t))
               ELSE Total(Reference(by_alias, aliases, scored, snap.at, t)) = 0

\* The inductive invariant.
HistoryOK == NewsTypeOK /\ Ledger /\ Fresh /\ Referred

LEMMA BooksGrow ==
    ASSUME NEW n \in Nat
    PROVE  Seq(Books(n)) \subseteq Seq(AllBooks)
<1>1. Books(n) \subseteq AllBooks
  BY DEF Books, AllBooks
<1> QED
  BY <1>1, SeqMonotonic

\* The bookings are numbers.
LEMMA BookingsAre ==
    ASSUME RecogniserOK, NEW n \in Nat, NEW seen \in Seq(Judged(n)),
           NEW t, NEW w \in [AllBooks -> Int]
    PROVE  /\ Numbers(Bookings(by_alias, aliases, seen, t, w), Len(seen))
           /\ Len(seen) \in Nat
           /\ \A x \in Judged(n) : /\ Booked(by_alias, aliases, x, t, w) \in Int
                                   /\ Count(TagOf(by_alias, aliases, x.body), t) \in Nat
<1>1. /\ Len(seen) \in Nat /\ DOMAIN seen = 1 .. Len(seen)
      /\ \A i \in 1 .. Len(seen) : seen[i] \in Judged(n)
  BY LenProperties, ElementOfSeq
<1>2. ASSUME NEW x \in Judged(n)
      PROVE  /\ Booked(by_alias, aliases, x, t, w) \in Int
             /\ Count(TagOf(by_alias, aliases, x.body), t) \in Nat
  <2>1. x.body \in Texts /\ x.s \in Scores /\ x.at \in Nat
    BY DEF Judged
  <2>2. Count(TagOf(by_alias, aliases, x.body), t) \in Nat
    <3>1. Count(tag(x.body), t) \in Nat
      BY <2>1, CountIsNat
    <3> QED
      BY <3>1, TagIsTagOf
  <2>3. w[[contribution |-> x.s, ts |-> x.at]] \in Int
    BY <2>1 DEF AllBooks
  <2> QED
    BY <2>2, <2>3 DEF Booked
<1>3. Numbers(Bookings(by_alias, aliases, seen, t, w), Len(seen))
  BY <1>1, <1>2 DEF Numbers, Bookings
<1> QED
  BY <1>1, <1>2, <1>3

\* An article more is a booking more.
LEMMA BookOneMore ==
    ASSUME RecogniserOK, NEW n \in Nat, NEW seen \in Seq(Judged(n)), NEW x \in Judged(n),
           NEW t, NEW w \in [AllBooks -> Int]
    PROVE  Total(Bookings(by_alias, aliases, Append(seen, x), t, w))
               = Total(Bookings(by_alias, aliases, seen, t, w))
                     + Booked(by_alias, aliases, x, t, w)
<1> PICK c : c = Booked(by_alias, aliases, x, t, w)
  OBVIOUS
<1> PICK l : l = Len(seen)
  OBVIOUS
<1> PICK m : m = l + 1
  OBVIOUS
<1> PICK more : more = Append(seen, x)
  OBVIOUS
<1>1. /\ more \in Seq(Judged(n)) /\ Len(more) = m /\ l \in Nat /\ m \in Nat /\ l <= m
      /\ \A i \in 1 .. l : more[i] = seen[i]
      /\ more[m] = x
  BY AppendProperties, LenProperties
<1> DEFINE a == Bookings(by_alias, aliases, seen, t, w)
           b == Bookings(by_alias, aliases, more, t, w)
<1>2. Numbers(a, l) /\ Numbers(b, m) /\ c \in Int
  BY <1>1, BookingsAre
<1>3. Extends(b, m, a, l, c)
  <2>1. DOMAIN more = 1 .. m /\ DOMAIN seen = 1 .. l
    BY <1>1, LenProperties
  <2>2. \A i \in 1 .. l : i \in 1 .. m
    BY <1>1
  <2>3. \A i \in 1 .. l : b[i] = a[i]
    BY <1>1, <2>1, <2>2 DEF Bookings
  <2>4. \A i \in l + 1 .. m : i = m /\ i \in 1 .. m
    BY <1>1
  <2>5. \A i \in l + 1 .. m : b[i] = c
    BY <1>1, <2>1, <2>4 DEF Bookings
  <2> QED
    BY <2>3, <2>5 DEF Extends
<1> HIDE DEF a, b
<1>4. Total(b) = Total(a) + (m - l) * c
  BY <1>1, <1>2, <1>3, TotalExtends
<1>5. Total(a) \in Int
  BY <1>1, <1>2, TotalIsInt
<1>6. (m - l) * c = c
  <2>1. m - l = 1
    BY <1>1
  <2> QED
    BY <1>2, <2>1
<1> QED
  BY <1>4, <1>5, <1>6 DEF a, b

\* An empty board agrees with an empty history.
LEMMA InitHasHistory == NewsInit => HistoryOK
<1> SUFFICES ASSUME NewsInit PROVE HistoryOK
  OBVIOUS
<1>1. NewsTypeOK
  BY InitIsTyped
<1>2. entries = Empty /\ scored = <<>> /\ todo = <<>> /\ mpc = "head"
  BY DEF NewsInit
<1>3. Fresh /\ Referred
  BY <1>2 DEF Fresh, Referred, Empty
<1>4. Ledger
  <2> SUFFICES ASSUME NEW t, NEW w \in [AllBooks -> Int]
               PROVE  Weight(On(entries, t), w)
                          = Total(Bookings(by_alias, aliases, scored, t, w))
    BY DEF Ledger, Agrees
  <2>1. On(entries, t) = <<>>
    BY <1>2 DEF On, Empty
  <2>2. PICK v : v = <<>> /\ v \in Seq(AllBooks)
    BY EmptySeq
  <2>3. Weight(v, w) = 0
    BY <2>2, WeightIs
  <2>4. Total(Bookings(by_alias, aliases, scored, t, w)) = 0
    <3> DEFINE b == Bookings(by_alias, aliases, scored, t, w)
    <3>1. DOMAIN b = 1 .. 0 /\ \A i \in 1 .. 0 : b[i] \in Int
      BY <1>2 DEF Bookings
    <3>2. PICK n \in Nat : n = 0
      OBVIOUS
    <3>3. DOMAIN b = 1 .. n /\ \A i \in 1 .. n : b[i] \in Int
      BY <3>1, <3>2
    <3> HIDE DEF b
    <3>4. PICK p \in [0 .. n -> Int] : p[0] = 0 /\ Total(b) = p[n]
      BY <3>3, TotalIs
    <3> QED
      BY <3>2, <3>4 DEF b
  <2> QED
    BY <2>1, <2>2, <2>3, <2>4
<1> QED
  BY <1>1, <1>3, <1>4 DEF HistoryOK

\* The types, as the proofs use them.
LEMMA TypesAre ==
    ASSUME NewsTypeOK
    PROVE  /\ RecogniserOK /\ clock \in Nat /\ snap.at \in Nat /\ snap.at <= clock
           /\ Cutoff \in Nat
           /\ todo \in Seq(Jobs(clock)) /\ scored \in Seq(Judged(clock))
           /\ \A t : Vector(t) \in Seq(Books(clock)) /\ Vector(t) \in Seq(AllBooks)
<1>1. clock \in Nat /\ snap.at \in Nat /\ snap.at <= clock /\ Cutoff \in Nat
  BY NewsAssumption DEF NewsTypeOK
<1>2. ASSUME NEW t PROVE Vector(t) \in Seq(Books(clock)) /\ Vector(t) \in Seq(AllBooks)
  <2>1. Vector(t) \in Seq(Books(clock))
    BY EmptySeq DEF NewsTypeOK, Vector, Books
  <2> QED
    BY <1>1, <2>1, BooksGrow
<1> QED
  BY <1>1, <1>2 DEF NewsTypeOK, RecogniserOK, Jobs, Judged

\* Scoring an article books it.
LEMMA ScoreKeepsHistory == HistoryOK /\ score_article => Ledger' /\ Fresh' /\ Referred'
<1> SUFFICES ASSUME HistoryOK, score_article PROVE Ledger' /\ Fresh' /\ Referred'
  OBVIOUS
<1> USE DEF HistoryOK
<1>1. /\ RecogniserOK /\ clock \in Nat /\ snap.at \in Nat /\ snap.at <= clock
      /\ todo \in Seq(Jobs(clock)) /\ scored \in Seq(Judged(clock)) /\ Cutoff \in Nat
  BY TypesAre
<1>2. PICK body \in Texts, s \in Scores, at \in 0 .. clock :
         /\ at = Head(todo).at /\ todo' = Tail(todo) /\ todo # <<>>
         /\ scored' = Append(scored, [body |-> body, s |-> s, at |-> at])
         /\ Ingested(entries', body, s, [contribution |-> s, ts |-> at], Books(clock))
  BY ScoreIs
<1>3. UNCHANGED <<nerVars, clock, mpc, snap>> /\ mpc = "score"
  BY DEF score_article
<1>4. PICK e, x : e = [contribution |-> s, ts |-> at] /\ x = [body |-> body, s |-> s, at |-> at]
  OBVIOUS
<1>5. e \in AllBooks /\ x \in Judged(clock)
  BY <1>1, <1>4 DEF AllBooks, Judged
<1>6. Ledger'
  <2> SUFFICES ASSUME NEW t, NEW w \in [AllBooks -> Int], Forgets(w, snap.at)
               PROVE  Weight(On(entries', t), w)
                          = Total(Bookings(by_alias, aliases, scored', t, w))
    BY <1>3 DEF Ledger, Agrees, nerVars
  <2>1. Weight(Vector(t), w) = Total(Bookings(by_alias, aliases, scored, t, w))
    BY VectorIs DEF Ledger, Agrees
  <2>2. Total(Bookings(by_alias, aliases, scored', t, w))
            = Total(Bookings(by_alias, aliases, scored, t, w))
                  + Booked(by_alias, aliases, x, t, w)
    BY <1>1, <1>2, <1>4, <1>5, BookOneMore
  <2>3. PICK v : v = Vector(t)
    OBVIOUS
  <2>4. v \in Seq(AllBooks) /\ Weight(v, w) \in Int
    <3>1. v \in Seq(AllBooks)
      BY <2>3, TypesAre
    <3> QED
      BY <3>1, WeightIs
  <2>5. CASE s = 0
    <3>1. On(entries', t) = v /\ Booked(by_alias, aliases, x, t, w) = 0
      BY <1>2, <1>4, <2>3, <2>5 DEF Ingested, Booked
    <3> QED
      BY <2>1, <2>2, <2>3, <2>4, <3>1
  <2>6. CASE s # 0
    <3>1. PICK c : c = Count(tag(body), t)
      OBVIOUS
    <3>2. c \in Nat /\ c = Count(TagOf(by_alias, aliases, body), t)
      BY <1>1, <3>1, CountIsNat, TagIsTagOf
    <3>3. On(entries', t) = v \o Times(c, e)
      BY <1>2, <1>4, <2>3, <2>6, <3>1 DEF Ingested
    <3>4. Booked(by_alias, aliases, x, t, w) = w[e] * c
      BY <1>4, <2>6, <3>2 DEF Booked
    <3>5. PICK more : more = Times(c, e)
      OBVIOUS
    <3>6. Repeats(more, e, c, AllBooks)
      BY <1>5, <3>2, <3>5, TimesIs
    <3>7. Weight(v \o more, w) = Weight(v, w) + c * w[e]
      <4>1. PICK E : E = AllBooks
        OBVIOUS
      <4>2. e \in E /\ v \in Seq(E) /\ w \in [E -> Int] /\ Repeats(more, e, c, E)
        BY <1>5, <2>4, <3>6, <4>1
      <4> QED
        BY <3>2, <4>2, WeightOfMore
    <3>8. w[e] \in Int
      BY <1>5
    <3>9. c * w[e] = w[e] * c
      BY <3>2, <3>8
    <3> QED
      BY <2>1, <2>2, <2>3, <3>3, <3>4, <3>5, <3>7, <3>9
  <2> QED
    BY <2>5, <2>6
<1>7. Fresh'
  <2>1. at >= snap.at
    <3>1. Head(todo) = todo[1] /\ 1 \in DOMAIN todo
      BY <1>1, <1>2, HeadTailProperties, LenProperties, EmptySeq
    <3> QED
      BY <1>2, <3>1 DEF Fresh
  <2>2. \A i \in DOMAIN Tail(todo) : Tail(todo)[i].at >= snap.at
    <3>1. /\ Len(todo) \in Nat \ {0} /\ DOMAIN todo = 1 .. Len(todo)
          /\ Len(Tail(todo)) = Len(todo) - 1 /\ DOMAIN Tail(todo) = 1 .. Len(todo) - 1
          /\ \A i \in 1 .. Len(todo) - 1 : Tail(todo)[i] = todo[i + 1]
      BY <1>1, <1>2, HeadTailProperties, LenProperties, EmptySeq
    <3> SUFFICES ASSUME NEW i \in 1 .. Len(todo) - 1 PROVE Tail(todo)[i].at >= snap.at
      BY <3>1
    <3>2. i + 1 \in DOMAIN todo
      BY <3>1
    <3> QED
      BY <3>1, <3>2 DEF Fresh
  <2>3. ASSUME NEW t \in DOMAIN entries', NEW i \in DOMAIN entries'[t]
        PROVE  snap.at - entries'[t][i].ts <= Cutoff
    <3>1. PICK v, c, more, on : /\ v = Vector(t) /\ c = Count(tag(body), t)
                                /\ more = Times(c, e) /\ on = entries'[t]
      OBVIOUS
    <3>2. v \in Seq(AllBooks) /\ \A k \in DOMAIN v : snap.at - v[k].ts <= Cutoff
      <4>1. v \in Seq(AllBooks)
        BY <3>1, TypesAre
      <4>2. \A k \in DOMAIN v : snap.at - v[k].ts <= Cutoff
        BY <3>1 DEF Fresh, Vector
      <4> QED
        BY <4>1, <4>2
    <3>3. c \in Nat /\ Repeats(more, e, c, AllBooks)
      BY <1>1, <1>5, <3>1, CountIsNat, TimesIs
    <3>4. on = v \/ on = v \o more
      BY <1>2, <1>4, <3>1 DEF Ingested, On
    <3>5. e.ts = at /\ snap.at - e.ts <= Cutoff
      <4>1. at \in Nat
        BY <1>1
      <4> QED
        BY <1>1, <1>4, <2>1, <4>1
    <3>6. CASE on = v \o more
      <4>1. /\ i \in 1 .. Len(v) + Len(more) /\ Len(v) \in Nat /\ Len(more) \in Nat
            /\ on[i] = IF i <= Len(v) THEN v[i] ELSE more[i - Len(v)]
        BY <2>3, <3>1, <3>2, <3>3, <3>6, ConcatProperties, LenProperties DEF Repeats
      <4>2. CASE i <= Len(v)
        <5>1. i \in DOMAIN v /\ on[i] = v[i]
          BY <3>2, <4>1, <4>2, LenProperties
        <5> QED
          BY <3>1, <3>2, <5>1
      <4>3. CASE ~ (i <= Len(v))
        <5>1. i - Len(v) \in 1 .. c
          BY <3>3, <4>1, <4>3 DEF Repeats
        <5>2. on[i] = e
          BY <3>3, <4>1, <4>3, <5>1 DEF Repeats
        <5> QED
          BY <3>1, <3>5, <5>2
      <4> QED
        BY <4>2, <4>3
    <3>7. CASE on = v
      BY <2>3, <3>1, <3>2, <3>7
    <3> QED
      BY <3>4, <3>6, <3>7
  <2> QED
    BY <1>2, <1>3, <2>2, <2>3 DEF Fresh
<1>8. Referred'
  BY <1>3 DEF Referred
<1> QED
  BY <1>6, <1>7, <1>8

\* What an entry is worth at a moment; what comes later does not count.
WorthAt(at) ==
    [e \in AllBooks |-> IF e.ts > at THEN 0 ELSE Worth(e.contribution, e.ts, at)]

\* It is a way to weigh that forgets what is too old.
LEMMA WorthIs ==
    ASSUME NEW at \in Nat
    PROVE  /\ WorthAt(at) \in [AllBooks -> Int]
           /\ Forgets(WorthAt(at), at)
           /\ \A ts \in 0 .. at : Worth(0, ts, at) = 0
<1>1. Cutoff \in Nat /\ Decay \in [0 .. Cutoff -> Nat] /\ Scores \subseteq Int
  BY NewsAssumption
<1>2. ASSUME NEW c \in Int, NEW ts \in Nat, ts <= at
      PROVE  Worth(c, ts, at) \in Int /\ (at - ts > Cutoff \/ c = 0 => Worth(c, ts, at) = 0)
  <2>1. CASE at - ts > Cutoff
    BY <2>1 DEF Worth
  <2>2. CASE ~ (at - ts > Cutoff)
    <3>1. Decay[at - ts] \in Nat
      BY <1>1, <1>2, <2>2
    <3>2. PICK d \in Nat : d = Decay[at - ts]
      BY <3>1
    <3>3. c * d \in Int /\ (c = 0 => c * d = 0)
      OBVIOUS
    <3> QED
      BY <2>2, <3>2, <3>3 DEF Worth
  <2> QED
    BY <2>1, <2>2
<1>3. ASSUME NEW e \in AllBooks
      PROVE  /\ WorthAt(at)[e] \in Int
             /\ at - e.ts > Cutoff => WorthAt(at)[e] = 0
  <2>1. e.contribution \in Int /\ e.ts \in Nat
    BY <1>1 DEF AllBooks
  <2>2. PICK c \in Int, ts \in Nat : c = e.contribution /\ ts = e.ts
    BY <2>1
  <2>3. WorthAt(at)[e] = IF ts > at THEN 0 ELSE Worth(c, ts, at)
    BY <2>2 DEF WorthAt
  <2>4. CASE ts > at
    <3>1. ~ (at - ts > Cutoff)
      BY <1>1, <2>4
    <3> QED
      BY <2>2, <2>3, <2>4, <3>1
  <2>5. CASE ts <= at
    <3>1. /\ Worth(c, ts, at) \in Int
          /\ at - ts > Cutoff => Worth(c, ts, at) = 0
      BY <1>2, <2>5
    <3>2. WorthAt(at)[e] = Worth(c, ts, at)
      BY <2>3, <2>5
    <3> QED
      BY <2>2, <3>1, <3>2
  <2> QED
    BY <2>4, <2>5
<1>4. WorthAt(at) \in [AllBooks -> Int]
  BY <1>3 DEF WorthAt
<1>5. Forgets(WorthAt(at), at)
  BY <1>3 DEF Forgets
<1>6. \A ts \in 0 .. at : Worth(0, ts, at) = 0
  BY <1>2
<1> QED
  BY <1>4, <1>5, <1>6

\* A snapshot drops nothing that it, or a later one, would need.
LEMMA SnapshotKeepsHistory == HistoryOK /\ snapshot => Ledger' /\ Fresh' /\ Referred'
<1> SUFFICES ASSUME HistoryOK, snapshot PROVE Ledger' /\ Fresh' /\ Referred'
  OBVIOUS
<1> USE DEF HistoryOK
<1>1. /\ RecogniserOK /\ clock \in Nat /\ snap.at \in Nat /\ snap.at <= clock
      /\ scored \in Seq(Judged(clock)) /\ Cutoff \in Nat
      /\ \A t : Vector(t) \in Seq(Books(clock)) /\ Vector(t) \in Seq(AllBooks)
  BY TypesAre
<1>2. /\ todo = <<>> /\ todo' = todo /\ mpc' = "sleep" /\ UNCHANGED <<nerVars, clock, scored>>
      /\ snap'.at = clock
      /\ snap'.scores = [t \in DOMAIN entries |-> SumOf(entries[t])]
      /\ entries' = [t \in DOMAIN entries |-> Kept(entries[t])]
  BY DEF snapshot, workVars
<1>3. ASSUME NEW w \in [AllBooks -> Int], Forgets(w, clock) PROVE Forgets(w, snap.at)
  <2> SUFFICES ASSUME NEW e \in AllBooks, snap.at - e.ts > Cutoff PROVE w[e] = 0
    BY DEF Forgets
  <2>1. e.ts \in Nat
    BY DEF AllBooks
  <2>2. clock - e.ts > Cutoff
    BY <1>1, <2>1
  <2> QED
    BY <1>3, <2>2 DEF Forgets
<1>4. ASSUME NEW t, NEW w \in [AllBooks -> Int], Forgets(w, clock)
      PROVE  Weight(On(entries, t), w) = Total(Bookings(by_alias, aliases, scored, t, w))
  BY <1>3, <1>4 DEF Ledger, Agrees
<1>5. ASSUME NEW v \in Seq(AllBooks)
      PROVE  /\ \A i \in DOMAIN Kept(v) : Recent(Kept(v)[i])
             /\ \A w \in [AllBooks -> Int] :
                   Forgets(w, clock) => Weight(Kept(v), w) = Weight(v, w)
  <2>1. PICK E : E = AllBooks
    OBVIOUS
  <2>2. (\A e \in E : clock - e.ts \in Int) /\ v \in Seq(E)
    BY <1>1, <2>1 DEF AllBooks
  <2>3. /\ \A i \in DOMAIN Kept(v) : Recent(Kept(v)[i])
        /\ \A w \in [E -> Int] : (\A e \in E : ~ Recent(e) => w[e] = 0) =>
              Weight(Kept(v), w) = Weight(v, w)
    BY <1>1, <2>2, KeptWeighsTheSame
  <2>4. \A e \in E : ~ Recent(e) <=> clock - e.ts > Cutoff
    BY <1>1, <2>2 DEF Recent
  <2> QED
    BY <2>1, <2>3, <2>4 DEF Forgets
<1>6. Ledger'
  <2> SUFFICES ASSUME NEW t, NEW w \in [AllBooks -> Int], Forgets(w, clock)
               PROVE  Weight(On(entries', t), w)
                          = Total(Bookings(by_alias, aliases, scored, t, w))
    BY <1>2 DEF Ledger, Agrees, nerVars
  <2>1. CASE t \in DOMAIN entries
    <3>1. PICK v \in Seq(AllBooks) : v = Vector(t)
      BY <1>1
    <3>2. On(entries, t) = v /\ On(entries', t) = Kept(v)
      BY <1>2, <2>1, <3>1 DEF On, Vector
    <3>3. Weight(Kept(v), w) = Weight(v, w)
      BY <1>5
    <3> QED
      BY <1>4, <3>2, <3>3
  <2>2. CASE t \notin DOMAIN entries
    <3>1. On(entries', t) = On(entries, t)
      BY <1>2, <2>2 DEF On
    <3> QED
      BY <1>4, <3>1
  <2> QED
    BY <2>1, <2>2
<1>7. Fresh'
  <2>1. ASSUME NEW t \in DOMAIN entries, NEW i \in DOMAIN Kept(entries[t])
        PROVE  clock - Kept(entries[t])[i].ts <= Cutoff
    <3>1. PICK v \in Seq(AllBooks) : v = entries[t]
      BY <1>1 DEF Vector
    <3> QED
      BY <1>5, <2>1, <3>1 DEF Recent
  <2> QED
    BY <1>2, <2>1 DEF Fresh
<1>8. Referred'
  <2> DEFINE w == WorthAt(clock)
             ref(t) == Reference(by_alias, aliases, scored, clock, t)
  <2>1. w \in [AllBooks -> Int] /\ Forgets(w, clock)
    BY <1>1, WorthIs
  <2>2. ASSUME NEW t PROVE Bookings(by_alias, aliases, scored, t, w) = ref(t)
    <3>1. ASSUME NEW i \in DOMAIN scored
          PROVE  Booked(by_alias, aliases, scored[i], t, w)
                     = Worth(scored[i].s, scored[i].at, clock)
                           * Count(TagOf(by_alias, aliases, scored[i].body), t)
      <4>1. PICK x \in Judged(clock) : x = scored[i]
        BY <1>1
      <4>2. x.s \in Scores /\ x.at \in 0 .. clock
        BY DEF Judged
      <4>3. PICK c \in Nat : c = Count(TagOf(by_alias, aliases, x.body), t)
        BY <1>1, <2>1, BookingsAre
      <4>4. CASE x.s = 0
        <5>1. Worth(x.s, x.at, clock) = 0
          BY <1>1, <4>2, <4>4, WorthIs
        <5>2. 0 * c = 0
          OBVIOUS
        <5> QED
          BY <4>1, <4>3, <4>4, <5>1, <5>2 DEF Booked
      <4>5. CASE x.s # 0
        <5>1. w[[contribution |-> x.s, ts |-> x.at]] = Worth(x.s, x.at, clock)
          <6>1. [contribution |-> x.s, ts |-> x.at] \in AllBooks /\ ~ (x.at > clock)
            BY <1>1, <4>2 DEF AllBooks
          <6> QED
            BY <6>1 DEF WorthAt
        <5> QED
          BY <4>1, <4>5, <5>1 DEF Booked
      <4> QED
        BY <4>4, <4>5
    <3> HIDE DEF w
    <3> QED
      BY <3>1 DEF Bookings, Reference
  <2>3. ASSUME NEW t PROVE Weight(On(entries, t), w) = Total(ref(t))
    <3> HIDE DEF w, ref
    <3> QED
      BY <1>4, <2>1, <2>2
  <2>4. ASSUME NEW t \in DOMAIN entries PROVE SumOf(entries[t]) = Weight(On(entries, t), w)
    <3>1. PICK v \in Seq(Books(clock)) : v = entries[t] /\ v = On(entries, t)
      BY <1>1 DEF Vector, On
    <3>2. ASSUME NEW i \in DOMAIN v PROVE w[v[i]] = Worth(v[i].contribution, v[i].ts, clock)
      <4>1. PICK e \in Books(clock) : e = v[i]
        BY <3>2
      <4>2. e \in AllBooks /\ ~ (e.ts > clock)
        BY <1>1 DEF Books, AllBooks
      <4> QED
        BY <4>1, <4>2 DEF WorthAt
    <3> HIDE DEF w
    <3> QED
      BY <3>1, <3>2 DEF SumOf, Weight
  <2>5. ASSUME NEW t, t \notin DOMAIN entries PROVE Weight(On(entries, t), w) = 0
    <3>1. PICK v : v = On(entries, t) /\ v = <<>> /\ v \in Seq(AllBooks)
      BY <2>5, EmptySeq DEF On
    <3> HIDE DEF w
    <3> QED
      BY <2>1, <3>1, WeightIs
  <2>6. ASSUME NEW t
        PROVE  IF t \in DOMAIN entries THEN SumOf(entries[t]) = Total(ref(t))
                                       ELSE Total(ref(t)) = 0
    <3> HIDE DEF w, ref
    <3> QED
      BY <2>3, <2>4, <2>5
  <2> QED
    BY <1>2, <2>6 DEF Referred, nerVars
<1> QED
  BY <1>6, <1>7, <1>8

\* Every step of main keeps the invariant; what it does not touch stays as it is.
LEMMA StepKeepsHistory == HistoryOK /\ [NewsNext]_newsVars => HistoryOK'
<1> SUFFICES ASSUME HistoryOK, [NewsNext]_newsVars PROVE HistoryOK'
  OBVIOUS
<1>1. NewsTypeOK'
  BY StepIsTyped DEF HistoryOK
<1>2. ASSUME UNCHANGED <<nerVars, entries, snap, scored>>
      PROVE  /\ Ledger'
             /\ todo' = todo => Fresh'
             /\ mpc' = mpc \/ mpc' # "sleep" => Referred'
  BY <1>2 DEF HistoryOK, Ledger, Fresh, Referred, nerVars
<1>3. CASE Elapse \/ Signal \/ Head_ \/ WakeUp \/ UNCHANGED newsVars
  <2>1. /\ UNCHANGED <<nerVars, entries, snap, scored, todo>>
        /\ mpc' = mpc \/ mpc' # "sleep"
    BY <1>3 DEF Elapse, Signal, Head_, WakeUp, newsVars, workVars
  <2> QED
    BY <1>1, <1>2, <2>1 DEF HistoryOK
<1>4. CASE fetch
  <2>1. /\ UNCHANGED <<nerVars, entries, snap, scored>>
        /\ mpc' # "sleep"
    BY <1>4 DEF fetch
  <2>2. Fresh'
    <3>1. /\ snap.at <= clock /\ clock \in Nat /\ snap.at \in Nat /\ todo \in Seq(Jobs(clock))
      BY TypesAre DEF HistoryOK
    <3>2. CASE todo' = todo
      BY <1>2, <2>1, <3>2
    <3>3. CASE \E f \in Feeds : todo' = todo \o [i \in DOMAIN f |-> [art |-> f[i], at |-> clock]]
      <4>1. PICK f \in Feeds : todo' = todo \o [i \in DOMAIN f |-> [art |-> f[i], at |-> clock]]
        BY <3>3
      <4> DEFINE more == [i \in DOMAIN f |-> [art |-> f[i], at |-> clock]]
      <4>2. f \in Seq(Articles)
        BY NewsAssumption
      <4>3. DOMAIN f = 1 .. Len(f) /\ Len(f) \in Nat /\ \A i \in 1 .. Len(f) : f[i] \in Articles
        BY <4>2, LenProperties, ElementOfSeq
      <4>4. \A i \in 1 .. Len(f) : [art |-> f[i], at |-> clock] \in Jobs(clock)
        BY <3>1, <4>3 DEF Jobs
      <4>5. /\ more \in Seq(Jobs(clock)) /\ Len(more) = Len(f)
            /\ \A i \in 1 .. Len(f) : more[i].at = clock
        <5>1. more = [i \in 1 .. Len(f) |-> [art |-> f[i], at |-> clock]]
          BY <4>3
        <5>2. more \in Seq(Jobs(clock))
          BY <4>3, <4>4, <5>1, IsASeq
        <5>3. DOMAIN more = 1 .. Len(f) /\ \A i \in 1 .. Len(f) : more[i].at = clock
          BY <5>1
        <5> HIDE DEF more
        <5> QED
          BY <4>3, <5>2, <5>3, LenProperties
      <4>6. todo' = todo \o more
        BY <4>1
      <4> HIDE DEF more
      <4>7. ASSUME NEW i \in DOMAIN todo' PROVE todo'[i].at >= snap.at
        <5>1. /\ i \in 1 .. Len(todo) + Len(more) /\ Len(todo) \in Nat /\ Len(more) \in Nat
              /\ todo'[i] = IF i <= Len(todo) THEN todo[i] ELSE more[i - Len(todo)]
          BY <3>1, <4>5, <4>6, <4>7, ConcatProperties, LenProperties
        <5>2. CASE i <= Len(todo)
          <6>1. i \in DOMAIN todo /\ todo'[i] = todo[i]
            BY <3>1, <5>1, <5>2, LenProperties
          <6> QED
            BY <6>1 DEF HistoryOK, Fresh
        <5>3. CASE ~ (i <= Len(todo))
          <6>1. i - Len(todo) \in 1 .. Len(f)
            BY <4>5, <5>1, <5>3
          <6> QED
            BY <3>1, <4>5, <5>1, <5>3, <6>1
        <5> QED
          BY <5>2, <5>3
      <4> QED
        BY <2>1, <4>7 DEF HistoryOK, Fresh
    <3> QED
      BY <1>4, <3>2, <3>3 DEF fetch
  <2> QED
    BY <1>1, <1>2, <2>1, <2>2 DEF HistoryOK
<1>5. CASE score_article
  BY <1>1, <1>5, ScoreKeepsHistory DEF HistoryOK
<1>6. CASE snapshot
  BY <1>1, <1>6, SnapshotKeepsHistory DEF HistoryOK
<1> QED
  BY <1>3, <1>4, <1>5, <1>6 DEF NewsNext

\* A snapshot is the reference: the invariant says so of tag instead of TagOf.
LEMMA HistoryIsReference == HistoryOK => SnapshotIsReference
<1> SUFFICES ASSUME HistoryOK, mpc = "sleep"
             PROVE  /\ \A t \in DOMAIN snap.scores :
                          snap.scores[t] = Total([i \in DOMAIN scored |->
                              Worth(scored[i].s, scored[i].at, snap.at)
                                  * Count(tag(scored[i].body), t)])
                    /\ \A i \in DOMAIN table : table[i].ticker \notin DOMAIN snap.scores =>
                          Total([j \in DOMAIN scored |->
                              Worth(scored[j].s, scored[j].at, snap.at)
                                  * Count(tag(scored[j].body), table[i].ticker)]) = 0
  BY DEF SnapshotIsReference
<1>1. ASSUME NEW t
      PROVE  [i \in DOMAIN scored |-> Worth(scored[i].s, scored[i].at, snap.at)
                                          * Count(tag(scored[i].body), t)]
                 = Reference(by_alias, aliases, scored, snap.at, t)
  BY TagIsTagOf DEF Reference
<1> QED
  BY <1>1 DEF HistoryOK, Referred

\* 1 for what is not too old at a moment.
Counted(at) == [e \in AllBooks |-> IF at - e.ts > Cutoff THEN 0 ELSE 1]

\* A vector is as long as it weighs if each entry that is not too old weighs one;
\* what the articles brought then is what the bound counts, or less.
LEMMA HistoryIsBounded == HistoryOK => MemoryIsBounded
<1> SUFFICES ASSUME HistoryOK, NEW t \in DOMAIN entries
             PROVE  Len(entries[t]) <=
                        Total([i \in DOMAIN scored |->
                                  IF scored[i].at >= snap.at - Cutoff
                                  THEN Count(tag(scored[i].body), t) ELSE 0])
  BY DEF MemoryIsBounded
<1>1. /\ RecogniserOK /\ clock \in Nat /\ snap.at \in Nat /\ Cutoff \in Nat
      /\ scored \in Seq(Judged(clock)) /\ Vector(t) \in Seq(AllBooks)
  BY TypesAre DEF HistoryOK
<1> DEFINE w == Counted(snap.at)
           a == Bookings(by_alias, aliases, scored, t, w)
           b == [i \in DOMAIN scored |-> IF scored[i].at >= snap.at - Cutoff
                                         THEN Count(tag(scored[i].body), t) ELSE 0]
<1>2. w \in [AllBooks -> Int] /\ Forgets(w, snap.at)
  BY DEF Counted, Forgets
<1>3. PICK v, n : v = entries[t] /\ n = Len(v)
  OBVIOUS
<1>4. /\ v = Vector(t) /\ v = On(entries, t) /\ v \in Seq(AllBooks) /\ n \in Nat
      /\ DOMAIN v = 1 .. n
      /\ \A i \in 1 .. n : w[v[i]] = 1
  <2>1. v = Vector(t) /\ v = On(entries, t) /\ v \in Seq(AllBooks)
    BY <1>1, <1>3 DEF Vector, On
  <2>2. n \in Nat /\ DOMAIN v = 1 .. n /\ \A i \in 1 .. n : v[i] \in AllBooks
    BY <1>3, <2>1, LenProperties, ElementOfSeq
  <2>3. \A i \in 1 .. n : snap.at - v[i].ts <= Cutoff
    BY <1>3, <2>2 DEF HistoryOK, Fresh
  <2>4. ASSUME NEW i \in 1 .. n PROVE w[v[i]] = 1
    <3>1. PICK e \in AllBooks : e = v[i]
      BY <2>2
    <3>2. e.ts \in Nat /\ ~ (snap.at - e.ts > Cutoff)
      BY <1>1, <2>3, <3>1 DEF AllBooks
    <3> QED
      BY <3>1, <3>2 DEF Counted
  <2> QED
    BY <2>1, <2>2, <2>4
<1>5. Weight(v, w) = n
  <2> DEFINE ones == [i \in DOMAIN v |-> w[v[i]]]
             none == [i \in {} |-> 0]
  <2>1. PICK z, one : z = 0 /\ one = 1 /\ z \in Nat /\ one \in Int
    OBVIOUS
  <2>2. Numbers(ones, n) /\ Numbers(none, z)
    BY <1>4, <2>1 DEF Numbers
  <2>3. Extends(ones, n, none, z, one)
    BY <1>4, <2>1 DEF Extends
  <2>4. Total(none) = 0
    <3>1. DOMAIN none = 1 .. z /\ \A i \in 1 .. z : none[i] \in Int
      BY <2>1
    <3> HIDE DEF none
    <3>2. PICK p \in [0 .. z -> Int] : p[0] = 0 /\ Total(none) = p[z]
      BY <2>1, <3>1, TotalIs
    <3> QED
      BY <2>1, <3>2
  <2> HIDE DEF ones, none
  <2>5. Total(ones) = Total(none) + (n - z) * one
    BY <1>4, <2>1, <2>2, <2>3, TotalExtends
  <2>6. Total(ones) = n
    BY <1>4, <2>1, <2>4, <2>5
  <2> QED
    BY <2>6 DEF Weight, ones
<1>6. Weight(v, w) = Total(a)
  <2> HIDE DEF w
  <2> QED
    BY <1>2, <1>4 DEF HistoryOK, Ledger, Agrees
<1>7. PICK l \in Nat : l = Len(scored) /\ DOMAIN scored = 1 .. l
  BY <1>1, LenProperties
<1>8. \A i \in 1 .. l : a[i] \in Int /\ b[i] \in Int /\ a[i] <= b[i]
  <2> SUFFICES ASSUME NEW i \in 1 .. l PROVE a[i] \in Int /\ b[i] \in Int /\ a[i] <= b[i]
    OBVIOUS
  <2>1. PICK x \in Judged(clock) : x = scored[i]
    BY <1>1, <1>7, ElementOfSeq
  <2>2. PICK c \in Nat : c = Count(TagOf(by_alias, aliases, x.body), t)
    BY <1>1, <1>2, BookingsAre
  <2>3. c = Count(tag(x.body), t)
    BY <2>2, TagIsTagOf
  <2>4. a[i] = IF x.s = 0 THEN 0 ELSE w[[contribution |-> x.s, ts |-> x.at]] * c
    BY <1>7, <2>1, <2>2 DEF Bookings, Booked
  <2>5. b[i] = IF x.at >= snap.at - Cutoff THEN c ELSE 0
    BY <1>7, <2>1, <2>3
  <2>6. x.at \in Nat /\ x.s \in Scores
    BY DEF Judged
  <2>7. w[[contribution |-> x.s, ts |-> x.at]] = IF snap.at - x.at > Cutoff THEN 0 ELSE 1
    BY <2>6 DEF Counted, AllBooks
  <2>8. 0 * c = 0 /\ 1 * c = c
    OBVIOUS
  <2>9. snap.at - x.at > Cutoff <=> ~ (x.at >= snap.at - Cutoff)
    BY <1>1, <2>6
  <2> HIDE DEF a, b, w
  <2> QED
    BY <2>4, <2>5, <2>7, <2>8, <2>9
<1>9. Numbers(a, l) /\ Numbers(b, l)
  BY <1>7, <1>8 DEF Numbers, Bookings
<1>10. Total(a) <= Total(b)
  <2> HIDE DEF a, b
  <2> QED
    BY <1>8, <1>9, TotalIsMonotone
<1> HIDE DEF a
<1> QED
  BY <1>3, <1>5, <1>6, <1>10

(* What the score board holds is, by every way to weigh it that forgets what is
   eight half-lives old, what the articles scored since the start brought: the
   articles ingested, cycle by cycle, and what score() dropped since. *)
THEOREM HistoryStays == NewsSpec => []HistoryOK
BY InitHasHistory, StepKeepsHistory, PTL DEF NewsSpec

(* Every snapshot of score() is the sum over all articles ever scored: what its
   predecessors dropped from the vectors is never needed again. *)
THEOREM SnapshotStaysReference == NewsSpec => []SnapshotIsReference
BY HistoryStays, HistoryIsReference, PTL

(* The vector of a ticker holds no more than the articles of the last eight
   half-lives before the last snapshot, and those since, brought. *)
THEOREM MemoryStaysBounded == NewsSpec => []MemoryIsBounded
BY HistoryStays, HistoryIsBounded, PTL
=============================================================================
