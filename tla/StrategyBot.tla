---------------------------- MODULE StrategyBot ----------------------------
(***************************************************************************)
(* strategy-bot: trades from Redis go through two detectors that keep a    *)
(* window of prices per symbol; a signal is sent to Telegram unless one of *)
(* its symbol and kind was tried within the cooldown.                      *)
(*                                                                         *)
(* Prices and averages are floats; what Python computes of them is given   *)
(* by constants, so that rounding, infinities and NaN are whatever they    *)
(* are.                                                                    *)
(***************************************************************************)
EXTENDS Integers, Sequences, SequencesExt

CONSTANTS
    Symbols,
    Prices,         \* float(payload.get("price", 0.0))
    Zeros,          \* those of them that one cannot divide by
    Fast, Slow,     \* lengths of the moving averages (20, 60)
    Window,         \* length of the jump detector (100)
    Mean(_),        \* sum(prices) / len(prices)
    Compare(_, _),  \* "less", "equal" or "greater"; or none of them
    Moves(_, _),    \* from a price that is no zero to another: "up" or "down" if
                    \* the change reaches threshold_pct (0.5), else "no"
    cooldown_sec,   \* (60)
    MaxTrades,      \* bound: trades in all
    MaxTime         \* bound: the clock stops here

ASSUME BotAssumption ==
    /\ Zeros \subseteq Prices
    /\ {Fast, Slow, Window} \subseteq Nat \ {0}
    /\ Fast <= Slow
    /\ {cooldown_sec, MaxTime} \subseteq Nat
    /\ cooldown_sec <= MaxTime  \* the clock starts when the first signal may go

VARIABLES
    pc,         \* "listen", the detector to feed, "cooldown", "send", "end"
    stop,       \* set by the signal handler
    ev,         \* the trade in work: its symbol and price
    sig,        \* the signal in work: its symbol and kind
    next,       \* where the loop goes on when sig is dealt with
    ma_win,     \* MovingAverageDetector._win
    jump_win,   \* PriceJumpDetector._state
    last_sent,  \* when a symbol and kind was last tried, 0 if never
    now,        \* time.time()
    hist,       \* history: the prices of each symbol
    emitted     \* history: signals, with the number of trades of their symbol

winVars == <<ma_win, jump_win, hist, emitted>>
vars    == <<pc, stop, ev, sig, next, now, winVars, last_sent>>

Crosses == {"ma_cross_up", "ma_cross_down"}
Jumps   == {"price_jump_up", "price_jump_down"}
Keys    == Symbols \X (Crosses \cup Jumps)

TypeOK ==
    /\ pc \in {"listen", "ma", "jump", "cooldown", "send", "end"}
    /\ stop \in BOOLEAN
    /\ \A s \in Symbols : Len(ma_win[s]) <= Slow + 2 /\ Len(jump_win[s]) <= Window
    /\ last_sent \in [Keys -> 0 .. MaxTime]
    /\ now \in 0 .. MaxTime
    /\ pc \in {"cooldown", "send"} => sig \in Keys

Init ==
    /\ pc = "listen"
    /\ stop = FALSE
    /\ ev = <<>>
    /\ sig = <<>>
    /\ next = "listen"
    /\ ma_win = [s \in Symbols |-> <<>>]
    /\ jump_win = [s \in Symbols |-> <<>>]
    /\ last_sent = [k \in Keys |-> 0]
    /\ now = cooldown_sec
    /\ hist = [s \in Symbols |-> <<>>]
    /\ emitted = {}

Tick ==
    /\ now < MaxTime
    /\ now' = now + 1
    /\ UNCHANGED <<pc, stop, ev, sig, next, winVars, last_sent>>

handle_sig ==
    /\ ~stop
    /\ stop' = TRUE
    /\ UNCHANGED <<pc, ev, sig, next, now, winVars, last_sent>>

-----------------------------------------------------------------------------

\* A message of another type, or one that cannot be parsed (a ValueError), is
\* passed over by stream_trades: a stuttering step, which does not look at stop
\* either.
stream_trades(s, p) ==
    /\ pc = "listen"
    /\ ~stop
    /\ MapThenSumSet(LAMBDA x : Len(hist[x]), Symbols) < MaxTrades
    /\ ev' = <<s, p>>
    /\ pc' = "ma"
    /\ UNCHANGED <<stop, sig, next, now, winVars, last_sent>>

\* Other exceptions leave stream_trades and end the program: of Redis, of a price
\* that is null (TypeError), of JSON that is no object (AttributeError).
stream_raises ==
    /\ pc = "listen"
    /\ pc' = "end"
    /\ UNCHANGED <<stop, ev, sig, next, now, winVars, last_sent>>

\* The flag is looked at when a trade has come.
Break ==
    /\ pc = "listen"
    /\ stop
    /\ pc' = "end"
    /\ UNCHANGED <<stop, ev, sig, next, now, winVars, last_sent>>

LastOf(seq, n) == SubSeq(seq, Len(seq) - n + 1, Len(seq))

\* deque(maxlen=n).append.
Push(win, p, n) ==
    IF Len(win) < n THEN Append(win, p) ELSE Append(LastOf(win, n - 1), p)

\* (mutant) the slow average is taken over the oldest prices of the deque.
SideOfOldest(win) == Compare(Mean(LastOf(win, Fast)), Mean(SubSeq(win, 1, Slow)))
\* _snapshot: the fast average against the slow one.
SideOf(win) == Compare(Mean(LastOf(win, Fast)), Mean(LastOf(win, Slow)))

\* A detector returns no signal or one; the loop over it tests the cooldown.
Emit(kind, then) ==
    /\ sig' = <<ev[1], kind>>
    /\ next' = then
    /\ pc' = "cooldown"
    /\ emitted' = emitted \cup {<<ev[1], kind, Len(hist'[ev[1]])>>}
EmitNone(then) == pc' = then /\ UNCHANGED <<sig, next, emitted>>

Keep == Slow + 2

CrossesUp(prev, cur)   == prev \in {"less", "equal"} /\ cur = "greater"
CrossesDown(prev, cur) == prev \in {"greater", "equal"} /\ cur = "less"

\* MovingAverageDetector.feed
FeedAverages ==
    /\ pc = "ma"
    /\ LET s   == ev[1]
           old == ma_win[s]
           win == Push(old, ev[2], Keep)
           ready == Len(old) >= Slow
       IN /\ ma_win' = [ma_win EXCEPT ![s] = win]
          /\ hist' = [hist EXCEPT ![s] = Append(@, ev[2])]
          /\ \/ /\ ready /\ CrossesUp(SideOf(old), SideOf(win))
                /\ Emit("ma_cross_up", "jump")
             \/ /\ ready /\ CrossesDown(SideOf(old), SideOf(win))
                /\ Emit("ma_cross_down", "jump")
             \/ /\ ready => /\ ~CrossesUp(SideOf(old), SideOf(win))
                            /\ ~CrossesDown(SideOf(old), SideOf(win))
                /\ EmitNone("jump")
    /\ UNCHANGED <<stop, ev, now, jump_win, last_sent>>

Jump(ref, p) == Moves(ref, p) \in {"up", "down"}

\* (mutant) the window is kept after a signal.
AfterKept(win) == win
After(win) == <<>>

\* PriceJumpDetector.feed; a reference of zero raises ZeroDivisionError, which
\* nothing catches.
FeedJumps ==
    /\ pc = "jump"
    /\ UNCHANGED <<stop, ev, now, ma_win, hist, last_sent>>
    /\ LET s   == ev[1]
           win == Push(jump_win[s], ev[2], Window)
           full == Len(win) = Window
       IN \/ /\ full /\ win[1] \notin Zeros /\ Jump(win[1], ev[2])
             /\ jump_win' = [jump_win EXCEPT ![s] = After(win)]
             /\ Emit(IF Moves(win[1], ev[2]) = "up"
                     THEN "price_jump_up" ELSE "price_jump_down", "listen")
          \/ /\ full => win[1] \notin Zeros /\ ~Jump(win[1], ev[2])
             /\ jump_win' = [jump_win EXCEPT ![s] = win]
             /\ EmitNone("listen")
          \/ /\ full /\ win[1] \in Zeros
             /\ pc' = "end"
             /\ UNCHANGED <<jump_win, sig, next, emitted>>

\* if now - last_sent[key] < cooldown_sec: continue
Suppress ==
    /\ pc = "cooldown"
    /\ now - last_sent[sig] < cooldown_sec
    /\ pc' = next
    /\ UNCHANGED <<stop, ev, sig, next, now, winVars, last_sent>>

Try ==
    /\ pc = "cooldown"
    /\ now - last_sent[sig] >= cooldown_sec
    /\ last_sent' = [last_sent EXCEPT ![sig] = now]
    /\ pc' = "send"
    /\ UNCHANGED <<stop, ev, sig, next, now, winVars>>

\* notifier.send returns, or raises what is caught and printed: it is the same
\* to the loop, and so is an answer of Telegram that refuses the message.
send ==
    /\ pc = "send"
    /\ pc' = next
    /\ UNCHANGED <<stop, ev, sig, next, now, winVars, last_sent>>

Next ==
    \/ Tick
    \/ handle_sig
    \/ \E s \in Symbols, p \in Prices : stream_trades(s, p)
    \/ stream_raises
    \/ Break
    \/ FeedAverages
    \/ FeedJumps
    \/ Suppress
    \/ Try
    \/ send

Spec == Init /\ [][Next]_vars

-----------------------------------------------------------------------------

\* The side of the slow average the fast one is on after n trades of a symbol.
Side(s, n) == Compare(Mean(SubSeq(hist[s], n - Fast + 1, n)),
                      Mean(SubSeq(hist[s], n - Slow + 1, n)))

\* The jump detector has dealt with trade n of the symbol.
Seen(s, n) ==
    \/ n < Len(hist[s])
    \/ ev[1] # s
    \/ pc \in {"listen", "ma"}
    \/ pc \in {"cooldown", "send"} /\ next = "listen"

JumpAt(s, n) == \E k \in Jumps : <<s, k, n>> \in emitted

(* The windows are bounded, partly cleared and updated trade by trade, those of
   the symbols interleaved; what they yield is the definition over all prices of
   a symbol, as floats have it.  It crosses up at a trade iff the fast average was
   below or equal to the slow one and now is above, and down likewise.  A jump is
   a change of the threshold against the price Window - 1 trades before, and
   windows of jumps do not overlap: the same movement is not signalled twice. *)
SignalsMatchReference ==
    \A s \in Symbols :
        /\ \A n \in DOMAIN hist[s] :
              /\ <<s, "ma_cross_up", n>> \in emitted
                    <=> n > Slow /\ CrossesUp(Side(s, n - 1), Side(s, n))
              /\ <<s, "ma_cross_down", n>> \in emitted
                    <=> n > Slow /\ CrossesDown(Side(s, n - 1), Side(s, n))
        /\ \A n \in {m \in DOMAIN hist[s] : Seen(s, m)} :
              JumpAt(s, n) <=>
                  /\ n >= Window
                  /\ \A m \in n - Window + 1 .. n - 1 : ~JumpAt(s, m)
                  /\ Jump(hist[s][n - Window + 1], hist[s][n])
=============================================================================
