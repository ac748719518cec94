-------------------------------- MODULE Book --------------------------------
(***************************************************************************)
(* What the trading bot keeps about its positions, in the three places     *)
(* that have to agree: the open rows of the `positions` table, the netted  *)
(* position the exchange holds per coin, and what each strategy believes   *)
(* in memory; and the flags that decide whether it may trade.              *)
(* SignalExecution, Reconcile and TradeEngine share this state.  The       *)
(* actions here are the ones nobody in the bot takes: a hand on the        *)
(* exchange account, and an order whose answer was lost.                   *)
(*                                                                         *)
(* Sizes are whole lots (szDecimals steps), prices are constant.  The      *)
(* account is the live one: settings.is_paper is false.                    *)
(***************************************************************************)
EXTENDS Integers, FiniteSets, Functions

CONSTANTS
    Strategies,      \* the strategies this bot runs
    Coins,           \* the coins the account can hold
    CoinOf,          \* [Strategies -> Coins]: strategy.symbol
    FamilyOf,        \* [Strategies -> family name, or NoFamily]
    NoFamily,        \* get_strategy_family(...) is None
    NoStrategy,      \* no signal is being executed
    AllowMultiCoin,  \* the Redis flag allow_multi_coin
    OrderLots,       \* what an OPEN asks for, in lots
    ExposureCap,     \* MAX_TOTAL_EXPOSURE_USD, in lots; 0 disables the cap
    MaxPos,          \* bound: the largest netted position, in lots
    MaxLies,         \* bound: partial 200s `get_positions` may answer
    Faults           \* the kinds of failure the environment produces

FaultKinds == {"db",        \* a database call raises
               "exchange",  \* an exchange read raises
               "short",     \* an IOC order fills part of its size
               "outcome",   \* the POST of an order times out
               "hand",      \* the account moves without the bot
               "risk",      \* kill switch, loss cap or leverage push refuse
               "redis",     \* a Redis call raises
               "crash"}     \* the process dies

ASSUME BookAssumption ==
    /\ IsFiniteSet(Strategies)
    /\ CoinOf \in [Strategies -> Coins]
    /\ DOMAIN FamilyOf = Strategies
    /\ NoStrategy \notin Strategies
    /\ AllowMultiCoin \in BOOLEAN
    /\ OrderLots \in Nat \ {0}
    /\ ExposureCap \in Nat
    /\ MaxPos \in Nat
    /\ MaxLies \in Nat
    /\ Faults \subseteq FaultKinds

VARIABLES
    row,       \* [Strategies -> Rows]: the strategy's open PositionRecord
    pos,       \* [Coins -> Int]: the exchange's netted, signed position
    belief,    \* [Strategies -> Stances]: position flags of the Strategy object
    inflight,  \* orders whose POST timed out and that HL may still fill
    lies,      \* partial reads answered so far
    paused,    \* Redis: the bot's paused flag
    holdKey,   \* Redis: the bot's reconcile hold
    ctl,       \* runner._control_hold: what the last control check found
    awaiting,  \* runner._awaiting: the reconcile pass that opens wait for
    clean      \* history: every change of the account was booked by the bot

account == <<row, pos, inflight, lies, clean>>
control == <<paused, holdKey, ctl, awaiting>>
bookVars == <<row, pos, belief, inflight, lies, paused, holdKey, ctl, awaiting, clean>>

Sides == {"long", "short"}
Stances == Sides \union {"flat"}
NoRow == [side |-> "flat", size |-> 0]
Rows == [side : Sides, size : Nat \ {0}] \union {NoRow}
Legs == {"open", "close"}
Orders == [coin : Coins, side : Sides, lots : Nat \ {0}, leg : Legs]

Opposite(side) == IF side = "long" THEN "short" ELSE "long"
Signed(side, n) == IF side = "long" THEN n ELSE -n
Holds(s) == row[s] # NoRow
Holders == {s \in Strategies : Holds(s)}
HoldersOn(c) == {s \in Holders : CoinOf[s] = c}
Traded == {CoinOf[s] : s \in Strategies}

(* portfolio.opens_held *)
OpensHeld == ctl # "none" \/ awaiting # "no"

(* `_held_on_side`: how much of `side` a netted position p contains. *)
HeldOnSide(p, side) ==
    IF side = "long" THEN IF p > 0 THEN p ELSE 0
                     ELSE IF p < 0 THEN -p ELSE 0

Backed(s) == HeldOnSide(pos[CoinOf[s]], row[s].side) > 0

(* The signed sum of the open rows on a coin: `db_net` of the parity check. *)
Net(c) == SumFunctionOnSet([s \in Strategies |-> Signed(row[s].side, row[s].size)],
                           HoldersOn(c))

(* One answer of `get_positions`: the truth, or a 200 that leaves coins    *)
(* out (a "partial 502: ETH answered, BTC missing").                       *)
Answers ==
    {pos} \union
    IF lies < MaxLies
    THEN {[c \in Coins |-> IF c \in gone THEN 0 ELSE pos[c]] : gone \in SUBSET Coins}
    ELSE {}

LiesIn(answer) == IF answer = pos THEN lies ELSE lies + 1

-----------------------------------------------------------------------------
(* A closing order is reduce-only: it shrinks the position and does        *)
(* nothing else, so it takes at most what is held.                         *)
Takes(o) ==
    LET held == HeldOnSide(pos[o.coin], o.side)
    IN  IF o.leg = "open" \/ held > o.lots THEN o.lots ELSE held

(* How many lots an IOC order can fill, and the position it leaves. *)
Fills(o) == IF "short" \in Faults THEN 1..Takes(o) ELSE {Takes(o)} \ {0}

AfterFill(o, k) ==
    [pos EXCEPT ![o.coin] = IF o.leg = "open" THEN @ + Signed(o.side, k)
                                              ELSE @ - Signed(o.side, k)]

(* _poll_for_delayed_fill, after the POST of o timed out: `base` is what   *)
(* was held before it.  An answer within one lot of the position the fill  *)
(* would leave is taken for the fill of everything asked; a float may put  *)
(* a difference of exactly one lot on either side of that.                 *)
Target(o, base) ==
    base + IF o.leg = "open" THEN Signed(o.side, o.lots) ELSE -Signed(o.side, o.lots)

PollMatchesLoosely(o, base, answer) ==  \* mutant: the tolerance of two lots
    answer[o.coin] - Target(o, base) \in -2..2

PollMatches(o, base, answer) == answer[o.coin] - Target(o, base) \in -1..1
PollMisses(o, base) == pos[o.coin] # Target(o, base) \/ "exchange" \in Faults

InBounds(p) == \A c \in Coins : p[c] \in -MaxPos..MaxPos

BookInit ==
    /\ row = [s \in Strategies |-> NoRow]
    /\ pos = [c \in Coins |-> 0]
    /\ belief = [s \in Strategies |-> "flat"]
    /\ inflight = {}
    /\ lies = 0
    /\ paused = FALSE
    /\ holdKey = FALSE
    /\ ctl = "none"
    /\ awaiting = "first"
    /\ clean = TRUE

(* HL matches an order whose answer the bot never got, or never does. *)
LateFill ==
    \E o \in inflight :
       /\ \E k \in {0} \union Fills(o) : pos' = AfterFill(o, k)
       /\ InBounds(pos')
       /\ inflight' = inflight \ {o}
       /\ UNCHANGED <<row, belief, lies, clean, control>>

(* A liquidation, or a human trading the same account. *)
OutsideTrade ==
    /\ "hand" \in Faults
    /\ \E c \in Coins, p \in -MaxPos..MaxPos :
          /\ p # pos[c]
          /\ pos' = [pos EXCEPT ![c] = p]
    /\ clean' = FALSE
    /\ UNCHANGED <<row, belief, inflight, lies, control>>

(* The operator un-pauses the bot, or clears its reconcile hold. *)
Unpause ==
    /\ paused
    /\ paused' = FALSE
    /\ UNCHANGED <<account, belief, holdKey, ctl, awaiting>>

ClearHold ==
    /\ holdKey
    /\ holdKey' = FALSE
    /\ UNCHANGED <<account, belief, paused, ctl, awaiting>>

Outside == LateFill \/ OutsideTrade \/ Unpause \/ ClearHold

BookTypeOK ==
    /\ row \in [Strategies -> Rows]
    /\ pos \in [Coins -> Int]
    /\ belief \in [Strategies -> Stances]
    /\ inflight \subseteq Orders
    /\ lies \in Nat
    /\ paused \in BOOLEAN /\ holdKey \in BOOLEAN /\ clean \in BOOLEAN
    /\ ctl \in {"none", "set", "unreadable"}
    /\ awaiting \in {"no", "first", "after_clear"}
=============================================================================
