-------------------------- MODULE StrategyStateProofs --------------------------
(***************************************************************************)
(* What a strategy remembers, for every registered strategy, every set of   *)
(* prices and bars, every cooldown and every length of run: memory and row  *)
(* agree, a trailing stop keeps its ratchet, a refused exit stays due and a *)
(* cooldown is sat out.                                                    *)
(***************************************************************************)
EXTENDS StrategyState, TLAPS

Strategies == [sides : SUBSET Sides, rule : BOOLEAN, stop : {"none", "fixed", "market", "both"},
               target : BOOLEAN, trail : {"none", "ratchet", "peak", "late", "breakeven"},
               flips : BOOLEAN, exports : BOOLEAN,
               refill : {"levels", "shift", "entry", "nothing"},
               cooldown : {"none", "perNewBar", "whileFlat", "entryBars", "entryTime"},
               skipsEntryBar : BOOLEAN]

(* A strategy that drags a stop along starts from one; what persists nothing *)
(* has no stop, and a target only if it comes from the fill.               *)
Consistent(p) ==
    /\ p.trail \in {"ratchet", "breakeven"} => p.stop = "fixed"
    /\ p.exports \/ /\ p.trail = "none" /\ p.stop = "none" /\ p.cooldown = "none"
                    /\ p.flips = FALSE /\ p.skipsEntryBar = FALSE
                    /\ p.target => p.refill = "levels"
                    /\ p.refill \in {"levels", "nothing"}
    /\ p.cooldown # "none" => p.flips = FALSE

-----------------------------------------------------------------------------
(* The fields that the argument depends on, record by record.              *)
LEMMA RegisteredStrategies ==
  \A p \in Catalogue : p \in Strategies /\ Consistent(p)
<1> DEFINE Is(p, stop, trail, refill, cooldown) ==
             /\ p \in Strategies /\ p.stop = stop /\ p.trail = trail /\ p.refill = refill
             /\ p.cooldown = cooldown
           Yes(p, flips, exports, skips, target) ==
             /\ p.flips = flips /\ p.exports = exports /\ p.skipsEntryBar = skips
             /\ p.target = target
<1>1. /\ Is(cdc_macd, "none", "none", "nothing", "none")
      /\ Yes(cdc_macd, FALSE, FALSE, FALSE, FALSE)
  BY DEF cdc_macd, Strategies, Sides
<1>2. /\ Is(macd_zero, "none", "none", "nothing", "none")
      /\ Yes(macd_zero, FALSE, FALSE, FALSE, FALSE)
  BY <1>1 DEF macd_zero, Strategies, Sides
<1>3. /\ Is(sma_rsi, "none", "none", "nothing", "none")
      /\ Yes(sma_rsi, FALSE, FALSE, FALSE, FALSE)
  BY <1>1 DEF sma_rsi, Strategies, Sides
<1>4. /\ Is(penguin_volatility, "none", "none", "nothing", "none")
      /\ Yes(penguin_volatility, FALSE, FALSE, FALSE, FALSE)
  BY <1>1 DEF penguin_volatility, Strategies, Sides
<1>5. /\ Is(golden_cross, "none", "none", "nothing", "none")
      /\ Yes(golden_cross, FALSE, TRUE, FALSE, FALSE)
  BY <1>1 DEF golden_cross, Strategies, Sides
<1>6. /\ Is(rsi_momentum, "none", "none", "nothing", "none")
      /\ Yes(rsi_momentum, FALSE, TRUE, FALSE, FALSE)
  BY <1>5 DEF rsi_momentum, Strategies, Sides
<1>7. /\ Is(daily_long_0830, "none", "none", "nothing", "none")
      /\ Yes(daily_long_0830, FALSE, TRUE, FALSE, FALSE)
  BY <1>5 DEF daily_long_0830, Strategies, Sides
<1>8. /\ Is(bb_rsi_scalper, "none", "none", "entry", "none")
      /\ Yes(bb_rsi_scalper, FALSE, TRUE, FALSE, FALSE)
  BY <1>5 DEF bb_rsi_scalper, Strategies, Sides
<1>9. /\ Is(bb_short, "none", "none", "levels", "none")
      /\ Yes(bb_short, FALSE, FALSE, FALSE, TRUE)
  BY <1>1 DEF bb_short, Strategies, Sides
<1>10. /\ Is(keltner_breakout, "market", "none", "nothing", "none")
      /\ Yes(keltner_breakout, FALSE, TRUE, FALSE, TRUE)
  BY <1>5 DEF keltner_breakout, Strategies, Sides
<1>11. /\ Is(moon_phases, "fixed", "none", "nothing", "none")
      /\ Yes(moon_phases, FALSE, TRUE, FALSE, TRUE)
  BY <1>10 DEF moon_phases, Strategies, Sides
<1>12. /\ Is(vvv_hedge, "fixed", "none", "levels", "none")
      /\ Yes(vvv_hedge, FALSE, TRUE, FALSE, FALSE)
  BY <1>5 DEF vvv_hedge, Strategies, Sides
<1>13. /\ Is(ema_crossover, "market", "none", "nothing", "none")
      /\ Yes(ema_crossover, FALSE, TRUE, FALSE, FALSE)
  BY <1>5 DEF ema_crossover, Strategies, Sides
<1>14. /\ Is(btc_mean_reversion, "fixed", "none", "levels", "none")
      /\ Yes(btc_mean_reversion, FALSE, TRUE, FALSE, TRUE)
  BY <1>13 DEF btc_mean_reversion, Strategies, Sides
<1>15. /\ Is(hash_momentum, "fixed", "none", "nothing", "perNewBar")
      /\ Yes(hash_momentum, FALSE, TRUE, FALSE, TRUE)
  BY <1>14 DEF hash_momentum, Strategies, Sides
<1>16. /\ Is(supertrend, "both", "none", "shift", "entryBars")
      /\ Yes(supertrend, FALSE, TRUE, FALSE, TRUE)
  BY <1>14 DEF supertrend, Strategies, Sides
<1>17. /\ Is(pivot_supertrend, "fixed", "none", "nothing", "none")
      /\ Yes(pivot_supertrend, TRUE, TRUE, FALSE, FALSE)
  BY <1>13 DEF pivot_supertrend, Strategies, Sides
<1>18. /\ Is(kalman_breakout, "none", "none", "nothing", "none")
      /\ Yes(kalman_breakout, TRUE, TRUE, FALSE, FALSE)
  BY <1>17 DEF kalman_breakout, Strategies, Sides
<1>19. /\ Is(hash_supertrend, "none", "none", "entry", "none")
      /\ Yes(hash_supertrend, TRUE, TRUE, FALSE, FALSE)
  BY <1>18 DEF hash_supertrend, Strategies, Sides
<1>20. /\ Is(oleg_aryukov, "fixed", "ratchet", "levels", "none")
      /\ Yes(oleg_aryukov, FALSE, TRUE, TRUE, TRUE)
  BY <1>14 DEF oleg_aryukov, Strategies, Sides
<1>21. /\ Is(ath_breakout, "none", "peak", "entry", "none")
      /\ Yes(ath_breakout, FALSE, TRUE, FALSE, FALSE)
  BY <1>8 DEF ath_breakout, Strategies, Sides
<1>22. /\ Is(volatility_breakout, "market", "late", "entry", "entryTime")
      /\ Yes(volatility_breakout, FALSE, TRUE, FALSE, FALSE)
  BY <1>13 DEF volatility_breakout, Strategies, Sides
<1>23. /\ Is(qullamagi_breakout, "fixed", "breakeven", "entry", "whileFlat")
      /\ Yes(qullamagi_breakout, FALSE, TRUE, FALSE, FALSE)
  BY <1>5 DEF qullamagi_breakout, Strategies, Sides
<1>24. \A p \in {cdc_macd, macd_zero, sma_rsi, penguin_volatility, golden_cross, rsi_momentum, daily_long_0830, bb_rsi_scalper} :
         p \in Strategies /\ Consistent(p)
  BY <1>1, <1>2, <1>3, <1>4, <1>5, <1>6, <1>7, <1>8 DEF Consistent
<1>25. \A p \in {bb_short, keltner_breakout, moon_phases, vvv_hedge, ema_crossover, btc_mean_reversion, hash_momentum, supertrend} :
         p \in Strategies /\ Consistent(p)
  BY <1>9, <1>10, <1>11, <1>12, <1>13, <1>14, <1>15, <1>16 DEF Consistent
<1>26. \A p \in {pivot_supertrend, kalman_breakout, hash_supertrend, oleg_aryukov, ath_breakout, volatility_breakout, qullamagi_breakout} :
         p \in Strategies /\ Consistent(p)
  BY <1>17, <1>18, <1>19, <1>20, <1>21, <1>22, <1>23 DEF Consistent
<1> HIDE DEF Is, Yes
<1> QED
  BY <1>24, <1>25, <1>26 DEF Catalogue

-----------------------------------------------------------------------------
(* A position has the levels that its strategy goes by.                    *)
LevelsKnown(pos) ==
    /\ pos.entry \in Int
    /\ profile.stop = "fixed" => pos.stop \in Int
    /\ profile.trail \in {"ratchet", "peak"} => pos.peak \in Int
    /\ profile.trail = "late" /\ pos.late => pos.peak \in Int

Sound(m) ==
    /\ m \in Memories
    /\ m.pos.side # None => m.pos.side \in profile.sides /\ LevelsKnown(m.pos)
    /\ m.cool.seen # None => m.cool.seen <= bar

Setting == profile \in Catalogue /\ bar \in Nat /\ shape \in Bars

LEMMA Profile ==
  ASSUME Setting
  PROVE  profile \in Strategies /\ Consistent(profile) /\ profile.sides \subseteq Sides
<1>1. profile \in Strategies /\ Consistent(profile)
  BY RegisteredStrategies DEF Setting
<1>2. profile.sides \subseteq Sides
  BY <1>1 DEF Strategies
<1> QED
  BY <1>1, <1>2

LEMMA ShapeType ==
  ASSUME StrategyConstants, Setting
  PROVE  /\ shape.low \in Prices /\ shape.high \in Prices /\ shape.close \in Prices
         /\ shape.calls \in {None} \cup profile.sides
         /\ \A side : Best(side) \in Int /\ Worst(side) \in Int
<1> DEFINE Bar(s, c, l) == [low |-> s.low, high |-> s.high, close |-> s.close, calls |-> c,
                             leave |-> l]
           calls == {None} \cup profile.sides
           leaves == IF profile.rule THEN BOOLEAN ELSE {FALSE}
<1>0. {Bar(s, c, l) : s \in Shapes, c \in calls, l \in leaves} = Bars
  BY DEF Bars
<1>1. PICK s \in Shapes, c \in calls, l \in leaves : shape = Bar(s, c, l)
  <2> HIDE DEF Bar, calls, leaves
  <2>1. shape \in {Bar(s, c, l) : s \in Shapes, c \in calls, l \in leaves}
    BY <1>0 DEF Setting
  <2> QED
    BY <2>1
<1>2. s.low \in Prices /\ s.high \in Prices /\ s.close \in Prices
  BY DEF StrategyConstants
<1>3. /\ shape.low = s.low /\ shape.high = s.high /\ shape.close = s.close /\ shape.calls = c
  BY <1>1
<1>4. \A side : Best(side) \in Int /\ Worst(side) \in Int
  <2>1. shape.low \in Int /\ shape.high \in Int
    BY <1>2, <1>3 DEF StrategyConstants
  <2>2. -shape.low \in Int /\ -shape.high \in Int
    BY <2>1
  <2> QED
    BY <2>1, <2>2 DEF Best, Worst
<1> QED
  BY <1>2, <1>3, <1>4

LEMMA NoneIsNone ==
  ASSUME StrategyConstants
  PROVE  /\ None \notin Int /\ None \notin Sides /\ None \notin Memories /\ None \notin PositionRows
         /\ Past \in Nat /\ Past > CooldownBars /\ CooldownBars \in Nat
         /\ \A p \in Prices : p \in Int /\ \A side : Way(side, p) \in Int
  BY DEF StrategyConstants, Past, Way

LEMMA LevelsType ==
  ASSUME StrategyConstants, Setting, NEW side \in profile.sides, NEW price \in Prices
  PROVE  /\ Levels(side, price) \in Positions
         /\ Levels(side, price).side = side /\ Levels(side, price).born = None
         /\ LevelsKnown(Levels(side, price))
<1>1. /\ profile \in Strategies /\ Consistent(profile) /\ side \in Sides
      /\ Way(side, price) \in Int
  BY Profile, NoneIsNone
<1> DEFINE w == Way(side, price)
<1>2. w \in Int /\ w - Gap \in Int /\ w + 2 * Gap \in Int
  BY <1>1 DEF Gap
<1> DEFINE stop == IF profile.stop = "none" THEN None ELSE w - Gap
           target == IF profile.target THEN w + 2 * Gap ELSE None
           peak == IF profile.trail \in {"ratchet", "peak"} THEN w ELSE None
           pos == [side |-> side, entry |-> w, stop |-> stop, target |-> target, peak |-> peak,
                   late |-> FALSE, born |-> None]
<1>3. Levels(side, price) = pos
  BY DEF Levels
<1>4. stop \in Levelled /\ target \in Levelled /\ peak \in Levelled /\ w \in Levelled
  BY <1>2 DEF Levelled
<1>5. /\ profile.stop = "fixed" => stop \in Int
      /\ profile.trail \in {"ratchet", "peak"} => peak \in Int
  BY <1>2
<1> HIDE DEF w, stop, target, peak
<1>6. pos \in Positions
  BY <1>1, <1>4 DEF Positions
<1>7. LevelsKnown(pos)
  BY <1>2, <1>5 DEF LevelsKnown
<1> QED
  BY <1>3, <1>6, <1>7

(* Positions with one or the other field changed.                          *)
LEMMA ChangedPosition ==
  ASSUME NEW pos \in Positions
  PROVE  /\ \A x \in Levelled : /\ [pos EXCEPT !.stop = x] \in Positions
                                /\ [pos EXCEPT !.target = x] \in Positions
                                /\ [pos EXCEPT !.peak = x] \in Positions
                                /\ [pos EXCEPT !.entry = x] \in Positions
         /\ \A x \in BOOLEAN : [pos EXCEPT !.late = x] \in Positions
         /\ \A x \in {None} \cup Nat : [pos EXCEPT !.born = x] \in Positions
<1>1. \A x \in Levelled : /\ [pos EXCEPT !.stop = x] \in Positions
                          /\ [pos EXCEPT !.target = x] \in Positions
  BY DEF Positions
<1>2. \A x \in Levelled : /\ [pos EXCEPT !.peak = x] \in Positions
                          /\ [pos EXCEPT !.entry = x] \in Positions
  BY DEF Positions
<1>3. \A x \in BOOLEAN : [pos EXCEPT !.late = x] \in Positions
  BY DEF Positions
<1>4. \A x \in {None} \cup Nat : [pos EXCEPT !.born = x] \in Positions
  BY DEF Positions
<1> QED
  BY <1>1, <1>2, <1>3, <1>4

LEMMA SoundParts ==
  ASSUME NEW m, Sound(m)
  PROVE  /\ m.pos \in Positions /\ m.cool \in Cooldowns
         /\ \A pos \in Positions : /\ [m EXCEPT !.pos = pos] \in Memories
                                   /\ [m EXCEPT !.pos = pos].pos = pos
                                   /\ [m EXCEPT !.pos = pos].cool = m.cool
         /\ \A c \in Cooldowns : /\ [m EXCEPT !.cool = c] \in Memories
                                 /\ [m EXCEPT !.cool = c].cool = c
                                 /\ [m EXCEPT !.cool = c].pos = m.pos
<1>1. m \in [pos : Positions, cool : Cooldowns]
  BY DEF Sound, Memories
<1> QED
  BY <1>1 DEF Memories

LEMMA LargerType ==
  \A a, b \in Int : Larger(a, b) \in Int /\ Larger(a, b) >= a /\ Larger(a, b) >= b
  BY DEF Larger

(* A candle moves the levels of a position only the way that protects it,   *)
(* and leaves its side.                                                    *)
LEMMA ManagedType ==
  ASSUME StrategyConstants, Setting, NEW pos \in Positions, pos.side # None, LevelsKnown(pos)
  PROVE  /\ Managed(pos) \in Positions /\ Managed(pos).side = pos.side
         /\ LevelsKnown(Managed(pos)) /\ NoLooser(pos, Managed(pos))
         /\ profile.exports = FALSE => Managed(pos) = pos
<1> DEFINE best == Best(pos.side)
           top == IF pos.peak = None THEN best ELSE Larger(pos.peak, best)
           due == best >= pos.entry + 2 * Gap
<1>0. /\ profile \in Strategies /\ Consistent(profile) /\ best \in Int /\ None \notin Int
      /\ pos.entry \in Int /\ pos.peak \in Levelled /\ pos.stop \in Levelled
      /\ Gap = 1
  <2>1. profile \in Strategies /\ Consistent(profile) /\ best \in Int /\ None \notin Int
    BY Profile, ShapeType, NoneIsNone
  <2>2. pos.entry \in Int /\ pos.peak \in Levelled /\ pos.stop \in Levelled
    BY DEF LevelsKnown, Positions
  <2> QED
    BY <2>1, <2>2 DEF Gap
<1>1. top \in Int /\ top >= best /\ (pos.peak \in Int => top >= pos.peak)
  <2>1. CASE pos.peak = None
    BY <1>0, <2>1
  <2>2. CASE pos.peak # None
    <3>1. pos.peak \in Int /\ top = Larger(pos.peak, best)
      BY <1>0, <2>2 DEF Levelled
    <3> HIDE DEF best, top
    <3> QED
      BY <1>0, <3>1, LargerType
  <2> QED
    BY <2>1, <2>2
<1>2. pos.late \in BOOLEAN /\ due \in BOOLEAN
  BY <1>0 DEF Positions
<1>3. profile.stop \in {"none", "fixed", "market", "both"}
      /\ profile.trail \in {"none", "ratchet", "peak", "late", "breakeven"}
  BY <1>0 DEF Strategies
<1>4. CASE profile.trail = "ratchet"
  <2> DEFINE stop == Larger(pos.stop, top - Gap)
             new == [pos EXCEPT !.peak = top, !.stop = stop]
  <2>1. pos.stop \in Int /\ stop \in Int /\ stop >= pos.stop
    <3>1. pos.stop \in Int /\ top - Gap \in Int
      BY <1>0, <1>1, <1>4 DEF LevelsKnown, Consistent
    <3> HIDE DEF top
    <3> QED
      BY <3>1, LargerType
  <2>2. Managed(pos) = new
    BY <1>4 DEF Managed
  <2>3. top \in Levelled /\ stop \in Levelled
    BY <1>1, <2>1 DEF Levelled
  <2> HIDE DEF top, stop
  <2>4. /\ new \in Positions /\ new.side = pos.side /\ new.entry = pos.entry
        /\ new.peak = top /\ new.stop = stop
    BY <2>3 DEF Positions
  <2> HIDE DEF new
  <2>5. LevelsKnown(new)
    BY <1>0, <1>1, <1>4, <2>1, <2>4 DEF LevelsKnown
  <2>6. NoLooser(pos, new)
    BY <1>0, <1>4, <2>1, <2>4 DEF NoLooser, Ratchet
  <2> QED
    BY <1>0, <1>4, <2>2, <2>4, <2>5, <2>6 DEF Consistent
<1>5. CASE profile.trail = "peak"
  <2> DEFINE new == [pos EXCEPT !.peak = top]
  <2>1. Managed(pos) = new
    BY <1>5 DEF Managed
  <2>2. top \in Levelled /\ pos.peak \in Int
    BY <1>1, <1>5 DEF Levelled, LevelsKnown
  <2> HIDE DEF top
  <2>3. /\ new \in Positions /\ new.side = pos.side /\ new.entry = pos.entry
        /\ new.peak = top /\ new.stop = pos.stop
    BY <2>2 DEF Positions
  <2> HIDE DEF new
  <2>4. LevelsKnown(new)
    BY <1>0, <1>1, <1>5, <2>3 DEF LevelsKnown
  <2>5. NoLooser(pos, new)
    BY <1>0, <1>1, <1>5, <2>2, <2>3 DEF NoLooser, Ratchet
  <2> QED
    BY <1>0, <1>5, <2>1, <2>3, <2>4, <2>5 DEF Consistent
<1>6. CASE profile.trail = "late"
  <2> DEFINE late == pos.late \/ due
             peak == IF pos.late \/ due THEN top ELSE pos.peak
             stop == IF best >= pos.entry + Gap THEN pos.entry ELSE pos.entry - Gap
             new == [pos EXCEPT !.late = late, !.peak = peak, !.stop = stop]
  <2>1. Managed(pos) = new
    BY <1>6 DEF Managed
  <2>2. /\ late \in BOOLEAN /\ peak \in Levelled /\ stop \in Levelled /\ stop \in Int
        /\ pos.late => late
        /\ late => peak = top
    BY <1>0, <1>1, <1>2 DEF Levelled
  <2> HIDE DEF late, peak, stop, top, due, best
  <2>3. /\ new \in Positions /\ new.side = pos.side /\ new.entry = pos.entry
        /\ new.peak = peak /\ new.stop = stop
    BY <2>2 DEF Positions
  <2>4. new.late = late
    BY <2>2 DEF Positions
  <2> HIDE DEF new
  <2>5. LevelsKnown(new)
    BY <1>0, <1>1, <1>6, <2>2, <2>3, <2>4 DEF LevelsKnown
  <2>6. NoLooser(pos, new)
    <3>1. CASE pos.late
      <4>1. pos.peak \in Int /\ new.late /\ new.peak = top
        BY <1>6, <2>2, <2>3, <2>4, <3>1 DEF LevelsKnown
      <4>2. Ratchet(pos) = pos.peak /\ Ratchet(new) = top
        BY <1>6, <3>1, <4>1 DEF Ratchet
      <4> QED
        BY <1>0, <1>1, <4>1, <4>2 DEF NoLooser
    <3>2. CASE ~pos.late
      <4>1. Ratchet(pos) = None
        BY <1>6, <3>2 DEF Ratchet
      <4> QED
        BY <4>1 DEF NoLooser
    <3> QED
      BY <3>1, <3>2
  <2> QED
    BY <1>0, <1>6, <2>1, <2>3, <2>5, <2>6 DEF Consistent
<1>7. CASE profile.trail = "breakeven"
  <2> DEFINE risk == pos.entry - pos.stop
             late == pos.late \/ (risk > 0 /\ best >= pos.entry + risk)
             new == [pos EXCEPT !.late = late]
  <2>1. Managed(pos) = new
    BY <1>7 DEF Managed
  <2>2. late \in BOOLEAN /\ (pos.late => late)
    BY <1>2
  <2> HIDE DEF late
  <2>3. /\ new \in Positions /\ new.side = pos.side /\ new.entry = pos.entry
        /\ new.peak = pos.peak /\ new.stop = pos.stop
    BY <2>2 DEF Positions
  <2>4. new.late = late
    BY <2>2 DEF Positions
  <2> HIDE DEF new
  <2>5. LevelsKnown(new)
    BY <1>0, <1>7, <2>3 DEF LevelsKnown
  <2>6. NoLooser(pos, new)
    <3>1. CASE pos.late
      <4>1. Ratchet(pos) = 0 /\ Ratchet(new) = 0
        BY <1>7, <2>2, <2>4, <3>1 DEF Ratchet
      <4> QED
        BY <1>0, <4>1 DEF NoLooser
    <3>2. CASE ~pos.late
      <4>1. Ratchet(pos) = None
        BY <1>7, <3>2 DEF Ratchet
      <4> QED
        BY <4>1 DEF NoLooser
    <3> QED
      BY <3>1, <3>2
  <2> QED
    BY <1>0, <1>7, <2>1, <2>3, <2>5, <2>6 DEF Consistent
<1>8. CASE profile.trail = "none"
  <2> DEFINE newStop == [pos EXCEPT !.stop = pos.entry - Gap]
             newBoth == [pos EXCEPT !.stop = pos.entry - Gap, !.target = pos.entry + 2 * Gap]
  <2>1. \/ Managed(pos) = pos
        \/ profile.stop = "market" /\ Managed(pos) = newStop
        \/ profile.stop = "both" /\ Managed(pos) = newBoth
    BY <1>8 DEF Managed
  <2>2. pos.entry - Gap \in Levelled /\ pos.entry + 2 * Gap \in Levelled
    BY <1>0 DEF Levelled
  <2>3. /\ newStop \in Positions /\ newStop.side = pos.side /\ newStop.entry = pos.entry
        /\ newStop.peak = pos.peak
    BY <2>2 DEF Positions
  <2>4. /\ newBoth \in Positions /\ newBoth.side = pos.side /\ newBoth.entry = pos.entry
        /\ newBoth.peak = pos.peak
    BY <2>2 DEF Positions
  <2> HIDE DEF newStop, newBoth
  <2>5. \A q : NoLooser(pos, q)
    BY <1>8 DEF NoLooser, Ratchet
  <2>6. profile.exports = FALSE => profile.stop = "none"
    BY <1>0 DEF Consistent
  <2> QED
    BY <1>0, <1>8, <2>1, <2>3, <2>4, <2>5, <2>6 DEF LevelsKnown
<1> QED
  BY <1>3, <1>4, <1>5, <1>6, <1>7, <1>8

LEMMA FlatType ==
  ASSUME StrategyConstants, Setting
  PROVE  Flat \in Positions /\ Flat.side = None /\ Sound(Fresh) /\ Fresh.pos = Flat
<1>1. Flat \in Positions /\ Flat.side = None
  BY DEF Flat, Positions, Levelled
<1> DEFINE cool == [since |-> Past, seen |-> None, catchUp |-> FALSE, at |-> None]
<1>2. cool \in Cooldowns /\ cool.seen = None
  BY NoneIsNone DEF Cooldowns
<1> HIDE DEF cool
<1>3. Fresh = [pos |-> Flat, cool |-> cool]
  BY DEF Fresh, cool
<1>4. Fresh \in Memories /\ Fresh.pos = Flat /\ Fresh.cool = cool
  BY <1>1, <1>2, <1>3 DEF Memories
<1> QED
  BY <1>1, <1>2, <1>4 DEF Sound

(* A fill moves levels, never the side; what it does not know it leaves.   *)
LEMMA OnFilledType ==
  ASSUME StrategyConstants, Setting, NEW m, Sound(m), m.pos.side # None, NEW price \in Prices
  PROVE  /\ Sound(OnFilled(m, price)) /\ OnFilled(m, price).pos.side = m.pos.side
         /\ OnFilled(m, price).cool = m.cool
         /\ profile.refill = "levels"
            => OnFilled(m, price).pos.target = Levels(m.pos.side, price).target
         /\ profile.refill = "levels" => OnFilled(m, price).pos.stop = Levels(m.pos.side, price).stop
         /\ profile.refill = "nothing" => OnFilled(m, price) = m
<1> DEFINE side == m.pos.side
           w == Way(side, price)
<1>0. /\ side \in profile.sides /\ LevelsKnown(m.pos) /\ m.pos \in Positions
      /\ profile \in Strategies /\ w \in Int /\ None \notin Int
  BY Profile, NoneIsNone, SoundParts DEF Sound
<1>1. profile.refill \in {"levels", "shift", "entry", "nothing"}
  BY <1>0 DEF Strategies
<1>2. ASSUME NEW pos \in Positions, pos.side = side, LevelsKnown(pos)
      PROVE  /\ Sound([m EXCEPT !.pos = pos]) /\ [m EXCEPT !.pos = pos].pos = pos
             /\ [m EXCEPT !.pos = pos].cool = m.cool
  BY <1>0, <1>2, SoundParts DEF Sound
<1>3. CASE profile.refill = "levels"
  <2> DEFINE levels == Levels(side, price)
             pos == [levels EXCEPT !.born = m.pos.born]
  <2>1. OnFilled(m, price) = [m EXCEPT !.pos = pos]
    BY <1>3 DEF OnFilled
  <2>2. levels \in Positions /\ levels.side = side /\ LevelsKnown(levels)
    BY <1>0, LevelsType
  <2>3. m.pos.born \in {None} \cup Nat
    BY <1>0 DEF Positions
  <2> HIDE DEF levels
  <2>4. /\ pos \in Positions /\ pos.side = side /\ pos.entry = levels.entry
        /\ pos.stop = levels.stop /\ pos.peak = levels.peak /\ pos.target = levels.target
    BY <2>2, <2>3 DEF Positions
  <2>5. pos.late = levels.late
    BY <2>2, <2>3 DEF Positions
  <2> HIDE DEF pos
  <2>6. LevelsKnown(pos)
    BY <2>2, <2>4, <2>5 DEF LevelsKnown
  <2> QED
    BY <1>2, <1>3, <2>1, <2>4, <2>6 DEF levels
<1>4. CASE profile.refill = "shift"
  <2> DEFINE moved == w - m.pos.entry
             Shifted(x) == IF x = None THEN None ELSE x + moved
             pos == [m.pos EXCEPT !.entry = w, !.stop = Shifted(@), !.target = Shifted(@)]
  <2>1. OnFilled(m, price) = [m EXCEPT !.pos = pos]
    <3>1. OnFilled(m, price) = [m EXCEPT !.pos.entry = w, !.pos.stop = Shifted(@),
                                         !.pos.target = Shifted(@)]
      BY <1>4 DEF OnFilled
    <3>2. m \in [pos : Positions, cool : Cooldowns]
      BY DEF Sound, Memories
    <3> HIDE DEF Shifted, w
    <3> QED
      BY <1>0, <3>1, <3>2 DEF Positions
  <2>2. moved \in Int
    BY <1>0 DEF LevelsKnown
  <2>3. /\ w \in Levelled /\ \A x \in Levelled : Shifted(x) \in Levelled
        /\ \A x \in Int : Shifted(x) \in Int
    BY <1>0, <2>2 DEF Levelled
  <2> HIDE DEF Shifted, w
  <2>4. /\ pos \in Positions /\ pos.side = side /\ pos.entry = w
        /\ pos.stop = Shifted(m.pos.stop) /\ pos.peak = m.pos.peak
    BY <1>0, <2>3 DEF Positions
  <2>5. pos.late = m.pos.late
    BY <1>0, <2>3 DEF Positions
  <2> HIDE DEF pos
  <2>6. LevelsKnown(pos)
    BY <1>0, <2>3, <2>4, <2>5 DEF LevelsKnown
  <2> QED
    BY <1>2, <1>4, <2>1, <2>4, <2>6
<1>5. CASE profile.refill = "entry"
  <2> DEFINE pos == [m.pos EXCEPT !.entry = w]
  <2>1. OnFilled(m, price) = [m EXCEPT !.pos = pos]
    <3>1. OnFilled(m, price) = [m EXCEPT !.pos.entry = w]
      BY <1>5 DEF OnFilled
    <3> HIDE DEF w
    <3> QED
      BY <3>1
  <2>2. w \in Levelled
    BY <1>0 DEF Levelled
  <2> HIDE DEF w
  <2>3. /\ pos \in Positions /\ pos.side = side /\ pos.entry = w
        /\ pos.stop = m.pos.stop /\ pos.peak = m.pos.peak
    BY <1>0, <2>2 DEF Positions
  <2>4. pos.late = m.pos.late
    BY <1>0, <2>2 DEF Positions
  <2> HIDE DEF pos
  <2>5. LevelsKnown(pos)
    BY <1>0, <2>3, <2>4 DEF LevelsKnown
  <2> QED
    BY <1>2, <1>5, <2>1, <2>3, <2>5
<1>6. CASE profile.refill = "nothing"
  BY <1>6 DEF OnFilled
<1> QED
  BY <1>1, <1>3, <1>4, <1>5, <1>6

(* A cooldown counter takes in bars up to the present one, and never jumps. *)
LEMMA CountedType ==
  ASSUME StrategyConstants, Setting, NEW m, Sound(m)
  PROVE  /\ Counted(m) \in Cooldowns
         /\ Counted(m).seen # None => Counted(m).seen <= bar
         /\ Counted(m).at = m.cool.at
         /\ Counts => Counted(m).seen = bar
         /\ ~Counts => Counted(m) = m.cool
         /\ Counts /\ m.cool.seen # None
               => Counted(m).since <= m.cool.since + (bar - m.cool.seen)
<1> DEFINE c == m.cool
<1>0. /\ profile \in Strategies /\ bar \in Nat /\ None \notin Int /\ Past \in Nat
      /\ c \in Cooldowns /\ (c.seen # None => c.seen \in Nat /\ c.seen <= bar)
  <2>1. c \in Cooldowns /\ (c.seen # None => c.seen <= bar)
    BY SoundParts DEF Sound
  <2>2. c.seen # None => c.seen \in Nat
    BY <2>1 DEF Cooldowns
  <2> QED
    BY <2>1, <2>2, Profile, NoneIsNone DEF Setting
<1>1. c.since \in Nat /\ c.since <= Past
  BY <1>0 DEF Cooldowns
<1>2. ASSUME NEW n \in Nat
      PROVE  /\ Advanced(c, n) \in Cooldowns /\ Advanced(c, n).seen = bar
             /\ Advanced(c, n).at = c.at /\ Advanced(c, n).since <= c.since + n
  <2> DEFINE since == IF c.since + n > Past THEN Past ELSE c.since + n
             new == [c EXCEPT !.since = since, !.seen = bar, !.catchUp = FALSE]
  <2>1. Advanced(c, n) = new
    BY DEF Advanced
  <2>2. since \in 0..Past /\ since <= c.since + n
    BY <1>0, <1>1
  <2> HIDE DEF since
  <2>3. new \in Cooldowns /\ new.seen = bar /\ new.at = c.at /\ new.since = since
    BY <1>0, <2>2 DEF Cooldowns
  <2> QED
    BY <2>1, <2>2, <2>3
<1>3. profile.cooldown \in {"none", "perNewBar", "whileFlat", "entryBars", "entryTime"}
  BY <1>0 DEF Strategies
<1>4. CASE Counts
  <2>1. PICK n \in Nat : Counted(m) = Advanced(c, n) /\ (c.seen # None => n <= bar - c.seen)
    <3>1. CASE profile.cooldown = "perNewBar"
      <4> DEFINE n == IF c.seen \in {None, bar} THEN 0
                      ELSE IF c.catchUp THEN Elapsed(c.seen, bar) ELSE 1
      <4>1. Counted(m) = Advanced(c, n)
        BY <3>1 DEF Counted
      <4>2. n \in Nat /\ (c.seen # None => n <= bar - c.seen)
        BY <1>0 DEF Elapsed
      <4> HIDE DEF n
      <4> QED
        BY <4>1, <4>2
    <3>2. CASE profile.cooldown = "whileFlat"
      <4> DEFINE n == IF c.seen = None \/ Held(m) THEN 0 ELSE Elapsed(c.seen, bar)
      <4>1. Counted(m) = Advanced(c, n)
        BY <3>2 DEF Counted
      <4>2. n \in Nat /\ (c.seen # None => n <= bar - c.seen)
        BY <1>0 DEF Elapsed
      <4> HIDE DEF n
      <4> QED
        BY <4>1, <4>2
    <3> QED
      BY <1>4, <3>1, <3>2 DEF Counts
  <2>2. /\ Advanced(c, n) \in Cooldowns /\ Advanced(c, n).seen = bar
        /\ Advanced(c, n).at = c.at /\ Advanced(c, n).since <= c.since + n
    BY <1>2
  <2>3. Advanced(c, n).since \in Nat
    BY <2>2 DEF Cooldowns
  <2>4. c.seen # None => Advanced(c, n).since <= c.since + (bar - c.seen)
    BY <1>0, <1>1, <2>1, <2>2, <2>3
  <2> QED
    BY <1>0, <1>4, <2>1, <2>2, <2>4
<1>5. CASE ~Counts
  <2>1. Counted(m) = c
    BY <1>3, <1>5 DEF Counted, Counts
  <2> QED
    BY <1>0, <1>5, <2>1
<1> QED
  BY <1>4, <1>5

-----------------------------------------------------------------------------
LEMMA SoundMemory ==
  ASSUME NEW pos \in Positions, NEW cool \in Cooldowns,
         pos.side # None => pos.side \in profile.sides /\ LevelsKnown(pos),
         cool.seen # None => cool.seen <= bar
  PROVE  /\ Sound([pos |-> pos, cool |-> cool])
         /\ \A m : Sound(m) => /\ Sound([m EXCEPT !.pos = pos])
                               /\ Sound([m EXCEPT !.cool = cool])
<1>1. Sound([pos |-> pos, cool |-> cool])
  BY DEF Sound, Memories
<1>2. ASSUME NEW m, Sound(m)
      PROVE  Sound([m EXCEPT !.pos = pos]) /\ Sound([m EXCEPT !.cool = cool])
  BY <1>2, SoundParts DEF Sound
<1> QED
  BY <1>1, <1>2

LEMMA ResetType ==
  ASSUME StrategyConstants, Setting, NEW m, Sound(m)
  PROVE  /\ Sound(ResetPosition(m)) /\ ResetPosition(m).pos = Flat
         /\ ResetPosition(m).cool = m.cool
  BY FlatType, SoundParts DEF ResetPosition, Sound

(* A cooldown apart from its catch-up flag.                                *)
SameCooldown(c, d) == c.since = d.since /\ c.seen = d.seen /\ c.at = d.at

LEMMA CatchUpChanged ==
  ASSUME NEW m, Sound(m), NEW x \in BOOLEAN
  PROVE  /\ Sound([m EXCEPT !.cool.catchUp = x])
         /\ [m EXCEPT !.cool.catchUp = x] \in Memories
         /\ [m EXCEPT !.cool.catchUp = x].pos = m.pos
         /\ SameCooldown([m EXCEPT !.cool.catchUp = x].cool, m.cool)
<1> DEFINE cool == [m.cool EXCEPT !.catchUp = x]
<1>1. [m EXCEPT !.cool.catchUp = x] = [m EXCEPT !.cool = cool]
  OBVIOUS
<1>2. cool \in Cooldowns /\ cool.since = m.cool.since /\ cool.seen = m.cool.seen
      /\ cool.at = m.cool.at
  BY SoundParts DEF Cooldowns
<1> HIDE DEF cool
<1>3. /\ [m EXCEPT !.cool = cool] \in Memories /\ [m EXCEPT !.cool = cool].cool = cool
      /\ [m EXCEPT !.cool = cool].pos = m.pos
  BY <1>2, SoundParts
<1>4. Sound([m EXCEPT !.cool = cool])
  BY <1>2, <1>3 DEF Sound
<1> QED
  BY <1>1, <1>2, <1>3, <1>4 DEF SameCooldown

(* What is exported is the memory, and nothing is lost that still counts.   *)
LEMMA ExportedType ==
  ASSUME StrategyConstants, Setting, NEW m, Sound(m)
  PROVE  /\ Exported(m) # None => /\ Sound(Exported(m)) /\ Exported(m).pos = m.pos
                                  /\ SameCooldown(Exported(m).cool, m.cool)
                                  /\ profile.exports
         /\ profile.exports /\ (Held(m) \/ m.cool.at # None) => Exported(m) # None
         /\ profile.exports /\ Counts /\ m.cool.seen # None /\ Exported(m) = None
               => ~Cooling(m.cool)
<1> DEFINE state == [m EXCEPT !.cool.catchUp = FALSE]
           carries == \/ profile.cooldown = "perNewBar" /\ Cooling(m.cool) /\ m.cool.seen # None
                      \/ profile.cooldown = "whileFlat" /\ Cooling(m.cool)
                      \/ m.cool.at # None
<1>1. Exported(m) = IF profile.exports /\ (Held(m) \/ carries) THEN state ELSE None
  BY DEF Exported
<1>2. Sound(state) /\ state \in Memories /\ state.pos = m.pos /\ SameCooldown(state.cool, m.cool)
  BY CatchUpChanged
<1>3. state # None
  BY <1>2, NoneIsNone
<1>4. /\ m.cool.at # None => carries
      /\ Counts /\ m.cool.seen # None /\ ~carries => ~Cooling(m.cool)
  BY DEF Counts
<1> HIDE DEF state, carries
<1> QED
  BY <1>1, <1>2, <1>3, <1>4

LEMMA RestoreJsonType ==
  ASSUME StrategyConstants, Setting, NEW m, NEW state, Sound(state)
  PROVE  /\ Sound(RestoreJson(m, state)) /\ RestoreJson(m, state).pos = state.pos
         /\ SameCooldown(RestoreJson(m, state).cool, state.cool)
<1>1. (profile.cooldown = "perNewBar" /\ state.cool.seen # None) \in BOOLEAN
  OBVIOUS
<1> QED
  BY <1>1, CatchUpChanged DEF RestoreJson

LEMMA RestoreStateType ==
  ASSUME StrategyConstants, Setting, NEW m, Sound(m), NEW side \in profile.sides,
         NEW price \in Prices
  PROVE  /\ Sound(RestoreState(m, side, price)) /\ RestoreState(m, side, price).pos.side = side
         /\ RestoreState(m, side, price).cool = m.cool
         /\ RestoreState(m, side, price).pos.born = None
         /\ profile.stop = "none" =>
               /\ RestoreState(m, side, price).pos.stop = None
               /\ RestoreState(m, side, price).pos.target = Levels(side, price).target
<1> DEFINE levels == Levels(side, price)
           stop == IF profile.stop \in {"market", "both"} THEN None ELSE levels.stop
           target == IF profile.stop = "both" THEN None ELSE levels.target
           pos == [levels EXCEPT !.stop = stop, !.target = target]
<1>1. RestoreState(m, side, price) = [m EXCEPT !.pos = pos]
  BY DEF RestoreState
<1>2. /\ levels \in Positions /\ levels.side = side /\ levels.born = None /\ LevelsKnown(levels)
      /\ side \in Sides /\ None \notin Sides
  BY LevelsType, Profile, NoneIsNone
<1>3. profile.stop = "none" => levels.stop = None
  BY DEF Levels
<1> HIDE DEF levels
<1>4. /\ stop \in Levelled /\ target \in Levelled
      /\ profile.stop = "fixed" => stop = levels.stop
      /\ profile.stop = "none" => stop = None /\ target = levels.target
  BY <1>2, <1>3 DEF Levelled, Positions
<1> HIDE DEF stop, target
<1>5. /\ pos \in Positions /\ pos.side = side /\ pos.entry = levels.entry /\ pos.stop = stop
      /\ pos.target = target /\ pos.peak = levels.peak /\ pos.born = None
  BY <1>2, <1>4 DEF Positions
<1>6. pos.late = levels.late
  BY <1>2, <1>4 DEF Positions
<1> HIDE DEF pos
<1>7. LevelsKnown(pos)
  BY <1>2, <1>4, <1>5, <1>6 DEF LevelsKnown
<1>8. Sound([m EXCEPT !.pos = pos]) /\ [m EXCEPT !.pos = pos].pos = pos
      /\ [m EXCEPT !.pos = pos].cool = m.cool
  BY <1>2, <1>5, <1>7, SoundParts DEF Sound
<1> QED
  BY <1>1, <1>4, <1>5, <1>8 DEF levels

(* What a candle makes of a memory, one way per decision.                  *)
Waits(m, d) ==
    /\ d.act = "none" /\ Sound(d.mem) /\ d.mem.pos.side = m.pos.side
    /\ d.mem.pos = m.pos \/ (Held(m) /\ d.mem.pos = Managed(m.pos))
    /\ d.mem.cool \in {m.cool, Counted(m)}

Enters(m, d) ==
    /\ d.act = "open" /\ Sound(d.mem) /\ d.side \in profile.sides /\ d.mem.pos.side = d.side
    /\ d.mem.pos.stop = Levels(d.side, shape.close).stop
    /\ d.mem.pos.target = Levels(d.side, shape.close).target
    /\ Held(m) => profile.flips /\ d.side # m.pos.side
    /\ ~Held(m) => /\ ~Cooling(Counted(m))
                   /\ d.mem.cool.since = Counted(m).since /\ d.mem.cool.seen = Counted(m).seen
                   /\ d.mem.cool.at = IF FromEntry THEN bar ELSE Counted(m).at

Leaves(m, d) ==
    /\ d.act = "close" /\ Sound(d.mem) /\ Held(m) /\ d.mem.pos = Flat
    /\ d.mem.cool.at = m.cool.at /\ (~Counts => d.mem.cool = m.cool)
    /\ Counts => /\ d.mem.cool.since = 0
                 /\ d.mem.cool.seen \in {m.cool.seen, bar}
                 /\ profile.cooldown = "whileFlat" => d.mem.cool.seen = bar

LEMMA EmptiedType ==
  ASSUME StrategyConstants, Setting, NEW m, Sound(m), NEW c \in Cooldowns,
         c.seen # None => c.seen <= bar
  PROVE  /\ Sound(Emptied(m, c)) /\ Emptied(m, c).pos = Flat
         /\ Emptied(m, c).cool.seen = c.seen /\ Emptied(m, c).cool.at = c.at
         /\ Counts => Emptied(m, c).cool.since = 0
         /\ ~Counts => Emptied(m, c).cool = c
<1> DEFINE since == IF Counts THEN 0 ELSE c.since
           cool == [c EXCEPT !.since = since]
<1>1. since \in 0..Past /\ (Counts => since = 0) /\ (~Counts => since = c.since)
  BY NoneIsNone DEF Cooldowns
<1>2. Emptied(m, c) = [m EXCEPT !.pos = Flat, !.cool = cool]
  BY DEF Emptied
<1> HIDE DEF since
<1>3. cool \in Cooldowns /\ cool.since = since /\ cool.seen = c.seen /\ cool.at = c.at
  BY <1>1 DEF Cooldowns
<1>4. ~Counts => cool = c
  BY <1>1 DEF Cooldowns
<1> HIDE DEF cool
<1>5. Sound(Emptied(m, c)) /\ Emptied(m, c).pos = Flat /\ Emptied(m, c).cool = cool
  <2> DEFINE new == [m EXCEPT !.pos = Flat, !.cool = cool]
  <2>1. m \in [pos : Positions, cool : Cooldowns] /\ Flat \in Positions /\ Flat.side = None
    BY FlatType DEF Sound, Memories
  <2>2. new \in Memories /\ new.pos = Flat /\ new.cool = cool
    BY <1>3, <2>1 DEF Memories
  <2> HIDE DEF new
  <2>3. Sound(new)
    BY <1>3, <2>1, <2>2 DEF Sound
  <2> QED
    BY <1>2, <2>2, <2>3 DEF new
<1> QED
  BY <1>1, <1>3, <1>4, <1>5

LEMMA DecisionParts ==
  ASSUME NEW m, NEW act, NEW side
  PROVE  /\ Decision(m, act, side).mem = m /\ Decision(m, act, side).act = act
         /\ Decision(m, act, side).side = side
  BY DEF Decision

LEMMA OnHeldType ==
  ASSUME StrategyConstants, Setting, NEW m, Sound(m), Held(m)
  PROVE  Waits(m, OnHeld(m)) \/ Enters(m, OnHeld(m)) \/ Leaves(m, OnHeld(m))
<1> DEFINE pos == Managed(m.pos)
           counted == Counted(m)
           before == IF profile.cooldown = "perNewBar" THEN m.cool ELSE counted
           stay == Decision(m, "none", None)
           out == Decision(Emptied(m, before), "close", pos.side)
           leave == Decision(Emptied(m, counted), "close", pos.side)
           flip == Decision([m EXCEPT !.pos = Levels(shape.calls, shape.close)], "open", shape.calls)
           hold == Decision([pos |-> pos, cool |-> counted], "none", None)
<1>1. \/ OnHeld(m) = stay
      \/ OnHeld(m) = out
      \/ OnHeld(m) = leave
      \/ OnHeld(m) = flip /\ profile.flips /\ shape.calls \notin {None, pos.side}
      \/ OnHeld(m) = hold
  BY DEF OnHeld
<1>2. /\ m.pos \in Positions /\ m.pos.side # None /\ LevelsKnown(m.pos) /\ m.cool \in Cooldowns
      /\ m.pos.side \in profile.sides /\ (m.cool.seen # None => m.cool.seen <= bar)
  BY SoundParts DEF Sound, Held
<1>3. pos \in Positions /\ pos.side = m.pos.side /\ LevelsKnown(pos)
  BY <1>2, ManagedType
<1>4. /\ counted \in Cooldowns /\ (counted.seen # None => counted.seen <= bar)
      /\ counted.at = m.cool.at /\ (Counts => counted.seen = bar) /\ (~Counts => counted = m.cool)
  BY CountedType
<1>5. CASE OnHeld(m) = stay
  BY <1>5, DecisionParts DEF Waits
<1>6. CASE OnHeld(m) = out
  <2>1. /\ before \in Cooldowns /\ (before.seen # None => before.seen <= bar)
        /\ before.at = m.cool.at /\ before.seen \in {m.cool.seen, bar}
        /\ (~Counts => before = m.cool)
        /\ profile.cooldown = "whileFlat" => before.seen = bar
    BY <1>2, <1>4 DEF Counts
  <2> HIDE DEF before, counted, pos
  <2>2. Leaves(m, out)
    BY <2>1, EmptiedType, DecisionParts DEF Leaves
  <2> QED
    BY <1>6, <2>2
<1>7. CASE OnHeld(m) = leave
  <2> HIDE DEF counted, pos
  <2>1. Leaves(m, leave)
    BY <1>4, EmptiedType, DecisionParts DEF Leaves
  <2> QED
    BY <1>7, <2>1
<1>8. CASE OnHeld(m) = flip /\ profile.flips /\ shape.calls \notin {None, pos.side}
  <2> DEFINE levels == Levels(shape.calls, shape.close)
  <2>1. shape.calls \in profile.sides /\ shape.close \in Prices
    BY <1>8, ShapeType
  <2>2. levels \in Positions /\ levels.side = shape.calls /\ LevelsKnown(levels)
    BY <2>1, LevelsType
  <2> HIDE DEF levels
  <2>3. /\ Sound([m EXCEPT !.pos = levels]) /\ [m EXCEPT !.pos = levels].pos = levels
    BY <1>2, <2>1, <2>2, SoundParts DEF Sound
  <2> DEFINE new == [m EXCEPT !.pos = levels]
  <2>4. flip = Decision(new, "open", shape.calls)
    BY DEF levels
  <2> HIDE DEF new, flip, pos
  <2>5. flip.mem = new /\ flip.act = "open" /\ flip.side = shape.calls
    BY <2>4, DecisionParts
  <2>6. Enters(m, flip)
    BY <1>3, <1>8, <2>1, <2>2, <2>3, <2>5 DEF Enters, new, levels
  <2> QED
    BY <1>8, <2>6
<1>9. CASE OnHeld(m) = hold
  <2> HIDE DEF counted, pos
  <2>1. Sound([pos |-> pos, cool |-> counted])
    BY <1>2, <1>3, <1>4, SoundMemory
  <2>2. Waits(m, hold)
    BY <1>2, <1>3, <2>1, DecisionParts DEF Waits, counted, pos
  <2> QED
    BY <1>9, <2>2
<1> QED
  BY <1>1, <1>5, <1>6, <1>7, <1>8, <1>9

LEMMA OnFlatType ==
  ASSUME StrategyConstants, Setting, NEW m, Sound(m), ~Held(m)
  PROVE  Waits(m, OnFlat(m)) \/ Enters(m, OnFlat(m))
<1> DEFINE c == Counted(m)
           side == shape.calls
           levels == Levels(side, shape.close)
           born == IF profile.skipsEntryBar THEN bar ELSE None
           peak == IF profile.trail = "peak" THEN Best(side) ELSE levels.peak
           entry == [levels EXCEPT !.born = born, !.peak = peak]
           at == IF FromEntry THEN bar ELSE c.at
           cool == [c EXCEPT !.at = at]
<1>1. \/ /\ OnFlat(m) = Decision([pos |-> entry, cool |-> cool], "open", side)
         /\ side \in profile.sides /\ ~Cooling(c)
      \/ OnFlat(m) = Decision([m EXCEPT !.cool = c], "none", None)
  BY DEF OnFlat, FromEntry
<1>2. /\ c \in Cooldowns /\ (c.seen # None => c.seen <= bar)
      /\ m.pos \in Positions /\ m.pos.side = None /\ bar \in Nat
  BY CountedType, SoundParts DEF Held, Setting
<1>3. CASE /\ OnFlat(m) = Decision([pos |-> entry, cool |-> cool], "open", side)
           /\ side \in profile.sides /\ ~Cooling(c)
  <2>1. levels \in Positions /\ levels.side = side /\ LevelsKnown(levels)
    BY <1>3, ShapeType, LevelsType
  <2>2. born \in {None} \cup Nat /\ Best(side) \in Int /\ at \in {None} \cup Nat
    BY <1>2, ShapeType DEF Cooldowns
  <2> HIDE DEF levels, born, side, at, c
  <2>3. peak \in Levelled /\ (profile.trail \in {"ratchet", "peak"} => peak \in Int)
        /\ (profile.trail = "late" => peak = levels.peak)
    BY <2>1, <2>2 DEF Levelled, LevelsKnown, Positions
  <2> HIDE DEF peak
  <2>4. /\ entry \in Positions /\ entry.side = side /\ entry.entry = levels.entry
        /\ entry.stop = levels.stop /\ entry.target = levels.target /\ entry.peak = peak
    BY <2>1, <2>2, <2>3 DEF Positions
  <2>5. entry.late = levels.late
    BY <2>1, <2>2, <2>3 DEF Positions
  <2>6. /\ cool \in Cooldowns /\ cool.since = c.since /\ cool.seen = c.seen /\ cool.at = at
    BY <1>2, <2>2 DEF Cooldowns
  <2> HIDE DEF entry, cool
  <2>7. LevelsKnown(entry)
    BY <2>1, <2>3, <2>4, <2>5 DEF LevelsKnown
  <2>8. Sound([pos |-> entry, cool |-> cool])
    BY <1>2, <1>3, <2>4, <2>6, <2>7, SoundMemory
  <2> QED
    BY <1>3, <2>4, <2>6, <2>8, DecisionParts DEF Enters, at, c, levels, side
<1>4. CASE OnFlat(m) = Decision([m EXCEPT !.cool = c], "none", None)
  <2> HIDE DEF c
  <2>1. /\ Sound([m EXCEPT !.cool = c]) /\ [m EXCEPT !.cool = c].pos = m.pos
        /\ [m EXCEPT !.cool = c].cool = c
    BY <1>2, SoundParts DEF Sound
  <2> DEFINE wait == Decision([m EXCEPT !.cool = c], "none", None)
  <2>2. wait.mem = [m EXCEPT !.cool = c] /\ wait.act = "none"
    BY DecisionParts
  <2> HIDE DEF wait
  <2>3. Waits(m, wait)
    BY <2>1, <2>2 DEF Waits, c
  <2> QED
    BY <1>4, <2>3 DEF wait
<1> QED
  BY <1>1, <1>3, <1>4

LEMMA OnCandleType ==
  ASSUME StrategyConstants, Setting, NEW m, Sound(m)
  PROVE  \/ Waits(m, OnCandle(m)) \/ Enters(m, OnCandle(m)) \/ Leaves(m, OnCandle(m))
  BY OnHeldType, OnFlatType DEF OnCandle

-----------------------------------------------------------------------------
RowSound(row) ==
    /\ row \in PositionRows /\ row.side \in profile.sides
    /\ row.state # None => /\ Sound(row.state) /\ profile.exports
                           /\ row.state.pos.side = row.side

Typed ==
    /\ profile \in Catalogue /\ bar \in 0..MaxBar /\ shape \in Bars /\ Sound(mem)
    /\ snap # None => Sound(snap)
    /\ posRow # None => RowSound(posRow)
    /\ up \in BOOLEAN /\ forgot \in BOOLEAN /\ astray \in BOOLEAN
    /\ ref \in {None} \cup 0..bar

LEMMA TypedSetting ==
  ASSUME StrategyConstants, Typed
  PROVE  /\ Setting /\ bar \in Nat /\ MaxBar \in Nat /\ Sound(mem) /\ Sound(Fresh)
         /\ Fresh.pos = Flat /\ Flat.side = None
<1>1. Setting /\ bar \in Nat /\ MaxBar \in Nat /\ Sound(mem)
  BY DEF Typed, Setting, StrategyConstants
<1> QED
  BY <1>1, FlatType

(* Where neither the strategy nor the bar changes.                         *)
LEMMA TypedStep ==
  ASSUME StrategyConstants, Typed, UNCHANGED <<profile, bar, shape>>, Sound(mem'),
         snap' # None => Sound(snap'), posRow' # None => RowSound(posRow'),
         up' \in BOOLEAN, forgot' \in BOOLEAN, astray' \in BOOLEAN,
         ref' \in {None} \cup 0..bar
  PROVE  Typed'
<1>1. Sound(mem)'
  BY DEF Sound, LevelsKnown
<1>2. (snap # None => Sound(snap))'
  BY DEF Sound, LevelsKnown
<1>3. (posRow # None => RowSound(posRow))'
  <2>1. ASSUME NEW state, Sound(state)
        PROVE  Sound(state)'
    BY <2>1 DEF Sound, LevelsKnown
  <2>2. posRow' # None /\ posRow'.state # None => Sound(posRow'.state)
    BY DEF RowSound
  <2>3. posRow' # None /\ posRow'.state # None => Sound(posRow.state)'
    BY <2>2 DEF Sound, LevelsKnown
  <2>4. posRow' # None /\ posRow'.state # None
        => profile'.exports /\ posRow'.state.pos.side = posRow'.side
    BY DEF RowSound
  <2>5. posRow' # None => posRow' \in PositionRows' /\ posRow'.side \in profile'.sides
    BY DEF RowSound
  <2> QED
    BY <2>3, <2>4, <2>5 DEF RowSound
<1>4. shape' \in Bars'
  <2> DEFINE BarsOf(p) == {[low |-> s.low, high |-> s.high, close |-> s.close, calls |-> c,
                            leave |-> l] : s \in Shapes, c \in {None} \cup p.sides,
                                           l \in IF p.rule THEN BOOLEAN ELSE {FALSE}}
  <2>1. Bars = BarsOf(profile) /\ Bars' = BarsOf(profile')
    BY DEF Bars
  <2>2. profile' = profile /\ shape' = shape /\ shape \in Bars
    BY DEF Typed
  <2> HIDE DEF BarsOf
  <2> QED
    BY <2>1, <2>2
<1> QED
  BY <1>1, <1>2, <1>3, <1>4 DEF Typed

(* From a row: what it says, or what its strategy derives from its price.   *)
LEMMA FromRowType ==
  ASSUME StrategyConstants, Setting, NEW m, Sound(m), NEW row, RowSound(row)
  PROVE  /\ Sound(FromRow(m, row)) /\ FromRow(m, row).pos.side = row.side
         /\ row.state = None => /\ FromRow(m, row) = RestoreState(m, row.side, row.price)
                                /\ FromRow(m, row).cool = m.cool
         /\ row.state # None => SameCooldown(FromRow(m, row).cool, row.state.cool)
<1>1. row.side \in profile.sides /\ row.price \in Prices
  BY DEF RowSound, PositionRows
<1>2. CASE row.state = None
  BY <1>1, <1>2, RestoreStateType DEF FromRow
<1>3. CASE row.state # None
  BY <1>3, RestoreJsonType DEF FromRow, RowSound
<1> QED
  BY <1>2, <1>3

LEMMA KeptFacts ==
  ASSUME StrategyConstants, Typed, Kept
  PROVE  /\ posRow # None /\ RowSound(posRow) /\ UNCHANGED <<posRow, snap, astray>>
         /\ Sound(mem') /\ mem'.pos.side \in {mem.pos.side, posRow.side}
         /\ Exported(mem) # None => /\ mem'.pos = mem.pos /\ SameCooldown(mem'.cool, mem.cool)
                                    /\ profile.exports
         /\ Exported(mem) = None => mem' = FromRow(mem, posRow)
<1>1. Setting /\ Sound(mem) /\ posRow # None /\ RowSound(posRow)
  BY TypedSetting DEF Kept, Typed
<1>2. mem' = IF Exported(mem) # None THEN RestoreJson(mem, Exported(mem))
             ELSE FromRow(mem, posRow)
  BY DEF Kept, Resynced
<1>3. CASE Exported(mem) # None
  <2>1. /\ Sound(Exported(mem)) /\ Exported(mem).pos = mem.pos /\ profile.exports
        /\ SameCooldown(Exported(mem).cool, mem.cool)
    BY <1>1, <1>3, ExportedType
  <2>2. /\ Sound(mem') /\ mem'.pos = mem.pos /\ SameCooldown(mem'.cool, Exported(mem).cool)
    BY <1>1, <1>2, <1>3, <2>1, RestoreJsonType
  <2>3. SameCooldown(mem'.cool, mem.cool)
    BY <2>1, <2>2 DEF SameCooldown
  <2> QED
    BY <1>1, <1>3, <2>1, <2>2, <2>3 DEF Kept
<1>4. CASE Exported(mem) = None
  BY <1>1, <1>2, <1>4, FromRowType DEF Kept
<1> QED
  BY <1>3, <1>4

LEMMA LeftFlatFacts ==
  ASSUME StrategyConstants, Setting, NEW m, Sound(m), LeftFlat(m)
  PROVE  /\ Sound(mem') /\ mem'.pos = Flat /\ mem'.pos.side = None /\ mem'.cool = m.cool
         /\ snap' = Exported(mem') /\ (snap' # None => Sound(snap'))
         /\ posRow' = None /\ astray' = FALSE
<1>1. Sound(mem') /\ mem'.pos = Flat /\ mem'.cool = m.cool
  BY ResetType DEF LeftFlat
<1>2. snap' = Exported(mem') /\ posRow' = None /\ astray' = FALSE
  BY DEF LeftFlat
<1> QED
  BY <1>1, <1>2, FlatType, ExportedType

LEMMA OpenedFacts ==
  ASSUME StrategyConstants, Setting, NEW d, Enters(mem, d), Opened(d)
  PROVE  \E price \in Prices, kept \in BOOLEAN :
            /\ mem' = OnFilled(d.mem, price) /\ Sound(mem') /\ mem'.pos.side = d.side
            /\ mem'.pos.side # None /\ mem'.cool = d.mem.cool
            /\ snap' = Exported(mem') /\ (snap' # None => Sound(snap'))
            /\ posRow' # None /\ RowSound(posRow') /\ posRow'.side = d.side
            /\ posRow'.price = price
            /\ posRow'.state = IF kept THEN Exported(mem') ELSE None
            /\ ref' = (IF FromEntry THEN bar ELSE None)
            /\ forgot' = (FromEntry /\ ~kept) /\ astray' = FALSE
<1>1. PICK price \in Prices, kept \in BOOLEAN :
            /\ mem' = OnFilled(d.mem, price) /\ snap' = Exported(OnFilled(d.mem, price))
            /\ posRow' = [side |-> d.side, price |-> price, at |-> bar,
                          state |-> IF kept THEN Exported(OnFilled(d.mem, price)) ELSE None]
            /\ ref' = (IF FromEntry THEN bar ELSE None)
            /\ forgot' = (FromEntry /\ ~kept) /\ astray' = FALSE
  BY DEF Opened
<1>2. /\ Sound(d.mem) /\ d.mem.pos.side = d.side /\ d.side \in profile.sides
      /\ d.side \in Sides /\ d.side # None /\ bar \in Nat
  BY Profile, NoneIsNone DEF Enters, Setting
<1>3. Sound(mem') /\ mem'.pos.side = d.side /\ mem'.cool = d.mem.cool
  BY <1>1, <1>2, OnFilledType
<1>4. /\ snap' = Exported(mem')
      /\ snap' # None => /\ Sound(snap') /\ snap' \in Memories /\ snap'.pos = mem'.pos
                         /\ profile.exports
  BY <1>1, <1>3, ExportedType DEF Sound
<1> DEFINE state == IF kept THEN Exported(mem') ELSE None
           row == [side |-> d.side, price |-> price, at |-> bar, state |-> state]
<1>5. posRow' = row
  BY <1>1
<1>6. state \in {None} \cup Memories
  BY <1>4
<1> HIDE DEF state
<1>7. row \in PositionRows /\ row.side = d.side /\ row.price = price /\ row.state = state
  BY <1>2, <1>6 DEF PositionRows
<1> HIDE DEF row
<1>8. RowSound(row)
  BY <1>2, <1>3, <1>4, <1>7 DEF RowSound, state
<1>9. row # None
  BY <1>7, NoneIsNone
<1>10. /\ mem' = OnFilled(d.mem, price)
       /\ ref' = (IF FromEntry THEN bar ELSE None)
       /\ forgot' = (FromEntry /\ ~kept) /\ astray' = FALSE
  BY <1>1
<1> QED
  BY <1>2, <1>3, <1>4, <1>5, <1>7, <1>8, <1>9, <1>10 DEF state

(* A tick by what the candle decided and what became of it.                 *)
LEMMA TickCases ==
  ASSUME StrategyConstants, Typed, Tick, NEW P,
         ASSUME NEW d, d = OnCandle(mem), Waits(mem, d), mem' = d.mem,
                UNCHANGED <<posRow, snap, ref, forgot, astray>>
         PROVE  P,
         ASSUME NEW d, Enters(mem, d), Opened(d) PROVE P,
         ASSUME NEW d, Enters(mem, d), LeftFlat(d.mem), UNCHANGED <<ref, forgot>> PROVE P,
         ASSUME NEW d, Enters(mem, d), posRow = None, mem' = d.mem, astray' = TRUE,
                UNCHANGED <<posRow, snap, ref, forgot>>
         PROVE  P,
         ASSUME NEW d, Leaves(mem, d), Closed(d) PROVE P,
         ASSUME NEW d, Leaves(mem, d), posRow = None, LeftFlat(d.mem), UNCHANGED <<ref, forgot>>
         PROVE  P,
         ASSUME Kept, UNCHANGED <<ref, forgot>> PROVE P
  PROVE  P
<1> DEFINE d == OnCandle(mem)
<1>1. Waits(mem, d) \/ Enters(mem, d) \/ Leaves(mem, d)
  BY TypedSetting, OnCandleType
<1>2. /\ Waits(mem, d) => d.act = "none"
      /\ Enters(mem, d) => d.act = "open"
      /\ Leaves(mem, d) => d.act = "close"
  BY DEF Waits, Enters, Leaves
<1>3. \/ d.act = "none" /\ mem' = d.mem /\ UNCHANGED <<posRow, snap, ref, forgot, astray>>
      \/ d.act = "open" /\ Opened(d)
      \/ d.act = "open" /\ LeftFlat(d.mem) /\ UNCHANGED <<ref, forgot>>
      \/ d.act = "open" /\ posRow = None /\ NotFilled(d.mem) /\ UNCHANGED <<ref, forgot>>
      \/ d.act = "close" /\ Closed(d)
      \/ d.act = "close" /\ posRow = None /\ LeftFlat(d.mem) /\ UNCHANGED <<ref, forgot>>
      \/ Kept /\ UNCHANGED <<ref, forgot>>
  BY DEF Tick, Refused
<1>4. d = OnCandle(mem)
  OBVIOUS
<1> HIDE DEF d
<1> QED
  BY <1>1, <1>2, <1>3, <1>4 DEF NotFilled

-----------------------------------------------------------------------------
(* Types, action by action.                                                *)
LEMMA NewBarTyped ==
  ASSUME StrategyConstants, Typed, NewBar
  PROVE  Typed'
<1>1. /\ bar \in Nat /\ MaxBar \in Nat /\ bar < MaxBar /\ bar' = bar + 1 /\ shape' \in Bars
      /\ UNCHANGED <<profile, mem, posRow, snap, up, ref, forgot, astray>>
      /\ ref \in {None} \cup 0..bar
  BY TypedSetting DEF NewBar, Typed
<1>2. bar' \in 0..MaxBar' /\ ref' \in {None} \cup 0..bar'
  BY <1>1
<1>4. Sound(mem)'
  <2>1. mem.cool.seen # None => mem.cool.seen \in Nat
    BY DEF Typed, Sound, Memories, Cooldowns
  <2> QED
    BY <1>1, <2>1 DEF Typed, Sound, LevelsKnown
<1>5. (snap # None => Sound(snap))'
  <2>1. snap # None /\ snap.cool.seen # None => snap.cool.seen \in Nat
    BY DEF Typed, Sound, Memories, Cooldowns
  <2> QED
    BY <1>1, <2>1 DEF Typed, Sound, LevelsKnown
<1>6. (posRow # None => RowSound(posRow))'
  <2> SUFFICES ASSUME posRow # None
               PROVE  RowSound(posRow)'
    BY <1>1
  <2>1. posRow \in PositionRows /\ posRow.side \in profile.sides
    BY DEF Typed, RowSound
  <2>2. CASE posRow.state = None
    BY <1>1, <2>1, <2>2 DEF RowSound
  <2>3. CASE posRow.state # None
    <3>1. Sound(posRow.state) /\ profile.exports /\ posRow.state.pos.side = posRow.side
      BY <2>3 DEF Typed, RowSound
    <3>2. posRow.state.cool.seen # None => posRow.state.cool.seen \in Nat
      BY <3>1 DEF Sound, Memories, Cooldowns
    <3>3. Sound(posRow.state)'
      BY <1>1, <3>1, <3>2 DEF Sound, LevelsKnown
    <3> QED
      BY <1>1, <2>1, <3>1, <3>3 DEF RowSound
  <2> QED
    BY <2>2, <2>3
<1>7. shape' \in Bars'
  <2> DEFINE BarsOf(p) == {[low |-> s.low, high |-> s.high, close |-> s.close, calls |-> c,
                            leave |-> l] : s \in Shapes, c \in {None} \cup p.sides,
                                           l \in IF p.rule THEN BOOLEAN ELSE {FALSE}}
  <2>1. Bars = BarsOf(profile) /\ Bars' = BarsOf(profile')
    BY DEF Bars
  <2>2. profile' = profile /\ shape' \in Bars
    BY <1>1
  <2> HIDE DEF BarsOf
  <2> QED
    BY <2>1, <2>2
<1>8. /\ profile' \in Catalogue /\ up' \in BOOLEAN /\ forgot' \in BOOLEAN
      /\ astray' \in BOOLEAN
  BY <1>1 DEF Typed
<1> QED
  BY <1>2, <1>4, <1>5, <1>6, <1>7, <1>8 DEF Typed

LEMMA TickTyped ==
  ASSUME StrategyConstants, Typed, Tick
  PROVE  Typed'
<1> USE TypedSetting
<1>0. /\ UNCHANGED <<profile, bar, shape, up>> /\ up \in BOOLEAN
      /\ snap # None => Sound(snap)
      /\ posRow # None => RowSound(posRow)
      /\ forgot \in BOOLEAN /\ astray \in BOOLEAN
      /\ ref \in {None} \cup 0..bar /\ bar \in 0..bar
  BY DEF Tick, Typed
<1> DEFINE Moved == UNCHANGED <<profile, bar, shape, up>>
<1>1. ASSUME NEW d, Waits(mem, d), mem' = d.mem,
             UNCHANGED <<posRow, snap, ref, forgot, astray>>
      PROVE  Typed'
  <2>1. Sound(mem')
    BY <1>1 DEF Waits
  <2> QED
    BY <1>0, <1>1, <2>1, TypedStep
<1>2. ASSUME NEW d, Enters(mem, d), Opened(d)
      PROVE  Typed'
  <2>1. PICK price \in Prices, kept \in BOOLEAN :
            /\ Sound(mem') /\ (snap' # None => Sound(snap')) /\ RowSound(posRow')
            /\ ref' = (IF FromEntry THEN bar ELSE None)
            /\ forgot' = (FromEntry /\ ~kept) /\ astray' = FALSE
    BY <1>2, OpenedFacts
  <2>2. ref' \in {None} \cup 0..bar
    BY <1>0, <2>1
  <2>3. forgot' \in BOOLEAN /\ astray' \in BOOLEAN
    BY <2>1
  <2> QED
    BY <1>0, <2>1, <2>2, <2>3, TypedStep
<1>3. ASSUME NEW d, Sound(d.mem), LeftFlat(d.mem), UNCHANGED <<ref, forgot>>
      PROVE  Typed'
  BY <1>0, <1>3, LeftFlatFacts, TypedStep
<1>4. ASSUME NEW d, Enters(mem, d), posRow = None, mem' = d.mem, astray' = TRUE,
             UNCHANGED <<posRow, snap, ref, forgot>>
      PROVE  Typed'
  <2>1. Sound(mem')
    BY <1>4 DEF Enters
  <2> QED
    BY <1>0, <1>4, <2>1, TypedStep
<1>5. ASSUME NEW d, Leaves(mem, d), Closed(d)
      PROVE  Typed'
  <2>1. /\ mem' = d.mem /\ snap' = Exported(d.mem) /\ posRow' = None /\ astray' = FALSE
        /\ ref' = IF Counts THEN bar ELSE ref
        /\ forgot' = IF Counts THEN d.mem.cool.seen = None \/ bar - d.mem.cool.seen > 1
                               ELSE forgot
    BY <1>5 DEF Closed
  <2>2. Sound(mem') /\ (snap' # None => Sound(snap'))
    BY <1>5, <2>1, ExportedType DEF Leaves
  <2>3. ref' \in {None} \cup 0..bar
    BY <1>0, <2>1
  <2>4. forgot' \in BOOLEAN
    BY <1>0, <2>1
  <2> QED
    BY <1>0, <2>1, <2>2, <2>3, <2>4, TypedStep
<1>6. ASSUME Kept, UNCHANGED <<ref, forgot>>
      PROVE  Typed'
  BY <1>0, <1>6, KeptFacts, TypedStep
<1>7. \A d : (Enters(mem, d) \/ Leaves(mem, d)) => Sound(d.mem)
  BY DEF Enters, Leaves
<1> QED
  BY <1>1, <1>2, <1>3, <1>4, <1>5, <1>6, <1>7, TickCases

(* A restart reads the row, or the snapshot, into a new object.             *)
LEMMA RestoreFlatFacts ==
  ASSUME StrategyConstants, Typed, RestoreFlat
  PROVE  /\ Sound(mem') /\ mem'.pos = Flat /\ (snap' # None => Sound(snap'))
         /\ snap # None => SameCooldown(mem'.cool, snap.cool)
         /\ snap # None /\ Held(snap) => snap' = Exported(mem')
         /\ ~(snap # None /\ Held(snap)) => snap' = snap
         /\ snap = None => mem' = Fresh
         /\ posRow = None /\ posRow' = None /\ up' = TRUE
         /\ UNCHANGED <<profile, bar, shape, ref, forgot, astray>>
<1>1. Setting /\ Sound(Fresh) /\ Fresh.pos = Flat /\ (snap # None => Sound(snap))
  BY TypedSetting DEF Typed
<1>2. /\ snap = None => mem' = Fresh
      /\ snap # None => mem' = CooldownOnly(snap)
      /\ snap # None /\ Held(snap) => snap' = Exported(mem')
      /\ ~(snap # None /\ Held(snap)) => snap' = snap
      /\ posRow = None /\ posRow' = None /\ up' = TRUE
      /\ UNCHANGED <<profile, bar, shape, ref, forgot, astray>>
  BY DEF RestoreFlat
<1>3. Sound(mem') /\ mem'.pos = Flat /\ (snap # None => SameCooldown(mem'.cool, snap.cool))
  <2>1. CASE snap = None
    BY <1>1, <1>2, <2>1
  <2>2. CASE snap # None
    <3>1. /\ Sound(RestoreJson(Fresh, snap))
          /\ SameCooldown(RestoreJson(Fresh, snap).cool, snap.cool)
      BY <1>1, <2>2, RestoreJsonType
    <3> QED
      BY <1>1, <1>2, <2>2, <3>1, ResetType DEF CooldownOnly
  <2> QED
    BY <2>1, <2>2
<1>4. snap' # None => Sound(snap')
  BY <1>1, <1>2, <1>3, ExportedType
<1> QED
  BY <1>2, <1>3, <1>4

LEMMA RestTyped ==
  ASSUME StrategyConstants, Typed,
         \/ CloseOutside \/ Crash \/ CrashBeforeSnapshot \/ StartupReconcileCloses
         \/ RestoreHolding \/ RestoreFlat \/ UNCHANGED strategyVars
  PROVE  Typed'
<1>0. /\ up \in BOOLEAN /\ (snap # None => Sound(snap)) /\ (posRow # None => RowSound(posRow))
      /\ forgot \in BOOLEAN /\ astray \in BOOLEAN /\ ref \in {None} \cup 0..bar
      /\ Setting /\ Sound(mem) /\ Sound(Fresh)
  BY TypedSetting DEF Typed
<1>1. CASE CloseOutside
  BY <1>0, <1>1, LeftFlatFacts, TypedStep DEF CloseOutside
<1>2. CASE Crash
  BY <1>0, <1>2, TypedStep DEF Crash
<1>3. CASE CrashBeforeSnapshot
  <2>1. ref' \in {None} \cup 0..bar
    BY <1>0, <1>3 DEF CrashBeforeSnapshot
  <2> QED
    BY <1>0, <1>3, <2>1, TypedStep DEF CrashBeforeSnapshot
<1>4. CASE StartupReconcileCloses
  BY <1>0, <1>4, LeftFlatFacts, TypedStep DEF StartupReconcileCloses
<1>5. CASE RestoreHolding
  BY <1>0, <1>5, FromRowType, TypedStep DEF RestoreHolding
<1>6. CASE RestoreFlat
  BY <1>0, <1>6, RestoreFlatFacts, TypedStep
<1>7. CASE UNCHANGED strategyVars
  <2>1. UNCHANGED <<profile, bar, shape, mem, posRow, snap, up, ref, forgot, astray>>
    BY <1>7 DEF strategyVars
  <2> QED
    BY <1>0, <2>1, TypedStep
<1> QED
  BY <1>1, <1>2, <1>3, <1>4, <1>5, <1>6, <1>7

LEMMA InitTyped ==
  ASSUME StrategyConstants, Init
  PROVE  Typed
<1>1. /\ profile \in Catalogue /\ bar = 0 /\ shape \in Bars /\ mem = Fresh /\ posRow = None
      /\ snap = None /\ up = TRUE /\ ref = None /\ forgot = FALSE /\ astray = FALSE
  BY DEF Init
<1>2. bar \in Nat /\ bar \in 0..MaxBar
  BY <1>1 DEF StrategyConstants
<1>3. Sound(mem)
  BY <1>1, <1>2, FlatType DEF Setting
<1> QED
  BY <1>1, <1>2, <1>3 DEF Typed

LEMMA NextTyped ==
  ASSUME StrategyConstants, Typed, [Next]_strategyVars
  PROVE  Typed'
  BY NewBarTyped, TickTyped, RestTyped DEF Next

(* No step puts a value where it does not belong: what is exported and read *)
(* back is a memory, a row's side is one the strategy trades.              *)
THEOREM StateTypes ==
  ASSUME StrategyConstants
  PROVE  Spec => []TypeOK
<1>1. Init => Typed
  BY InitTyped
<1>2. Typed /\ [Next]_strategyVars => Typed'
  BY NextTyped
<1>3. Typed => TypeOK
  <2> SUFFICES ASSUME Typed
               PROVE  TypeOK
    OBVIOUS
  <2>1. mem \in Memories /\ snap \in {None} \cup Memories
    BY DEF Typed, Sound
  <2>2. posRow # None => posRow \in PositionRows /\ posRow.side \in profile.sides
    BY DEF Typed, RowSound
  <2>3. ref \in (0..MaxBar) \cup {None}
    BY TypedSetting DEF Typed
  <2>4. bar \in 0..MaxBar /\ up \in BOOLEAN /\ {forgot, astray} \subseteq BOOLEAN
    BY DEF Typed
  <2> QED
    BY <2>1, <2>2, <2>3, <2>4 DEF TypeOK
<1> QED
  BY <1>1, <1>2, <1>3, PTL DEF Spec

-----------------------------------------------------------------------------
(* The strategy believes in its row's position. An open that was sent, not  *)
(* filled and not told leaves no row behind, so that the next close brings  *)
(* the two together again.                                                 *)
RowInv == MemoryMatchesRow /\ (astray => posRow = None)

LEMMA TickMatches ==
  ASSUME StrategyConstants, Typed, RowInv, Tick
  PROVE  RowInv'
<1> USE TypedSetting
<1>0. /\ UNCHANGED <<profile, bar, shape, up>> /\ up
      /\ ~astray => mem.pos.side = IF posRow = None THEN None ELSE posRow.side
      /\ astray => posRow = None
  BY DEF Tick, RowInv, MemoryMatchesRow
<1>1. ASSUME NEW d, Waits(mem, d), mem' = d.mem,
             UNCHANGED <<posRow, snap, ref, forgot, astray>>
      PROVE  RowInv'
  BY <1>0, <1>1 DEF Waits, RowInv, MemoryMatchesRow
<1>2. ASSUME NEW d, Enters(mem, d), Opened(d)
      PROVE  RowInv'
  <2>1. posRow' # None /\ posRow'.side = d.side /\ mem'.pos.side = d.side /\ astray' = FALSE
    BY <1>2, OpenedFacts
  <2> QED
    BY <2>1 DEF RowInv, MemoryMatchesRow
<1>3. ASSUME NEW d, Sound(d.mem), LeftFlat(d.mem), UNCHANGED <<ref, forgot>>
      PROVE  RowInv'
  BY <1>3, LeftFlatFacts DEF RowInv, MemoryMatchesRow
<1>4. ASSUME NEW d, Enters(mem, d), posRow = None, mem' = d.mem, astray' = TRUE,
             UNCHANGED <<posRow, snap, ref, forgot>>
      PROVE  RowInv'
  BY <1>4 DEF RowInv, MemoryMatchesRow
<1>5. ASSUME NEW d, Leaves(mem, d), Closed(d)
      PROVE  RowInv'
  <2>1. mem' = d.mem /\ posRow' = None /\ astray' = FALSE /\ d.mem.pos.side = None
    BY <1>5 DEF Closed, Leaves
  <2> QED
    BY <2>1 DEF RowInv, MemoryMatchesRow
<1>6. ASSUME Kept, UNCHANGED <<ref, forgot>>
      PROVE  RowInv'
  <2>1. /\ posRow # None /\ UNCHANGED <<posRow, snap, astray>>
        /\ mem'.pos.side \in {mem.pos.side, posRow.side}
    BY <1>6, KeptFacts
  <2> QED
    BY <1>0, <2>1 DEF RowInv, MemoryMatchesRow
<1>7. \A d : (Enters(mem, d) \/ Leaves(mem, d)) => Sound(d.mem)
  BY DEF Enters, Leaves
<1> QED
  BY <1>1, <1>2, <1>3, <1>4, <1>5, <1>6, <1>7, TickCases

LEMMA NextMatches ==
  ASSUME StrategyConstants, Typed, RowInv, [Next]_strategyVars
  PROVE  RowInv'
<1>0. /\ Setting /\ Sound(mem) /\ Sound(Fresh) /\ (posRow # None => RowSound(posRow))
      /\ astray => posRow = None
      /\ up /\ ~astray => mem.pos.side = IF posRow = None THEN None ELSE posRow.side
  BY TypedSetting DEF Typed, RowInv, MemoryMatchesRow
<1>1. CASE NewBar
  BY <1>0, <1>1 DEF NewBar, RowInv, MemoryMatchesRow
<1>2. CASE Tick
  BY <1>2, TickMatches
<1>3. CASE CloseOutside
  BY <1>0, <1>3, LeftFlatFacts DEF CloseOutside, RowInv, MemoryMatchesRow
<1>4. CASE Crash
  BY <1>0, <1>4 DEF Crash, RowInv, MemoryMatchesRow
<1>5. CASE CrashBeforeSnapshot
  BY <1>0, <1>5 DEF CrashBeforeSnapshot, RowInv, MemoryMatchesRow
<1>6. CASE StartupReconcileCloses
  BY <1>0, <1>6, LeftFlatFacts DEF StartupReconcileCloses, RowInv, MemoryMatchesRow
<1>7. CASE RestoreHolding
  BY <1>0, <1>7, FromRowType DEF RestoreHolding, RowInv, MemoryMatchesRow
<1>8. CASE RestoreFlat
  BY <1>0, <1>8, RestoreFlatFacts, FlatType DEF RowInv, MemoryMatchesRow
<1>9. CASE UNCHANGED strategyVars
  BY <1>0, <1>9 DEF strategyVars, RowInv, MemoryMatchesRow
<1> QED
  BY <1>1, <1>2, <1>3, <1>4, <1>5, <1>6, <1>7, <1>8, <1>9 DEF Next

LEMMA InitInvariants ==
  ASSUME StrategyConstants, Init
  PROVE  Typed /\ RowInv
<1>1. Typed
  BY InitTyped
<1>2. mem = Fresh /\ posRow = None /\ astray = FALSE
  BY DEF Init
<1> QED
  BY <1>1, <1>2, TypedSetting DEF RowInv, MemoryMatchesRow

(* A running strategy believes in exactly the position its row says, after  *)
(* any refusal, close from outside and restart: for every strategy, every  *)
(* set of prices and any number of bars.                                   *)
THEOREM MemoryAndRowAgree ==
  ASSUME StrategyConstants
  PROVE  Spec => []MemoryMatchesRow
<1>1. Init => Typed /\ RowInv
  BY InitInvariants
<1>2. Typed /\ RowInv /\ [Next]_strategyVars => Typed' /\ RowInv'
  BY NextTyped, NextMatches
<1>3. RowInv => MemoryMatchesRow
  BY DEF RowInv
<1> QED
  BY <1>1, <1>2, <1>3, PTL DEF Spec

-----------------------------------------------------------------------------
(* Protection.                                                             *)
LEMMA RatchetOf ==
  ASSUME Setting, NEW pos, LevelsKnown(pos)
  PROVE  NoLooser(pos, pos)
<1>1. profile.trail \in {"ratchet", "breakeven"} => profile.stop = "fixed"
  BY Profile DEF Consistent
<1>2. Ratchet(pos) # None => Ratchet(pos) \in Int
  BY <1>1 DEF Ratchet, LevelsKnown
<1> QED
  BY <1>2 DEF NoLooser

LEMMA TickKeepsRatchet ==
  ASSUME StrategyConstants, Typed, RowInv, Tick, posRow # None, posRow' = posRow
  PROVE  NoLooser(mem.pos, mem'.pos)
<1> USE TypedSetting
<1>0. /\ mem.pos.side = posRow.side /\ posRow.side # None /\ up
      /\ mem.pos \in Positions /\ LevelsKnown(mem.pos)
  <2>1. up /\ ~astray /\ posRow.side \in profile.sides
    BY DEF Tick, RowInv, Typed, RowSound
  <2>2. mem.pos.side = posRow.side /\ posRow.side # None
    BY <2>1, Profile, NoneIsNone DEF RowInv, MemoryMatchesRow
  <2> QED
    BY <2>1, <2>2, SoundParts DEF Sound
<1>1. ASSUME NEW d, d = OnCandle(mem), Waits(mem, d), mem' = d.mem,
             UNCHANGED <<posRow, snap, ref, forgot, astray>>
      PROVE  NoLooser(mem.pos, mem'.pos)
  <2>1. mem'.pos = mem.pos \/ mem'.pos = Managed(mem.pos)
    BY <1>1 DEF Waits
  <2> QED
    BY <1>0, <2>1, RatchetOf, ManagedType
<1>2. ASSUME NEW d, Enters(mem, d), Opened(d)
      PROVE  NoLooser(mem.pos, mem'.pos)
  <2>1. posRow'.side = d.side
    BY <1>2, OpenedFacts
  <2>2. d.side # mem.pos.side
    BY <1>0, <1>2 DEF Enters, Held
  <2> QED
    BY <1>0, <2>1, <2>2
<1>3. ASSUME NEW d, LeftFlat(d.mem)
      PROVE  NoLooser(mem.pos, mem'.pos)
  BY <1>3 DEF LeftFlat
<1>4. ASSUME NEW d, Closed(d)
      PROVE  NoLooser(mem.pos, mem'.pos)
  BY <1>4 DEF Closed
<1>5. ASSUME Kept
      PROVE  NoLooser(mem.pos, mem'.pos)
  <2>1. CASE Exported(mem) # None
    BY <1>0, <1>5, <2>1, KeptFacts, RatchetOf
  <2>2. CASE Exported(mem) = None
    <3>1. ~profile.exports
      BY <1>0, <2>2, ExportedType DEF Held
    <3>2. profile.trail = "none"
      BY <3>1, Profile DEF Consistent
    <3> QED
      BY <3>2 DEF NoLooser, Ratchet
  <2> QED
    BY <2>1, <2>2
<1> QED
  BY <1>1, <1>2, <1>3, <1>4, <1>5, TickCases

(* While the process runs and the position stays, protection once gained is *)
(* kept, also across closes the exchange refuses.                          *)
THEOREM RatchetIsKept ==
  ASSUME StrategyConstants
  PROVE  Spec => RatchetHolds
<1> DEFINE Step == up /\ up' /\ posRow # None /\ posRow' = posRow => NoLooser(mem.pos, mem'.pos)
<1>1. Init => Typed /\ RowInv
  BY InitInvariants
<1>2. Typed /\ RowInv /\ [Next]_strategyVars => Typed' /\ RowInv'
  BY NextTyped, NextMatches
<1>3. Typed /\ RowInv /\ [Next]_strategyVars => [Step]_strategyVars
  <2> SUFFICES ASSUME Typed, RowInv, Next, up, up', posRow # None, posRow' = posRow
               PROVE  NoLooser(mem.pos, mem'.pos)
    OBVIOUS
  <2>1. CASE NewBar
    <3>1. mem' = mem /\ posRow.side \in profile.sides /\ ~astray
      BY <2>1 DEF NewBar, Typed, RowSound, RowInv
    <3>2. mem.pos.side = posRow.side /\ posRow.side # None
      BY <3>1, Profile, TypedSetting, NoneIsNone DEF RowInv, MemoryMatchesRow
    <3> QED
      BY <3>1, <3>2, TypedSetting, RatchetOf DEF Sound
  <2>2. CASE Tick
    BY <2>2, TickKeepsRatchet
  <2> QED
    BY <2>1, <2>2 DEF Next, CloseOutside, LeftFlat, Crash, CrashBeforeSnapshot,
                      StartupReconcileCloses, RestoreHolding, RestoreFlat
<1> QED
  BY <1>1, <1>2, <1>3, PTL DEF Spec, RatchetHolds

-----------------------------------------------------------------------------
(* A strategy that persists nothing has one level at most, a target that    *)
(* goes by the fill: the row is enough to compute it again.                *)
LevelsFromRow ==
    ~profile.exports /\ up /\ posRow # None
    => /\ mem.pos.stop = None
       /\ mem.pos.target = Levels(posRow.side, posRow.price).target

LEMMA WithoutState ==
  ASSUME Setting, ~profile.exports
  PROVE  /\ profile.stop = "none" /\ profile.trail = "none"
         /\ profile.refill \in {"levels", "nothing"} /\ (profile.target => profile.refill = "levels")
         /\ \A side, price : /\ Levels(side, price).stop = None
                             /\ ~profile.target => Levels(side, price).target = None
<1>1. /\ profile.stop = "none" /\ profile.trail = "none"
      /\ profile.refill \in {"levels", "nothing"} /\ (profile.target => profile.refill = "levels")
  BY Profile DEF Consistent
<1> QED
  BY <1>1 DEF Levels

LEMMA FromBareRow ==
  ASSUME StrategyConstants, Setting, ~profile.exports, NEW m, Sound(m), NEW row, RowSound(row)
  PROVE  /\ FromRow(m, row).pos.stop = None /\ FromRow(m, row).pos.born = None
         /\ FromRow(m, row).pos.target = Levels(row.side, row.price).target
         /\ FromRow(m, row).pos.side = row.side
<1>1. row.state = None /\ row.side \in profile.sides /\ row.price \in Prices
  BY DEF RowSound, PositionRows
<1> QED
  BY <1>1, FromRowType, RestoreStateType, WithoutState

LEMMA RowlessState ==
  ASSUME StrategyConstants, Typed, Kept, ~profile.exports
  PROVE  /\ mem'.pos.stop = None /\ mem'.pos.born = None /\ posRow' = posRow /\ posRow # None
         /\ mem'.pos.target = Levels(posRow.side, posRow.price).target
         /\ mem'.pos.side = posRow.side
<1>1. Exported(mem) = None
  BY DEF Exported
<1> QED
  BY <1>1, TypedSetting, KeptFacts, FromBareRow

LEMMA TickLevels ==
  ASSUME StrategyConstants, Typed, RowInv, LevelsFromRow, Tick
  PROVE  LevelsFromRow'
<1> USE TypedSetting
<1> SUFFICES ASSUME ~profile.exports, up, posRow' # None, UNCHANGED <<profile, bar, shape, up>>
             PROVE  /\ mem'.pos.stop = None
                    /\ mem'.pos.target = Levels(posRow'.side, posRow'.price).target
  BY DEF Tick, LevelsFromRow, Levels, Way
<1>0. posRow # None => /\ mem.pos.stop = None
                       /\ mem.pos.target = Levels(posRow.side, posRow.price).target
                       /\ mem.pos.side = posRow.side /\ mem.pos.side # None
                       /\ mem.pos \in Positions /\ LevelsKnown(mem.pos)
  <2>1. posRow # None => ~astray /\ posRow.side \in profile.sides
    BY DEF RowInv, Typed, RowSound
  <2>2. posRow # None => mem.pos.side = posRow.side /\ posRow.side # None
    BY <2>1, Profile, NoneIsNone DEF RowInv, MemoryMatchesRow
  <2> QED
    BY <2>1, <2>2, SoundParts DEF Sound, LevelsFromRow
<1>1. ASSUME NEW d, d = OnCandle(mem), Waits(mem, d), mem' = d.mem,
             UNCHANGED <<posRow, snap, ref, forgot, astray>>
      PROVE  /\ mem'.pos.stop = None
             /\ mem'.pos.target = Levels(posRow'.side, posRow'.price).target
  <2>1. mem'.pos = mem.pos \/ mem'.pos = Managed(mem.pos)
    BY <1>1 DEF Waits
  <2>2. posRow' = posRow /\ posRow # None
    BY <1>1
  <2>3. profile.exports = FALSE
    BY Profile DEF Strategies
  <2>4. Managed(mem.pos) = mem.pos
    BY <1>0, <2>2, <2>3, ManagedType
  <2> QED
    BY <1>0, <2>1, <2>2, <2>4
<1>2. ASSUME NEW d, Enters(mem, d), Opened(d)
      PROVE  /\ mem'.pos.stop = None
             /\ mem'.pos.target = Levels(posRow'.side, posRow'.price).target
  <2>1. PICK price \in Prices :
            /\ mem' = OnFilled(d.mem, price) /\ posRow'.side = d.side /\ posRow'.price = price
    BY <1>2, OpenedFacts
  <2>2. /\ Sound(d.mem) /\ d.mem.pos.side = d.side /\ d.side # None
        /\ d.mem.pos.stop = Levels(d.side, shape.close).stop
        /\ d.mem.pos.target = Levels(d.side, shape.close).target
    BY <1>2, Profile, NoneIsNone DEF Enters
  <2>3. CASE profile.refill = "levels"
    BY <2>1, <2>2, <2>3, OnFilledType, WithoutState
  <2>4. CASE profile.refill = "nothing"
    BY <2>1, <2>2, <2>4, OnFilledType, WithoutState
  <2> QED
    BY <2>3, <2>4, WithoutState
<1>3. ASSUME NEW d, LeftFlat(d.mem)
      PROVE  /\ mem'.pos.stop = None
             /\ mem'.pos.target = Levels(posRow'.side, posRow'.price).target
  BY <1>3 DEF LeftFlat
<1>4. ASSUME NEW d, Closed(d)
      PROVE  /\ mem'.pos.stop = None
             /\ mem'.pos.target = Levels(posRow'.side, posRow'.price).target
  BY <1>4 DEF Closed
<1>5. ASSUME NEW d, posRow = None, UNCHANGED <<posRow, snap, ref, forgot>>
      PROVE  /\ mem'.pos.stop = None
             /\ mem'.pos.target = Levels(posRow'.side, posRow'.price).target
  BY <1>5
<1>6. ASSUME Kept
      PROVE  /\ mem'.pos.stop = None
             /\ mem'.pos.target = Levels(posRow'.side, posRow'.price).target
  BY <1>6, RowlessState
<1> QED
  BY <1>1, <1>2, <1>3, <1>4, <1>5, <1>6, TickCases

LEMMA NextLevels ==
  ASSUME StrategyConstants, Typed, RowInv, LevelsFromRow, [Next]_strategyVars
  PROVE  LevelsFromRow'
<1>1. CASE NewBar \/ UNCHANGED strategyVars
  BY <1>1 DEF NewBar, strategyVars, LevelsFromRow, Levels, Way
<1>2. CASE Tick
  BY <1>2, TickLevels
<1>3. CASE RestoreHolding
  <2> SUFFICES ASSUME ~profile.exports
               PROVE  /\ mem'.pos.stop = None
                      /\ mem'.pos.target = Levels(posRow.side, posRow.price).target
    BY <1>3 DEF RestoreHolding, LevelsFromRow, Levels, Way
  <2>1. posRow # None /\ mem' = FromRow(Fresh, posRow) /\ RowSound(posRow)
    BY <1>3 DEF RestoreHolding, Typed
  <2> QED
    BY <2>1, TypedSetting, FromBareRow
<1>4. CASE CloseOutside \/ Crash \/ CrashBeforeSnapshot \/ StartupReconcileCloses \/ RestoreFlat
  BY <1>4 DEF CloseOutside, LeftFlat, Crash, CrashBeforeSnapshot, StartupReconcileCloses,
              RestoreFlat, LevelsFromRow
<1> QED
  BY <1>1, <1>2, <1>3, <1>4 DEF Next

(* When a candle asks for an exit, by what the strategy holds.             *)
ExitDue(pos) ==
    /\ pos.side # None /\ ~SameBar(Managed(pos))
    /\ \/ Stopped(Managed(pos)) \/ Reached(Managed(pos))
       \/ profile.rule /\ shape.leave

LEMMA DueIs ==
  Due(mem) <=> ExitDue(mem.pos)
<1>1. CASE ~Held(mem)
  <2>1. \/ OnCandle(mem).act = "open" \/ OnCandle(mem).act = "none"
    BY <1>1 DEF OnCandle, OnFlat, Decision
  <2> QED
    BY <1>1, <2>1 DEF Due, ExitDue, Held
<1>2. CASE Held(mem)
  <2> DEFINE pos == Managed(mem.pos)
             out == Stopped(pos) \/ Reached(pos)
             leave == profile.rule /\ shape.leave
  <2>1. OnHeld(mem).act = IF SameBar(pos) THEN "none" ELSE IF out \/ leave THEN "close"
                          ELSE IF profile.flips /\ shape.calls \notin {None, pos.side}
                               THEN "open" ELSE "none"
    BY DEF OnHeld, Decision
  <2>2. ExitDue(mem.pos) <=> ~SameBar(pos) /\ (out \/ leave)
    BY <1>2 DEF ExitDue, Held
  <2> HIDE DEF pos, out, leave
  <2> QED
    BY <1>2, <2>1, <2>2 DEF Due, OnCandle
<1> QED
  BY <1>1, <1>2

(* An exit is due by the bar and the position alone.                       *)
LEMMA DueByThePosition ==
  ASSUME UNCHANGED <<profile, bar, shape>>, mem'.pos = mem.pos
  PROVE  Due(mem) => Due(mem)'
<1>1. Due(mem)' <=> ExitDue(mem.pos)'
  BY DueIs, PTL
<1>2. ExitDue(mem.pos)' <=> ExitDue(mem.pos)
  BY DEF ExitDue, SameBar, Stopped, Reached, StopAt, Managed, Best, Worst, Way, Larger
<1> QED
  BY <1>1, <1>2, DueIs

LEMMA DueAgain ==
  ASSUME StrategyConstants, Typed, RowInv, LevelsFromRow, Next, up, up',
         shape' = shape, bar' = bar, posRow # None, posRow' = posRow, Due(mem)
  PROVE  Due(mem)'
<1> USE TypedSetting
<1>1. Tick
  BY DEF Next, NewBar, CloseOutside, LeftFlat, Crash, CrashBeforeSnapshot,
         StartupReconcileCloses, RestoreHolding, RestoreFlat
<1>2. /\ UNCHANGED <<profile, bar, shape>> /\ ~astray /\ RowSound(posRow)
      /\ mem.pos.side = posRow.side
  BY <1>1 DEF Tick, Typed, RowInv, MemoryMatchesRow
<1>3. Kept
  <2>1. ASSUME NEW d, d = OnCandle(mem), Waits(mem, d) PROVE Kept
    BY <2>1 DEF Due, Waits
  <2>2. ASSUME NEW d, Enters(mem, d), Opened(d) PROVE Kept
    <3>1. posRow'.side = d.side
      BY <2>2, OpenedFacts
    <3>2. posRow.side # None
      BY <1>2, Profile, NoneIsNone DEF RowSound
    <3> QED
      BY <1>2, <2>2, <3>1, <3>2 DEF Enters, Held
  <2>3. ASSUME NEW d, LeftFlat(d.mem) PROVE Kept
    BY <2>3 DEF LeftFlat
  <2>4. ASSUME NEW d, Closed(d) PROVE Kept
    BY <2>4 DEF Closed
  <2> QED
    BY <1>1, <2>1, <2>2, <2>3, <2>4, TickCases
<1>4. CASE Exported(mem) # None
  BY <1>2, <1>3, <1>4, KeptFacts, DueByThePosition
<1>5. CASE Exported(mem) = None
  <2>1. mem.pos.side # None /\ mem.pos \in Positions /\ LevelsKnown(mem.pos)
    BY <1>2, Profile, NoneIsNone, SoundParts DEF RowSound, Sound
  <2>2. profile.exports = FALSE
    BY <1>5, <2>1, ExportedType, Profile DEF Held, Strategies
  <2>3. Managed(mem.pos) = mem.pos /\ profile.trail = "none" /\ profile.stop = "none"
    BY <2>1, <2>2, ManagedType, WithoutState
  <2>4. /\ mem'.pos.stop = None /\ mem'.pos.born = None /\ mem'.pos.side = posRow.side
        /\ mem'.pos.target = Levels(posRow.side, posRow.price).target
        /\ mem.pos.stop = None
        /\ mem.pos.target = Levels(posRow.side, posRow.price).target
    BY <1>2, <1>3, <2>2, RowlessState DEF LevelsFromRow
  <2>5. ExitDue(mem.pos) /\ ~Stopped(mem.pos)
    BY <2>3, <2>4, DueIs DEF Stopped, StopAt
  <2>6. Reached(mem.pos) \/ (profile.rule /\ shape.leave)
    BY <2>3, <2>5 DEF ExitDue
  <2>7. (Managed(mem.pos) = mem.pos)'
    <3>1. (Managed(mem.pos))' = mem'.pos
      BY <1>2, <2>3 DEF Managed
    <3> QED
      BY <3>1
  <2>8. Reached(mem.pos) => Reached(mem.pos)'
    BY <1>2, <2>4 DEF Reached, Best
  <2>9. ~SameBar(mem.pos)'
    BY <2>4 DEF SameBar
  <2>10. ExitDue(mem.pos)'
    BY <1>2, <2>1, <2>4, <2>6, <2>7, <2>8, <2>9 DEF ExitDue
  <2>11. Due(mem)' <=> ExitDue(mem.pos)'
    BY DueIs, PTL
  <2> QED
    BY <2>10, <2>11
<1> QED
  BY <1>4, <1>5

(* An exit that was due and is refused is due at the next look at the same  *)
(* bar: neither the levels nor the ratchet nor the entry bar is lost.      *)
THEOREM RefusedExitStaysDue ==
  ASSUME StrategyConstants
  PROVE  Spec => DueExitFiresAgain
<1> DEFINE Again == up /\ up' /\ shape' = shape /\ bar' = bar /\ posRow # None
                    /\ posRow' = posRow /\ Due(mem) => Due(mem)'
<1>1. Init => Typed /\ RowInv /\ LevelsFromRow
  BY InitInvariants DEF Init, LevelsFromRow
<1>2. Typed /\ RowInv /\ LevelsFromRow /\ [Next]_strategyVars
      => Typed' /\ RowInv' /\ LevelsFromRow'
  BY NextTyped, NextMatches, NextLevels
<1>3. Typed /\ RowInv /\ LevelsFromRow /\ [Next]_strategyVars => [Again]_strategyVars
  BY DueAgain
<1> QED
  BY <1>1, <1>2, <1>3, PTL DEF Spec, DueExitFiresAgain

-----------------------------------------------------------------------------
(* The cooldown: from bar r on it has run out by now, or the counter or the *)
(* bar of the entry shows that it has not been counted too fast.           *)
SatOut(r) == bar - r >= Quiet

Lag == IF profile.cooldown = "perNewBar" THEN 1 ELSE 0

Remembers(c, r) == IF FromEntry THEN c.at # None /\ c.at >= r
                                ELSE c.seen # None /\ c.since <= c.seen - r + Lag

Keeps(c, r) == SatOut(r) \/ Remembers(c, r)

(* Every copy the cooldown could be read from is one that keeps it.        *)
CopiesKeep(m, row, shot, r) ==
    /\ Counts => row = None
    /\ Keeps(m.cool, r)
    /\ SatOut(r) \/ (shot # None /\ Remembers(shot.cool, r))
    /\ row # None => SatOut(r) \/ (row.state # None /\ Remembers(row.state.cool, r))

CoolInv == profile.cooldown # "none" /\ ref # None /\ ~forgot
           => CopiesKeep(mem, posRow, snap, ref)

LEMMA CooldownKinds ==
  ASSUME StrategyConstants, Setting
  PROVE  /\ Counts => ~FromEntry
         /\ profile.cooldown # "none" => /\ Counts \/ FromEntry
                                         /\ profile.exports /\ profile.flips = FALSE
         /\ Quiet \in Int /\ bar \in Nat /\ Lag \in 0..1 /\ None \notin Int
<1>1. profile \in Strategies /\ Consistent(profile) /\ bar \in Nat /\ CooldownBars \in Nat
      /\ None \notin Int
  BY Profile, NoneIsNone DEF Setting
<1>2. Quiet \in Int
  BY <1>1 DEF Quiet
<1> QED
  BY <1>1, <1>2 DEF Counts, FromEntry, Consistent, Strategies, Lag

LEMMA Numbers ==
  ASSUME StrategyConstants, NEW c \in Cooldowns
  PROVE  c.since \in Nat /\ (c.seen # None => c.seen \in Nat) /\ (c.at # None => c.at \in Nat)
<1>1. c.since \in 0..Past /\ Past \in Nat
  BY NoneIsNone DEF Cooldowns
<1> QED
  BY <1>1 DEF Cooldowns

(* Whoever is no longer cooling down has sat it out.                       *)
LEMMA NotCooling ==
  ASSUME StrategyConstants, Setting, profile.cooldown # "none",
         NEW c \in Cooldowns, c.seen # None => c.seen <= bar, NEW r \in Nat,
         Keeps(c, r), ~Cooling(c)
  PROVE  SatOut(r)
<1>1. /\ c.since \in Nat /\ (c.seen # None => c.seen \in Nat) /\ (c.at # None => c.at \in Nat)
      /\ bar \in Nat /\ CooldownBars \in Nat
  BY Numbers, CooldownKinds, NoneIsNone
<1>2. profile.cooldown \in {"perNewBar", "whileFlat", "entryBars", "entryTime"}
  BY CooldownKinds DEF Counts, FromEntry
<1> SUFFICES ASSUME Remembers(c, r)
             PROVE  bar - r >= Quiet
  BY DEF Keeps, SatOut
<1>3. CASE profile.cooldown = "perNewBar"
  <2>1. c.since >= CooldownBars /\ c.seen # None /\ c.since <= c.seen - r + 1
    BY <1>1, <1>3 DEF Cooling, Remembers, FromEntry, Lag
  <2> QED
    BY <1>1, <1>3, <2>1 DEF Quiet
<1>4. CASE profile.cooldown = "whileFlat"
  <2>1. c.since > CooldownBars /\ c.seen # None /\ c.since <= c.seen - r + 0
    BY <1>1, <1>4 DEF Cooling, Remembers, FromEntry, Lag
  <2> QED
    BY <1>1, <1>4, <2>1 DEF Quiet
<1>5. CASE profile.cooldown = "entryBars"
  <2>1. c.at # None /\ c.at >= r /\ ~(bar - c.at <= CooldownBars)
    BY <1>5 DEF Cooling, Remembers, FromEntry
  <2> QED
    BY <1>1, <1>5, <2>1 DEF Quiet
<1>6. CASE profile.cooldown = "entryTime"
  <2>1. c.at # None /\ c.at >= r /\ ~(bar - c.at < CooldownBars)
    BY <1>6 DEF Cooling, Remembers, FromEntry
  <2> QED
    BY <1>1, <1>6, <2>1 DEF Quiet
<1> QED
  BY <1>2, <1>3, <1>4, <1>5, <1>6

LEMMA SameKeeps ==
  ASSUME NEW c, NEW d, NEW r, SameCooldown(c, d)
  PROVE  /\ Remembers(c, r) <=> Remembers(d, r)
         /\ Keeps(c, r) <=> Keeps(d, r)
  BY DEF SameCooldown, Remembers, Keeps

(* Taking in a bar keeps it: no more is counted than went by.              *)
LEMMA CountedKeeps ==
  ASSUME StrategyConstants, Setting, profile.cooldown # "none", NEW m, Sound(m),
         NEW r \in Nat, Keeps(m.cool, r)
  PROVE  Keeps(Counted(m), r)
<1> SUFFICES ASSUME Remembers(m.cool, r)
             PROVE  Remembers(Counted(m), r)
  BY DEF Keeps
<1> DEFINE c == m.cool
           n == Counted(m)
<1>1. /\ c \in Cooldowns /\ n \in Cooldowns /\ n.at = c.at
      /\ Counts => n.seen = bar
      /\ ~Counts => n = c
      /\ Counts /\ c.seen # None => n.since <= c.since + (bar - c.seen)
      /\ bar \in Nat /\ Lag \in 0..1 /\ bar # None /\ Remembers(c, r)
  BY SoundParts, CountedType, CooldownKinds
<1> HIDE DEF c, n
<1>2. CASE FromEntry
  BY <1>1, <1>2, CooldownKinds DEF Remembers, c, n
<1>3. CASE ~FromEntry
  <2>1. Counts
    BY <1>3, CooldownKinds
  <2>2. c.seen # None /\ c.since <= c.seen - r + Lag
    BY <1>1, <1>3 DEF Remembers
  <2>3. c.since \in Nat /\ n.since \in Nat /\ c.seen \in Nat
    BY <1>1, <2>2, Numbers
  <2>4. n.since <= n.seen - r + Lag /\ n.seen # None
    BY <1>1, <2>1, <2>2, <2>3
  <2> QED
    BY <1>3, <2>4 DEF Remembers, n
<1> QED
  BY <1>2, <1>3

(* What is exported carries the cooldown that is still running.            *)
LEMMA ExportedKeeps ==
  ASSUME StrategyConstants, Setting, profile.cooldown # "none", NEW m, Sound(m),
         NEW r \in Nat, Keeps(m.cool, r)
  PROVE  SatOut(r) \/ (Exported(m) # None /\ Remembers(Exported(m).cool, r))
<1> SUFFICES ASSUME Remembers(m.cool, r), ~SatOut(r)
             PROVE  Exported(m) # None /\ Remembers(Exported(m).cool, r)
  BY DEF Keeps
<1>1. m.cool \in Cooldowns /\ (m.cool.seen # None => m.cool.seen <= bar)
  BY SoundParts DEF Sound
<1>2. Cooling(m.cool)
  BY <1>1, NotCooling
<1>3. Exported(m) # None
  <2>1. CASE FromEntry
    BY <2>1, ExportedType, CooldownKinds DEF Remembers
  <2>2. CASE ~FromEntry
    BY <1>2, <2>2, ExportedType, CooldownKinds DEF Remembers
  <2> QED
    BY <2>1, <2>2
<1> QED
  BY <1>3, ExportedType, SameKeeps

-----------------------------------------------------------------------------
(* Where the strategy and the bar stay, the copies of the next state are    *)
(* judged by the operators of this one.                                    *)
LEMMA CoolStep ==
  ASSUME UNCHANGED <<profile, bar>>,
         profile.cooldown # "none" /\ ref' # None /\ ~forgot'
         => CopiesKeep(mem', posRow', snap', ref')
  PROVE  CoolInv'
BY DEF CoolInv, CopiesKeep, Keeps, SatOut, Remembers, Quiet, Lag, FromEntry, Counts

(* A strategy left flat writes the snapshot that its object gives.         *)
LEMMA FlatCopies ==
  ASSUME StrategyConstants, Setting, profile.cooldown # "none", NEW m, Sound(m), NEW r \in Nat,
         Keeps(m.cool, r)
  PROVE  CopiesKeep(m, None, Exported(m), r)
BY ExportedKeeps DEF CopiesKeep

LEMMA TickCool ==
  ASSUME StrategyConstants, Typed, RowInv, CoolInv, Tick
  PROVE  CoolInv'
<1> USE TypedSetting
<1> DEFINE Judged == profile.cooldown # "none" /\ ref # None /\ ~forgot
<1>0. /\ UNCHANGED <<profile, bar>> /\ Setting /\ Sound(mem) /\ bar \in Nat /\ bar # None
      /\ ref # None => ref \in 0..bar /\ ref \in Nat
      /\ mem.cool \in Cooldowns
  <2>1. ref \in {None} \cup 0..bar /\ UNCHANGED <<profile, bar>>
    BY DEF Typed, Tick
  <2> QED
    BY <2>1, SoundParts, NoneIsNone
<1>1. Judged => /\ CopiesKeep(mem, posRow, snap, ref) /\ Keeps(mem.cool, ref)
                /\ Keeps(Counted(mem), ref)
  <2>1. Judged => CopiesKeep(mem, posRow, snap, ref) /\ Keeps(mem.cool, ref)
    BY DEF CoolInv, CopiesKeep
  <2> QED
    BY <1>0, <2>1, CountedKeeps
<1>2. ASSUME NEW d, d = OnCandle(mem), Waits(mem, d), mem' = d.mem,
             UNCHANGED <<posRow, snap, ref, forgot, astray>>
      PROVE  CoolInv'
  <2> SUFFICES ASSUME Judged
               PROVE  CopiesKeep(mem', posRow, snap, ref)
    BY <1>0, <1>2, CoolStep
  <2>1. Keeps(mem'.cool, ref)
    BY <1>1, <1>2 DEF Waits
  <2> QED
    BY <1>1, <2>1 DEF CopiesKeep
<1>3. ASSUME NEW d, Enters(mem, d), profile.cooldown # "none"
      PROVE  /\ FromEntry => d.mem.cool.at = bar
             /\ Judged => Keeps(d.mem.cool, ref)
  <2>1. ~Held(mem) /\ (Counts \/ FromEntry)
    BY <1>3, CooldownKinds DEF Enters
  <2>2. /\ d.mem.cool.since = Counted(mem).since /\ d.mem.cool.seen = Counted(mem).seen
        /\ d.mem.cool.at = IF FromEntry THEN bar ELSE Counted(mem).at
    BY <1>3, <2>1 DEF Enters
  <2>3. Judged /\ FromEntry => Remembers(d.mem.cool, ref)
    BY <1>0, <2>2 DEF Remembers
  <2>4. Judged /\ ~FromEntry => Keeps(d.mem.cool, ref)
    BY <1>1, <2>2 DEF Keeps, Remembers
  <2> QED
    BY <2>2, <2>3, <2>4 DEF Keeps
<1>4. ASSUME NEW d, Enters(mem, d), Opened(d)
      PROVE  CoolInv'
  <2>1. PICK price \in Prices, kept \in BOOLEAN :
            /\ Sound(mem') /\ mem'.cool = d.mem.cool /\ snap' = Exported(mem')
            /\ posRow'.state = IF kept THEN Exported(mem') ELSE None
            /\ ref' = (IF FromEntry THEN bar ELSE None)
            /\ forgot' = (FromEntry /\ ~kept)
    BY <1>4, OpenedFacts
  <2> SUFFICES ASSUME profile.cooldown # "none", ref' # None, ~forgot'
               PROVE  CopiesKeep(mem', posRow', snap', ref')
    BY <1>0, CoolStep
  <2>2. FromEntry /\ kept /\ ref' = bar /\ posRow'.state = snap' /\ ~Counts
    BY <2>1, CooldownKinds
  <2>3. mem'.cool.at = bar
    BY <1>3, <1>4, <2>1, <2>2
  <2>4. profile.exports
    BY CooldownKinds
  <2>5. snap' # None /\ SameCooldown(snap'.cool, mem'.cool)
    BY <1>0, <2>1, <2>3, <2>4, ExportedType
  <2>6. Remembers(mem'.cool, ref') /\ Remembers(snap'.cool, ref')
    BY <1>0, <2>2, <2>3, <2>5 DEF Remembers, SameCooldown
  <2> QED
    BY <2>2, <2>5, <2>6 DEF CopiesKeep, Keeps
<1>5. ASSUME NEW d, Sound(d.mem), LeftFlat(d.mem), UNCHANGED <<ref, forgot>>,
             Judged => Keeps(d.mem.cool, ref)
      PROVE  CoolInv'
  <2> SUFFICES ASSUME Judged
               PROVE  CopiesKeep(mem', posRow', snap', ref)
    BY <1>0, <1>5, CoolStep
  <2>1. /\ Sound(mem') /\ mem'.cool = d.mem.cool /\ snap' = Exported(mem') /\ posRow' = None
    BY <1>5, LeftFlatFacts
  <2> QED
    BY <1>0, <1>5, <2>1, FlatCopies
<1>6. ASSUME NEW d, Enters(mem, d), LeftFlat(d.mem), UNCHANGED <<ref, forgot>>
      PROVE  CoolInv'
  BY <1>3, <1>5, <1>6 DEF Enters
<1>7. ASSUME NEW d, Enters(mem, d), posRow = None, mem' = d.mem, astray' = TRUE,
             UNCHANGED <<posRow, snap, ref, forgot>>
      PROVE  CoolInv'
  <2> SUFFICES ASSUME Judged
               PROVE  CopiesKeep(mem', posRow, snap, ref)
    BY <1>0, <1>7, CoolStep
  <2> QED
    BY <1>1, <1>3, <1>7 DEF CopiesKeep
<1>8. ASSUME NEW d, Leaves(mem, d), Closed(d)
      PROVE  CoolInv'
  <2>1. /\ mem' = d.mem /\ snap' = Exported(d.mem) /\ posRow' = None /\ Sound(d.mem)
        /\ ref' = IF Counts THEN bar ELSE ref
        /\ forgot' = IF Counts THEN d.mem.cool.seen = None \/ bar - d.mem.cool.seen > 1
                               ELSE forgot
    BY <1>8 DEF Closed, Leaves
  <2> SUFFICES ASSUME profile.cooldown # "none", ref' # None, ~forgot'
               PROVE  CopiesKeep(mem', posRow', snap', ref')
    BY <1>0, CoolStep
  <2>2. ref' \in Nat
    BY <1>0, <2>1
  <2>3. Keeps(d.mem.cool, ref')
    <3>1. CASE Counts
      <4>1. /\ d.mem.cool.since = 0 /\ d.mem.cool.seen # None /\ ~(bar - d.mem.cool.seen > 1)
            /\ profile.cooldown = "whileFlat" => d.mem.cool.seen = bar
            /\ ref' = bar /\ ~FromEntry
        BY <1>8, <2>1, <3>1, CooldownKinds DEF Leaves
      <4>2. d.mem.cool.seen \in Nat
        BY <2>1, <4>1, SoundParts, Numbers
      <4>3. profile.cooldown = "whileFlat" \/ Lag = 1
        BY <3>1 DEF Counts, Lag
      <4>4. 0 <= d.mem.cool.seen - bar + Lag
        BY <1>0, <4>1, <4>2, <4>3, CooldownKinds
      <4> QED
        BY <4>1, <4>4 DEF Keeps, Remembers
    <3>2. CASE ~Counts
      BY <1>1, <1>8, <2>1, <3>2 DEF Leaves
    <3> QED
      BY <3>1, <3>2
  <2> QED
    BY <1>0, <2>1, <2>2, <2>3, FlatCopies
<1>9. ASSUME NEW d, Leaves(mem, d), posRow = None, LeftFlat(d.mem), UNCHANGED <<ref, forgot>>
      PROVE  CoolInv'
  <2>1. ASSUME Judged
        PROVE  Keeps(d.mem.cool, ref)
    <3>1. CASE ~Counts
      BY <1>1, <1>9, <2>1, <3>1 DEF Leaves
    <3>2. CASE Counts /\ ~SatOut(ref)
      <4>1. /\ mem.cool.seen # None /\ mem.cool.since <= mem.cool.seen - ref + Lag
            /\ ~FromEntry
        BY <1>1, <2>1, <3>2, CooldownKinds DEF Keeps, Remembers
      <4>2. mem.cool.since \in Nat /\ mem.cool.seen \in Nat /\ ref \in Nat /\ ref <= bar
        BY <1>0, <2>1, <4>1, Numbers
      <4>3. /\ d.mem.cool.since = 0 /\ d.mem.cool.seen \in {mem.cool.seen, bar}
        BY <1>9, <3>2 DEF Leaves
      <4>4. 0 <= d.mem.cool.seen - ref + Lag /\ d.mem.cool.seen # None
        BY <1>0, <4>1, <4>2, <4>3, CooldownKinds
      <4> QED
        BY <4>1, <4>3, <4>4 DEF Keeps, Remembers
    <3> QED
      BY <3>1, <3>2 DEF Keeps
  <2> QED
    BY <1>5, <1>9, <2>1 DEF Leaves
<1>10. ASSUME Kept, UNCHANGED <<ref, forgot>>
       PROVE  CoolInv'
  <2> SUFFICES ASSUME Judged
               PROVE  CopiesKeep(mem', posRow, snap, ref)
    BY <1>0, <1>10, CoolStep, KeptFacts
  <2>1. /\ posRow # None /\ RowSound(posRow)
        /\ Exported(mem) # None => SameCooldown(mem'.cool, mem.cool)
        /\ Exported(mem) = None => mem' = FromRow(mem, posRow)
    BY <1>10, KeptFacts
  <2>2. Keeps(mem'.cool, ref)
    <3>1. CASE Exported(mem) # None
      BY <1>1, <2>1, <3>1, SameKeeps
    <3>2. CASE Exported(mem) = None /\ posRow.state = None
      BY <1>1, <2>1, <3>2 DEF CopiesKeep, Keeps
    <3>3. CASE Exported(mem) = None /\ posRow.state # None
      <4>1. SameCooldown(mem'.cool, posRow.state.cool)
        BY <1>0, <2>1, <3>3, FromRowType
      <4>2. Keeps(posRow.state.cool, ref)
        BY <1>1, <2>1 DEF CopiesKeep, Keeps
      <4> QED
        BY <4>1, <4>2, SameKeeps
    <3> QED
      BY <3>1, <3>2, <3>3
  <2> QED
    BY <1>1, <2>2 DEF CopiesKeep
<1> QED
  BY <1>2, <1>4, <1>6, <1>7, <1>8, <1>9, <1>10, TickCases

LEMMA NextCool ==
  ASSUME StrategyConstants, Typed, RowInv, CoolInv, [Next]_strategyVars
  PROVE  CoolInv'
<1> DEFINE Judged == profile.cooldown # "none" /\ ref # None /\ ~forgot
<1>0. /\ Setting /\ Sound(mem) /\ Sound(Fresh) /\ bar \in Nat /\ bar # None
      /\ ref # None => ref \in Nat
      /\ posRow # None => RowSound(posRow)
  BY TypedSetting, NoneIsNone DEF Typed
<1>1. Judged => CopiesKeep(mem, posRow, snap, ref) /\ Keeps(mem.cool, ref)
  BY DEF CoolInv, CopiesKeep
<1>2. CASE NewBar
  <2>1. /\ bar' = bar + 1 /\ UNCHANGED <<profile, mem, posRow, snap, ref, forgot>>
    BY <1>2 DEF NewBar
  <2>2. ref # None /\ SatOut(ref) => SatOut(ref)'
    BY <1>0, <2>1, CooldownKinds DEF SatOut, Quiet
  <2> SUFFICES ASSUME Judged
               PROVE  CopiesKeep(mem, posRow, snap, ref)'
    BY <2>1 DEF CoolInv
  <2> QED
    BY <1>1, <2>1, <2>2 DEF CopiesKeep, Keeps, Remembers, Counts, FromEntry, Lag
<1>3. CASE Tick
  BY <1>3, TickCool
<1>4. CASE CloseOutside
  <2>1. /\ UNCHANGED <<profile, bar, ref, forgot>> /\ Sound(mem') /\ mem'.cool = mem.cool
        /\ snap' = Exported(mem') /\ posRow' = None
    BY <1>0, <1>4, LeftFlatFacts DEF CloseOutside
  <2>2. Judged => CopiesKeep(mem', posRow', snap', ref)
    BY <1>0, <1>1, <2>1, FlatCopies
  <2> QED
    BY <2>1, <2>2, CoolStep
<1>5. CASE Crash \/ UNCHANGED strategyVars
  <2>1. UNCHANGED <<profile, bar, mem, posRow, snap, ref, forgot>>
    BY <1>5 DEF Crash, strategyVars
  <2> QED
    BY <1>1, <2>1, CoolStep
<1>6. CASE CrashBeforeSnapshot
  <2>1. /\ UNCHANGED <<profile, bar, mem, snap, forgot>> /\ posRow' = None
        /\ ref' = IF Counts THEN None ELSE ref
    BY <1>6 DEF CrashBeforeSnapshot
  <2>2. Judged => CopiesKeep(mem', posRow', snap', ref)
    BY <1>1, <2>1 DEF CopiesKeep
  <2>3. ref' # None => ref' = ref
    BY <2>1
  <2> QED
    BY <2>1, <2>2, <2>3, CoolStep
<1>7. CASE StartupReconcileCloses
  BY <1>7, CoolStep DEF StartupReconcileCloses
<1>8. CASE RestoreHolding
  <2>1. /\ UNCHANGED <<profile, bar, posRow, snap, ref, forgot>> /\ posRow # None
        /\ mem' = FromRow(Fresh, posRow)
    BY <1>8 DEF RestoreHolding
  <2>2. ASSUME Judged
        PROVE  Keeps(mem'.cool, ref)
    <3>1. CASE posRow.state = None
      BY <1>1, <2>1, <2>2, <3>1 DEF CopiesKeep, Keeps
    <3>2. CASE posRow.state # None
      <4>1. SameCooldown(mem'.cool, posRow.state.cool)
        BY <1>0, <2>1, <3>2, FromRowType
      <4>2. Keeps(posRow.state.cool, ref)
        BY <1>1, <2>1, <2>2 DEF CopiesKeep, Keeps
      <4> QED
        BY <4>1, <4>2, SameKeeps
    <3> QED
      BY <3>1, <3>2
  <2>3. Judged => CopiesKeep(mem', posRow', snap', ref)
    BY <1>1, <2>1, <2>2 DEF CopiesKeep
  <2> QED
    BY <2>1, <2>3, CoolStep
<1>9. CASE RestoreFlat
  <2>1. /\ Sound(mem') /\ UNCHANGED <<profile, bar, ref, forgot>> /\ posRow' = None
        /\ snap # None => SameCooldown(mem'.cool, snap.cool)
        /\ snap' = Exported(mem') \/ snap' = snap
    BY <1>9, RestoreFlatFacts
  <2>2. ASSUME Judged
        PROVE  Keeps(mem'.cool, ref)
    <3>1. CASE snap = None
      BY <1>1, <2>2, <3>1 DEF CopiesKeep, Keeps
    <3>2. CASE snap # None
      <4>1. Keeps(snap.cool, ref)
        BY <1>1, <2>2, <3>2 DEF CopiesKeep, Keeps
      <4> QED
        BY <2>1, <3>2, <4>1, SameKeeps
    <3> QED
      BY <3>1, <3>2
  <2>3. ASSUME Judged
        PROVE  CopiesKeep(mem', posRow', snap', ref)
    <3>1. CopiesKeep(mem', None, Exported(mem'), ref)
      BY <1>0, <2>1, <2>2, <2>3, FlatCopies
    <3>2. CopiesKeep(mem', None, snap, ref)
      BY <1>1, <2>2, <2>3 DEF CopiesKeep
    <3> QED
      BY <2>1, <3>1, <3>2
  <2> QED
    BY <2>1, <2>3, CoolStep
<1> QED
  BY <1>2, <1>3, <1>4, <1>5, <1>6, <1>7, <1>8, <1>9 DEF Next

(* A strategy opens by way of a fill, and it asks for one only when it is   *)
(* flat and no longer cools down.                                          *)
LEMMA OpensAfterwards ==
  ASSUME StrategyConstants, Typed, RowInv, CoolInv, Next, Opens,
         profile.cooldown # "none", ref # None, ~forgot
  PROVE  bar - ref >= Quiet
<1> USE TypedSetting
<1>1. Tick
  BY DEF Next, Opens, NewBar, CloseOutside, LeftFlat, Crash, CrashBeforeSnapshot,
         StartupReconcileCloses, RestoreHolding, RestoreFlat
<1>2. Keeps(Counted(mem), ref) /\ ref \in Nat
  <2>1. Keeps(mem.cool, ref)
    BY DEF CoolInv, CopiesKeep
  <2>2. ref \in Nat
    BY DEF Typed
  <2> QED
    BY <2>1, <2>2, CountedKeeps
<1>3. ASSUME NEW d, Enters(mem, d)
      PROVE  SatOut(ref)
  <2>1. ~Cooling(Counted(mem))
    BY <1>3, CooldownKinds DEF Enters
  <2>2. Counted(mem) \in Cooldowns /\ (Counted(mem).seen # None => Counted(mem).seen <= bar)
    BY CountedType
  <2> QED
    BY <1>2, <2>1, <2>2, NotCooling
<1>4. ASSUME NEW d, LeftFlat(d.mem)
      PROVE  SatOut(ref)
  BY <1>4 DEF LeftFlat, Opens
<1>5. ASSUME NEW d, Closed(d)
      PROVE  SatOut(ref)
  BY <1>5 DEF Closed, Opens
<1>6. ASSUME UNCHANGED posRow
      PROVE  SatOut(ref)
  BY <1>6 DEF Opens
<1>7. Kept => UNCHANGED posRow
  BY DEF Kept
<1>8. SatOut(ref)
  BY <1>1, <1>3, <1>4, <1>5, <1>6, <1>7, TickCases
<1> QED
  BY <1>8 DEF SatOut

(* A strategy with a cooldown sits it out, counted in bars and not in       *)
(* ticks, across refusals, closes from outside and restarts, whatever the  *)
(* length of the cooldown.                                                 *)
THEOREM CooldownIsSatOut ==
  ASSUME StrategyConstants
  PROVE  Spec => CooldownKept
<1> DEFINE Sits == Opens /\ profile.cooldown # "none" /\ ref # None
                   => forgot \/ bar - ref >= Quiet
<1>1. Init => Typed /\ RowInv /\ CoolInv
  BY InitInvariants DEF Init, CoolInv
<1>2. Typed /\ RowInv /\ CoolInv /\ [Next]_strategyVars => Typed' /\ RowInv' /\ CoolInv'
  BY NextTyped, NextMatches, NextCool
<1>3. Typed /\ RowInv /\ CoolInv /\ [Next]_strategyVars => [Sits]_strategyVars
  BY OpensAfterwards
<1> QED
  BY <1>1, <1>2, <1>3, PTL DEF Spec, CooldownKept
=============================================================================
