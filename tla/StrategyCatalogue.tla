------------------------- MODULE StrategyCatalogue -------------------------
(***************************************************************************)
(* The trading strategies, one record each: which sides they trade, what   *)
(* ends a position, what they persist and what they do with the price of a *)
(* fill. The indicators that call for an entry or an exit are left open.   *)
(*   rule     an exit rule of its own besides stop and target              *)
(*   stop     "none", "fixed" (from the entry), "market" (from indicators: *)
(*            unknown after restore_state until the next candle), "both"   *)
(*            (stop and target are)                                        *)
(*   trail    "ratchet" (the stop follows the best price), "peak" (the     *)
(*            stop is derived from the best price), "late" (from a profit  *)
(*            on), "breakeven" (the stop moves to the entry, once)         *)
(*   flips    an entry the other way replaces the position                 *)
(*   refill   what on_filled moves: "levels", "shift", "entry", "nothing"  *)
(*   cooldown how re-entry is delayed, see Cooling                         *)
(***************************************************************************)
CONSTANT None

Sides == {"long", "short"}

(* Neither export_state nor on_filled; a rule in and a rule out. *)
cdc_macd == [sides |-> {"long"}, rule |-> TRUE, stop |-> "none", target |-> FALSE,
             trail |-> "none", flips |-> FALSE, exports |-> FALSE,
             refill |-> "nothing", cooldown |-> "none", skipsEntryBar |-> FALSE]
macd_zero == cdc_macd
sma_rsi == cdc_macd
penguin_volatility == cdc_macd

golden_cross == [cdc_macd EXCEPT !.exports = TRUE]
rsi_momentum == golden_cross
daily_long_0830 == golden_cross
bb_rsi_scalper == [golden_cross EXCEPT !.refill = "entry"]

bb_short == [cdc_macd EXCEPT !.sides = {"short"}, !.rule = FALSE, !.target = TRUE,
                             !.refill = "levels"]

keltner_breakout == [golden_cross EXCEPT !.stop = "market", !.target = TRUE]
moon_phases == [keltner_breakout EXCEPT !.stop = "fixed"]
vvv_hedge == [golden_cross EXCEPT !.sides = {"short"}, !.stop = "fixed",
                                  !.refill = "levels"]

ema_crossover == [golden_cross EXCEPT !.sides = Sides, !.rule = FALSE, !.stop = "market"]
btc_mean_reversion == [ema_crossover EXCEPT !.stop = "fixed", !.target = TRUE,
                                            !.refill = "levels"]
hash_momentum == [btc_mean_reversion EXCEPT !.rule = TRUE, !.refill = "nothing",
                                            !.cooldown = "perNewBar"]
supertrend == [btc_mean_reversion EXCEPT !.stop = "both", !.refill = "shift",
                                         !.cooldown = "entryBars"]

pivot_supertrend == [ema_crossover EXCEPT !.stop = "fixed", !.flips = TRUE]
kalman_breakout == [pivot_supertrend EXCEPT !.stop = "none"]
hash_supertrend == [kalman_breakout EXCEPT !.refill = "entry"]

oleg_aryukov == [btc_mean_reversion EXCEPT !.trail = "ratchet", !.skipsEntryBar = TRUE]
ath_breakout == [bb_rsi_scalper EXCEPT !.rule = FALSE, !.trail = "peak"]
volatility_breakout == [ema_crossover EXCEPT !.trail = "late", !.refill = "entry",
                                             !.cooldown = "entryTime"]
qullamagi_breakout == [golden_cross EXCEPT !.sides = Sides, !.stop = "fixed",
                                           !.trail = "breakeven", !.refill = "entry",
                                           !.cooldown = "whileFlat"]

(* The registered ones: golden_cross is kept for reference only. *)
Catalogue == {cdc_macd, macd_zero, sma_rsi, penguin_volatility,
              rsi_momentum, daily_long_0830, bb_rsi_scalper, bb_short,
              keltner_breakout, moon_phases, vvv_hedge, ema_crossover,
              btc_mean_reversion, hash_momentum, supertrend, pivot_supertrend,
              kalman_breakout, hash_supertrend, oleg_aryukov, ath_breakout,
              volatility_breakout, qullamagi_breakout}
=============================================================================
