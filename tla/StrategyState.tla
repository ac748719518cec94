--------------------------- MODULE StrategyState ---------------------------
(***************************************************************************)
(* What a strategy remembers between ticks (its position, the stop it has  *)
(* dragged along, its re-entry cooldown) and what becomes of it: a tick    *)
(* looks at the same closed bar many times, a fill re-anchors the levels,  *)
(* a refused order takes the signal back, a position is closed from        *)
(* outside, and the process restarts from the row's state_json or, when    *)
(* flat, from the Redis snapshot. Whether an order is filled is the        *)
(* runner's business (SignalExecution): here it is a choice. Prices of a   *)
(* short are negated, so that one reading serves both sides.               *)
(***************************************************************************)
EXTENDS StrategyCatalogue, Integers

CONSTANTS Prices, Shapes,   \* prices; the bars [low, high, close] they make
          CooldownBars,     \* the cooldown of the strategies that have one
          MaxBar            \* bound: bars in a behaviour

Gap == 1                    \* distance of a stop; a target is twice as far

Past == CooldownBars + 1    \* 999, 10_000: no cooldown is running

(* What a strategy object holds, and a row of `positions`.                  *)
Levelled == {None} \cup Int
Positions == [side : {None} \cup Sides, entry : Levelled, stop : Levelled, target : Levelled,
              peak : Levelled, late : BOOLEAN, born : {None} \cup Nat]
Cooldowns == [since : 0..Past, seen : {None} \cup Nat, catchUp : BOOLEAN,
              at : {None} \cup Nat]
Memories == [pos : Positions, cool : Cooldowns]
PositionRows == [side : Sides, price : Prices, at : Nat, state : {None} \cup Memories]

StrategyConstants == /\ Prices \subseteq Int /\ CooldownBars \in Nat \ {0}
                     /\ MaxBar \in Nat
                     /\ Shapes \subseteq [low : Prices, high : Prices, close : Prices]
                     /\ None \notin Int \cup Sides /\ None \notin Memories \cup PositionRows

VARIABLES profile,  \* the strategy, an element of Catalogue
          bar,      \* number of the last closed bar
          shape,    \* its prices, and what the indicators say on it
          mem,      \* the strategy object
          posRow,   \* its row in `positions`, or None
          snap,     \* its Redis snapshot, or None
          up,       \* the process runs
          ref,      \* bar its cooldown is counted from (history)
          forgot,   \* the cooldown was lost in a way described below (history)
          astray    \* its open was sent and not filled, and it was not told
                    \* (history)

strategyVars == <<profile, bar, shape, mem, posRow, snap, up, ref, forgot, astray>>

Flat == [side |-> None, entry |-> None, stop |-> None, target |-> None,
         peak |-> None, late |-> FALSE, born |-> None]

Fresh == [pos |-> Flat,
          cool |-> [since |-> Past, seen |-> None, catchUp |-> FALSE, at |-> None]]

Larger(a, b) == IF a > b THEN a ELSE b
Way(side, p) == IF side = "long" THEN p ELSE -p
Best(side) == IF side = "long" THEN shape.high ELSE -shape.low
Worst(side) == IF side = "long" THEN shape.low ELSE -shape.high
Held(m) == m.pos.side # None
Counts == profile.cooldown \in {"perNewBar", "whileFlat"}

(* The levels a strategy derives from a price alone: at its entry, at a     *)
(* fill that re-anchors them, and in restore_state.                        *)
Levels(side, price) ==
    [side |-> side, entry |-> Way(side, price),
     stop |-> IF profile.stop = "none" THEN None ELSE Way(side, price) - Gap,
     target |-> IF profile.target THEN Way(side, price) + 2 * Gap ELSE None,
     peak |-> IF profile.trail \in {"ratchet", "peak"} THEN Way(side, price) ELSE None,
     late |-> FALSE, born |-> None]

(* A row without state: the levels that come from indicators stay open      *)
(* until the next candle.                                                  *)
RestoreState(m, side, price) ==
    [m EXCEPT !.pos = [Levels(side, price) EXCEPT
        !.stop = IF profile.stop \in {"market", "both"} THEN None ELSE @,
        !.target = IF profile.stop = "both" THEN None ELSE @]]

Cooling(c) ==
    CASE profile.cooldown = "perNewBar" -> c.since < CooldownBars
      [] profile.cooldown = "whileFlat" -> c.since <= CooldownBars
      [] profile.cooldown = "entryBars" -> c.at # None /\ bar - c.at <= CooldownBars
      [] profile.cooldown = "entryTime" -> c.at # None /\ bar - c.at < CooldownBars
      [] OTHER -> FALSE

(* export_state; what a JSON round trip keeps of it is everything but the   *)
(* catch-up flag.                                                          *)
Exported(m) ==
    LET carries == \/ profile.cooldown = "perNewBar" /\ Cooling(m.cool) /\ m.cool.seen # None
                   \/ profile.cooldown = "whileFlat" /\ Cooling(m.cool)
                   \/ m.cool.at # None
    IN IF profile.exports /\ (Held(m) \/ carries)
       THEN [m EXCEPT !.cool.catchUp = FALSE] ELSE None

(* restore_from_json of an exported state. *)
RestoreJson(m, state) ==
    [state EXCEPT !.cool.catchUp = profile.cooldown = "perNewBar" /\ state.cool.seen # None]

(* reset_position: everything but cooldown_attrs. *)
ResetPosition(m) == [m EXCEPT !.pos = Flat]

(* on_filled: which levels move to the price actually paid. *)
OnFilled(m, price) ==
    LET side == m.pos.side
        moved == Way(side, price) - m.pos.entry
        Shifted(x) == IF x = None THEN None ELSE x + moved
    IN CASE profile.refill = "levels" ->
                [m EXCEPT !.pos = [Levels(side, price) EXCEPT !.born = m.pos.born]]
         [] profile.refill = "shift" ->
                [m EXCEPT !.pos.entry = Way(side, price),
                          !.pos.stop = Shifted(@), !.pos.target = Shifted(@)]
         [] profile.refill = "entry" -> [m EXCEPT !.pos.entry = Way(side, price)]
         [] OTHER -> m

(* Mutant: the bars are swapped. *)
ElapsedBackwards(earlier, later) == earlier - later

(* bars_elapsed *)
Elapsed(earlier, later) == later - earlier

Advanced(c, n) == [c EXCEPT !.since = IF @ + n > Past THEN Past ELSE @ + n,
                            !.seen = bar, !.catchUp = FALSE]

(* Mutant: the cooldown advances per tick. *)
CountedPerTick(m) ==
    CASE profile.cooldown = "perNewBar" -> Advanced(m.cool, 1)
      [] profile.cooldown = "whileFlat" -> Advanced(m.cool, 1)
      [] OTHER -> m.cool

(* The cooldown counter takes in a bar: hash_momentum one per new bar, or   *)
(* what went by since a restore; qullamagi what went by while it is flat.  *)
Counted(m) ==
    LET c == m.cool IN
    CASE profile.cooldown = "perNewBar" ->
             Advanced(c, IF c.seen \in {None, bar} THEN 0
                         ELSE IF c.catchUp THEN Elapsed(c.seen, bar) ELSE 1)
      [] profile.cooldown = "whileFlat" ->
             Advanced(c, IF c.seen = None \/ Held(m) THEN 0 ELSE Elapsed(c.seen, bar))
      [] OTHER -> c

(* The position as a candle finds it, its stop recomputed or dragged along. *)
Managed(pos) ==
    LET best == Best(pos.side)
        top == IF pos.peak = None THEN best ELSE Larger(pos.peak, best)
        due == best >= pos.entry + 2 * Gap
    IN CASE profile.trail = "ratchet" ->
                [pos EXCEPT !.peak = top, !.stop = Larger(@, top - Gap)]
         [] profile.trail = "peak" -> [pos EXCEPT !.peak = top]
         [] profile.trail = "late" ->
                [pos EXCEPT !.late = @ \/ due,
                            !.peak = IF pos.late \/ due THEN top ELSE @,
                            !.stop = IF best >= pos.entry + Gap
                                     THEN pos.entry ELSE pos.entry - Gap]
         [] profile.trail = "breakeven" ->
                LET risk == pos.entry - pos.stop IN
                [pos EXCEPT !.late = @ \/ (risk > 0 /\ best >= pos.entry + risk)]
         [] profile.trail = "none" /\ profile.stop = "market" /\ pos.stop = None ->
                [pos EXCEPT !.stop = pos.entry - Gap]
         [] profile.trail = "none" /\ profile.stop = "both"
            /\ pos.stop = None /\ pos.target = None ->
                [pos EXCEPT !.stop = pos.entry - Gap, !.target = pos.entry + 2 * Gap]
         [] OTHER -> pos

(* The price at which the managed position is given up. *)
StopAt(pos) ==
    CASE profile.trail = "peak" -> pos.peak - Gap
      [] profile.trail = "late" /\ pos.late -> Larger(pos.stop, pos.peak - Gap)
      [] profile.trail = "breakeven" -> IF pos.late THEN pos.entry ELSE pos.entry - Gap
      [] OTHER -> pos.stop

Stopped(pos) == LET at == StopAt(pos)  close == Way(pos.side, shape.close) IN
    CASE at = None -> FALSE
      [] profile.trail = "peak" -> close <= at
      [] profile.trail = "breakeven" -> close < at
      [] OTHER -> Worst(pos.side) <= at

Reached(pos) == pos.target # None /\ Best(pos.side) >= pos.target

SameBar(pos) == pos.born # None /\ bar <= pos.born

Decision(m, act, side) == [mem |-> m, act |-> act, side |-> side]

Emptied(m, c) == [m EXCEPT !.pos = Flat,
                           !.cool = [c EXCEPT !.since = IF Counts THEN 0 ELSE @]]

(* on_candle while a position is held: stop and target first, then the      *)
(* strategy's own exit rule or an opposite entry. hash_momentum counts the  *)
(* bar in between, qullamagi before anything else.                         *)
OnHeld(m) ==
    LET pos == Managed(m.pos)
        counted == Counted(m)
        before == IF profile.cooldown = "perNewBar" THEN m.cool ELSE counted
    IN IF SameBar(pos) THEN Decision(m, "none", None)
       ELSE IF Stopped(pos) \/ Reached(pos) THEN Decision(Emptied(m, before), "close", pos.side)
       ELSE IF profile.rule /\ shape.leave THEN Decision(Emptied(m, counted), "close", pos.side)
       ELSE IF profile.flips /\ shape.calls \notin {None, pos.side}
       THEN Decision([m EXCEPT !.pos = Levels(shape.calls, shape.close)], "open", shape.calls)
       ELSE Decision([pos |-> pos, cool |-> counted], "none", None)

(* on_candle while flat: an entry the indicators call for, on a side the    *)
(* strategy trades, outside its cooldown.                                  *)
OnFlat(m) ==
    LET c == Counted(m)
        side == shape.calls
        entry == [Levels(side, shape.close) EXCEPT
                     !.born = IF profile.skipsEntryBar THEN bar ELSE None,
                     !.peak = IF profile.trail = "peak" THEN Best(side) ELSE @]
    IN IF side \in profile.sides /\ ~Cooling(c)
       THEN Decision([pos |-> entry,
                      cool |-> [c EXCEPT !.at = IF profile.cooldown \in {"entryBars", "entryTime"}
                                                THEN bar ELSE @]], "open", side)
       ELSE Decision([m EXCEPT !.cool = c], "none", None)

OnCandle(m) == IF Held(m) THEN OnHeld(m) ELSE OnFlat(m)

(* _restore_strategy_from_row *)
FromRow(m, row) == IF row.state = None THEN RestoreState(m, row.side, row.price)
                                       ELSE RestoreJson(m, row.state)

(* Mutant: a refused order puts back the state the row was opened with. *)
ResyncedFromRow(m, row) == FromRow(m, row)

(* _resync_strategy_to_row: back to the state before the signal. *)
Resynced(m, row) == IF Exported(m) # None THEN RestoreJson(m, Exported(m)) ELSE FromRow(m, row)

-----------------------------------------------------------------------------
Bars == {[low |-> s.low, high |-> s.high, close |-> s.close, calls |-> c, leave |-> l] :
            s \in Shapes, c \in {None} \cup profile.sides,
            l \in IF profile.rule THEN BOOLEAN ELSE {FALSE}}

Init ==
    /\ profile \in Catalogue
    /\ bar = 0 /\ shape \in Bars
    /\ mem = Fresh /\ posRow = None /\ snap = None /\ up = TRUE
    /\ ref = None /\ forgot = FALSE /\ astray = FALSE

NewBar ==
    /\ bar < MaxBar
    /\ bar' = bar + 1 /\ shape' \in Bars
    /\ UNCHANGED <<profile, mem, posRow, snap, up, ref, forgot, astray>>

FromEntry == profile.cooldown \in {"entryBars", "entryTime"}

(* The order of an open is filled and booked: the levels move to the fill,  *)
(* the row takes the state (unless exporting it failed) and so does the    *)
(* snapshot.                                                               *)
Opened(d) == \E price \in Prices, kept \in BOOLEAN :
    LET m == OnFilled(d.mem, price) IN
    /\ mem' = m /\ snap' = Exported(m)
    /\ posRow' = [side |-> d.side, price |-> price, at |-> bar,
                  state |-> IF kept THEN Exported(m) ELSE None]
    /\ ref' = IF FromEntry THEN bar ELSE None
    /\ forgot' = (FromEntry /\ ~kept) /\ astray' = FALSE

(* Nothing is held after all: the strategy is reset, its cooldown stays. *)
LeftFlat(m) == /\ mem' = ResetPosition(m) /\ snap' = Exported(mem')
               /\ posRow' = None /\ astray' = FALSE

(* Mutant: a refused open leaves the strategy believing in its position. *)
RefusedBelieving(m) == mem' = m /\ snap' = Exported(m) /\ UNCHANGED <<posRow, astray>>

(* A plain open refused before it is sent, or a flip that closed and could  *)
(* not open.                                                               *)
Refused(m) == LeftFlat(m)

(* A plain open that the exchange does not fill: the strategy is left as it *)
(* is, in a position nobody has.                                           *)
NotFilled(m) == mem' = m /\ astray' = TRUE /\ UNCHANGED <<posRow, snap>>

(* Nothing was sent or filled, and the position is kept. *)
Kept == posRow # None /\ mem' = Resynced(mem, posRow) /\ UNCHANGED <<posRow, snap, astray>>

(* The strategy's own close is booked. A counter whose baseline is older    *)
(* than the bar before may later count bars from before the close.         *)
Closed(d) ==
    /\ posRow # None
    /\ mem' = d.mem /\ snap' = Exported(d.mem) /\ posRow' = None
    /\ astray' = FALSE
    /\ ref' = IF Counts THEN bar ELSE ref
    /\ forgot' = IF Counts THEN d.mem.cool.seen = None \/ bar - d.mem.cool.seen > 1
                         ELSE forgot

(* One tick of the strategy: it looks at the last closed bar, new or not,   *)
(* and the runner carries out what it asks for, or refuses it.             *)
Tick ==
    /\ up
    /\ LET d == OnCandle(mem) IN
       \/ d.act = "none" /\ mem' = d.mem /\ UNCHANGED <<posRow, snap, ref, forgot, astray>>
       \/ d.act = "open" /\ Opened(d)
       \/ d.act = "open" /\ Refused(d.mem) /\ UNCHANGED <<ref, forgot>>
       \/ d.act = "open" /\ posRow = None /\ NotFilled(d.mem) /\ UNCHANGED <<ref, forgot>>
       \/ d.act = "close" /\ Closed(d)
       \/ d.act = "close" /\ posRow = None /\ LeftFlat(d.mem) /\ UNCHANGED <<ref, forgot>>
       \/ d.act \in {"open", "close"} /\ Kept /\ UNCHANGED <<ref, forgot>>
    /\ UNCHANGED <<profile, bar, shape, up>>

(* Flat-all or a reconcile pass. *)
CloseOutside ==
    /\ up /\ posRow # None /\ LeftFlat(mem)
    /\ UNCHANGED <<profile, bar, shape, up, ref, forgot>>

(* What a dead process remembered is history: a restart reads Fresh. *)
Crash ==
    /\ up /\ up' = FALSE /\ astray' = FALSE
    /\ UNCHANGED <<profile, bar, shape, mem, posRow, snap, ref, forgot>>

(* The row is closed, the process dies before the snapshot is written: the  *)
(* cooldown of that close is gone and not judged below.                    *)
CrashBeforeSnapshot ==
    /\ up /\ OnCandle(mem).act = "close" /\ posRow # None
    /\ up' = FALSE /\ mem' = mem /\ posRow' = None
    /\ ref' = IF Counts THEN None ELSE ref
    /\ UNCHANGED <<profile, bar, shape, snap, forgot, astray>>

(* startup: the reconcile pass comes first. The strategy it resets is not   *)
(* restored yet, so the snapshot it writes is that of a new object.        *)
StartupReconcileCloses ==
    /\ ~up /\ up' = TRUE
    /\ posRow # None /\ LeftFlat(Fresh)
    /\ forgot' = TRUE
    /\ UNCHANGED <<profile, bar, shape, ref>>

RestoreHolding ==
    /\ ~up /\ up' = TRUE
    /\ posRow # None /\ mem' = FromRow(Fresh, posRow)
    /\ UNCHANGED <<profile, bar, shape, posRow, snap, ref, forgot, astray>>

(* restore_cooldown_only *)
CooldownOnly(state) == ResetPosition(RestoreJson(Fresh, state))

(* A flat strategy takes its cooldown from the snapshot, which is written   *)
(* anew if it still held a position.                                       *)
RestoreFlat ==
    /\ ~up /\ up' = TRUE /\ posRow = None
    /\ mem' = IF snap = None THEN Fresh ELSE CooldownOnly(snap)
    /\ snap' = IF snap # None /\ Held(snap) THEN Exported(mem') ELSE snap
    /\ UNCHANGED <<profile, bar, shape, posRow, ref, forgot, astray>>

Next == \/ NewBar \/ Tick \/ CloseOutside \/ Crash \/ CrashBeforeSnapshot
        \/ StartupReconcileCloses \/ RestoreHolding \/ RestoreFlat

Spec == Init /\ [][Next]_strategyVars

-----------------------------------------------------------------------------
TypeOK ==
    /\ bar \in 0..MaxBar /\ up \in BOOLEAN /\ {forgot, astray} \subseteq BOOLEAN
    /\ mem \in Memories /\ snap \in {None} \cup Memories
    /\ posRow \in {None} \cup PositionRows /\ (posRow # None => posRow.side \in profile.sides)
    /\ ref \in (0..MaxBar) \cup {None}

(* A running strategy believes in exactly the position its row says, after  *)
(* any refusal, close from outside and restart (runner.py: _reset_strategy *)
(* _state, _resync_strategy_to_row, _restore_strategies), but for the open  *)
(* the exchange did not fill.                                              *)
MemoryMatchesRow ==
    up /\ ~astray => mem.pos.side = IF posRow = None THEN None ELSE posRow.side

(* How far a trailing strategy has dragged its protection along. *)
Ratchet(pos) ==
    CASE profile.trail = "ratchet" -> pos.stop
      [] profile.trail = "peak" -> pos.peak
      [] profile.trail = "late" /\ pos.late -> pos.peak
      [] profile.trail = "breakeven" /\ pos.late -> 0
      [] OTHER -> None

NoLooser(old, new) == Ratchet(old) # None => Ratchet(new) # None /\ Ratchet(new) >= Ratchet(old)

(* While the process runs and the position stays, protection once gained is *)
(* kept, also across closes the exchange refuses (_resync_strategy_to_row, *)
(* "a ratcheted trailing stop keeps its ratchet").                         *)
RatchetHolds == [][up /\ up' /\ posRow # None /\ posRow' = posRow
                   => NoLooser(mem.pos, mem'.pos)]_strategyVars

Due(m) == OnCandle(m).act = "close"

(* "... and a due exit fires again": an exit that was due and is refused is *)
(* due at the next tick on the same bar.                                   *)
DueExitFiresAgain == [][up /\ up' /\ shape' = shape /\ bar' = bar
                        /\ posRow # None /\ posRow' = posRow
                        /\ Due(mem) => Due(mem)']_strategyVars

Quiet == CASE profile.cooldown = "perNewBar" -> CooldownBars - 1
           [] profile.cooldown = "entryTime" -> CooldownBars
           [] OTHER -> CooldownBars + 1

Opens == posRow' # None /\ posRow' # posRow

(* A strategy with a cooldown sits it out, counted in bars and not in       *)
(* ticks, across refusals, closes from outside and restarts, except in the *)
(* cases `forgot` names.                                                   *)
CooldownKept == [][Opens /\ profile.cooldown # "none" /\ ref # None
                   => forgot \/ bar - ref >= Quiet]_strategyVars
=============================================================================
