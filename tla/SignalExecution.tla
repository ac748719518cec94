-------------------------- MODULE SignalExecution --------------------------
(***************************************************************************)
(* EngineRunner._execute_signal and what it calls: one strategy signal     *)
(* taken from the gates through the order to the database row, one action  *)
(* per await that can fail or that something can slip in front of.         *)
(*                                                                         *)
(* A flip is one job with two legs: the strategy holds the other side, so  *)
(* a synthesized close runs first and the open follows only on its full    *)
(* success.  `job` is the coroutine: which signal, which leg, how far.     *)
(***************************************************************************)
EXTENDS Book

VARIABLES job,      \* the signal being executed
          unbooked  \* history: an order filled and no row records it

PCs == {"idle", "begin", "resolve", "send", "poll", "book", "verify",
        "unfilled", "confirm", "recheck", "settle", "align", "raised"}

IdleJob == [pc |-> "idle", strat |-> NoStrategy, want |-> "flat", old |-> "flat",
            leg |-> "close", flip |-> FALSE, refused |-> FALSE,
            asked |-> 0, got |-> 0, base |-> 0, why |-> "none"]

Jobs == [pc : PCs, strat : Strategies \union {NoStrategy},
         want : Stances,          \* the side the strategy asked to be on
         old : Stances,           \* _pre_signal_state; "flat" when none was kept
         leg : Legs, flip : BOOLEAN,
         refused : BOOLEAN,       \* a risk limit refuses the open half
         asked : Nat, got : Nat,  \* lots sent, lots reported filled
         base : Int,              \* position read before the order
         why : {"none", "rejected", "unknown", "raised"}]

S == job.strat
C == CoinOf[S]
DbFails == "db" \in Faults
ReadFails == "exchange" \in Faults

(* The side the current leg trades: a flip's close trades away the row, a  *)
(* plain CLOSE the side its action names.                                  *)
LegSide == IF job.leg = "open" THEN job.want
           ELSE IF job.flip THEN row[S].side ELSE job.old

Order == [coin |-> C, side |-> LegSide, lots |-> job.asked, leg |-> job.leg]

Goto(pc) == job' = [job EXCEPT !.pc = pc]
GotoBecause(pc, why) == job' = [job EXCEPT !.pc = pc, !.why = why]
Done == job' = IdleJob
Believe(stance) == belief' = [belief EXCEPT ![S] = stance]
KeepBelief == UNCHANGED belief
NoTrade == UNCHANGED <<account, unbooked>>

(* _resync_strategy_to_row: re-armed on the row, with the flags kept from  *)
(* before the signal when the strategy held a position then.               *)
Resync == \E stance \in {row[S].side, job.old} \ {"flat"} : Believe(stance)

(* An exception leaves _execute_signal; a flip's close aligns on the way.  *)
Raise == IF job.flip /\ job.leg = "close" THEN GotoBecause("align", "raised")
                                          ELSE GotoBecause("raised", "raised")

-----------------------------------------------------------------------------
(* on_candle returned a signal.  The strategy has already switched its own *)
(* flags to the side it asks for.                                          *)
Signal(s, want) ==
    /\ job.pc = "idle"
    /\ belief[s] # want
    /\ job' = [IdleJob EXCEPT !.pc = IF want = "flat" THEN "resolve" ELSE "begin",
                              !.strat = s, !.want = want, !.old = belief[s]]
    /\ belief' = [belief EXCEPT ![s] = want]
    /\ NoTrade /\ UNCHANGED control

(* _open_refusal: the gates of an OPEN, on the other strategies' rows. *)
SameCoin(s) == {t \in HoldersOn(CoinOf[s]) : t # s}

SameFamily(s) ==
    {t \in Holders : t # s /\ FamilyOf[s] # NoFamily /\ FamilyOf[t] = FamilyOf[s]}

Exposure(others) == SumFunctionOnSet([t \in Strategies |-> row[t].size], others)

RefusedWhateverTheSide(s, want) ==     \* mutant: no opposite-side gate
    \/ ~AllowMultiCoin /\ SameCoin(s) \union SameFamily(s) # {}
    \/ ExposureCap > 0 /\ Exposure(Holders \ {s}) + OrderLots > ExposureCap

RefusedOnceOverTheCap(s, want) ==      \* mutant: the cap is compared without the order
    \/ ~AllowMultiCoin /\ SameCoin(s) \union SameFamily(s) # {}
    \/ \E t \in SameCoin(s) : row[t].side # want
    \/ ExposureCap > 0 /\ Exposure(Holders \ {s}) > ExposureCap

RefusedOnTheCoinOnly(s, want) ==       \* mutant: no family gate
    \/ ~AllowMultiCoin /\ SameCoin(s) # {}
    \/ \E t \in SameCoin(s) : row[t].side # want
    \/ ExposureCap > 0 /\ Exposure(Holders \ {s}) + OrderLots > ExposureCap

Refused(s, want) ==
    \/ ~AllowMultiCoin /\ SameCoin(s) \union SameFamily(s) # {}
    \/ \E t \in SameCoin(s) : row[t].side # want
    \/ ExposureCap > 0 /\ Exposure(Holders \ {s}) + OrderLots > ExposureCap

RiskRefuses == OpensHeld \/ "risk" \in Faults
RiskAllows == ~OpensHeld

(* The duplicate check and the risk limits of an OPEN; nothing is sent.    *)
(* A risk refusal still lets the close half of a flip through.             *)
BeginOpen ==
    /\ job.pc = "begin"
    /\ NoTrade /\ UNCHANGED control
    /\ \/ DbFails /\ Raise /\ KeepBelief
       \/ row[S].side = job.want /\ Done /\ KeepBelief
       \/ /\ RiskRefuses /\ ~Holds(S)
          /\ Done /\ Believe("flat")
       \/ /\ RiskRefuses /\ Holds(S) /\ row[S].side # job.want
          /\ job' = [job EXCEPT !.pc = "resolve", !.flip = TRUE, !.refused = TRUE]
          /\ KeepBelief
       \/ /\ RiskAllows /\ Refused(S, job.want) /\ row[S].side # job.want
          /\ Done /\ IF Holds(S) THEN Resync ELSE Believe("flat")
       \/ /\ RiskAllows /\ ("risk" \in Faults \/ (DbFails /\ Holds(S)))
          /\ row[S].side # job.want
          /\ Done /\ IF Holds(S) THEN Resync ELSE Believe("flat")
       \/ /\ RiskAllows /\ ~Refused(S, job.want) /\ ~Holds(S)
          /\ job' = [job EXCEPT !.pc = "send", !.leg = "open", !.asked = OrderLots]
          /\ KeepBelief
       \/ /\ RiskAllows /\ ~Refused(S, job.want)
          /\ Holds(S) /\ row[S].side # job.want
          /\ job' = [job EXCEPT !.pc = "resolve", !.flip = TRUE]
          /\ KeepBelief

(* _resolve_close_size: the row's size, clamped to what the exchange holds *)
(* when that can be read and is not nothing.  A flip whose close finds     *)
(* nothing to do aligns the strategy.                                      *)
ResolveClose ==
    /\ job.pc = "resolve"
    /\ NoTrade /\ UNCHANGED control
    /\ LET held == HeldOnSide(pos[C], LegSide)
           clamped == held > 0 /\ held < row[S].size
       IN
       \/ DbFails /\ Raise /\ KeepBelief
       \/ ~Holds(S) /\ Done /\ Believe("flat")
       \/ Holds(S) /\ row[S].side # LegSide /\ Done /\ KeepBelief
       \/ /\ Holds(S) /\ row[S].side = LegSide
          /\ \E n \in {row[S].size, held} :
                /\ clamped => n = held \/ ReadFails
                /\ ~clamped => n = row[S].size
                /\ job' = [job EXCEPT !.pc = "send", !.asked = n]
          /\ KeepBelief

-----------------------------------------------------------------------------
(* HyperLiquid.place_order: POSTed once.  It fills (an IOC order perhaps   *)
(* in part), is refused, or times out with its outcome unknown.            *)
OrderFills ==
    /\ job.pc = "send"
    /\ \E k \in Fills(Order) :
          /\ pos' = AfterFill(Order, k)
          /\ job' = [job EXCEPT !.pc = "book", !.got = k]
    /\ InBounds(pos')
    /\ UNCHANGED <<row, inflight, lies, clean, unbooked, belief, control>>

OrderRefused ==
    /\ job.pc = "send"
    /\ GotoBecause("unfilled", "rejected")
    /\ NoTrade /\ UNCHANGED <<belief, control>>

OrderTimesOut ==
    /\ job.pc = "send" /\ "outcome" \in Faults
    /\ inflight = {}                         \* bound: one unknown order at a time
    /\ inflight' = {Order}
    /\ clean' = FALSE
    /\ \E answer \in Answers :                 \* the read made before the order
          /\ lies' = LiesIn(answer)
          /\ job' = [job EXCEPT !.pc = "poll", !.base = answer[C]]
    /\ UNCHANGED <<row, pos, unbooked, belief, control>>

(* Without a read to compare with there is nothing to poll for. *)
OrderTimesOutUnread ==
    /\ job.pc = "send" /\ "outcome" \in Faults /\ ReadFails
    /\ inflight = {}
    /\ inflight' = {Order}
    /\ clean' = FALSE
    /\ GotoBecause("unfilled", "unknown")
    /\ UNCHANGED <<row, pos, lies, unbooked, belief, control>>

PollSeesFill ==
    /\ job.pc = "poll"
    /\ \E answer \in Answers :
          /\ PollMatches(Order, job.base, answer)
          /\ lies' = LiesIn(answer)
    /\ job' = [job EXCEPT !.pc = "book", !.got = job.asked]
    /\ UNCHANGED <<row, pos, inflight, clean, unbooked, belief, control>>

PollGivesUp ==
    /\ job.pc = "poll"
    /\ PollMisses(Order, job.base)
    /\ GotoBecause("unfilled", "unknown")
    /\ NoTrade /\ UNCHANGED <<belief, control>>

PlaceOrder == OrderFills \/ OrderRefused \/ OrderTimesOut \/ OrderTimesOutUnread
              \/ PollSeesFill \/ PollGivesUp

-----------------------------------------------------------------------------
Remaining == IF job.leg = "close" THEN job.asked - job.got ELSE 0

BookedAsAsked ==                       \* mutant: what was asked is what filled
    IF job.leg = "open" THEN [side |-> job.want, size |-> job.asked] ELSE NoRow

BookedWithNothingLeft ==               \* mutant: >= for > on what a close leaves
    IF job.leg = "open" THEN [side |-> job.want, size |-> job.got]
    ELSE [row[S] EXCEPT !.size = Remaining]

(* The row a fill leaves: a close that filled short keeps its rest on it. *)
BookedRow ==
    IF job.leg = "open" THEN [side |-> job.want, size |-> job.got]
    ELSE IF Remaining > 0 THEN [row[S] EXCEPT !.size = Remaining]
    ELSE NoRow

(* The Trade and the position row, in one transaction. *)
BookFill ==
    /\ job.pc = "book"
    /\ row' = [row EXCEPT ![S] = BookedRow]
    /\ Goto("verify")
    /\ IF Remaining > 0 THEN Resync ELSE KeepBelief
    /\ UNCHANGED <<pos, inflight, lies, clean, unbooked, control>>

(* The transaction raised: the fill has no record, so the bot pauses itself. *)
BookFails ==
    /\ job.pc = "book" /\ DbFails
    /\ paused' \in IF "redis" \in Faults THEN {paused, TRUE} ELSE {TRUE}
    /\ GotoBecause("raised", "raised")
    /\ unbooked' = TRUE /\ clean' = FALSE
    /\ UNCHANGED <<row, pos, inflight, lies, belief, holdKey, ctl, awaiting>>

(* A close reads its row for the PnL first, outside the try that pauses. *)
PnlReadFails ==
    /\ job.pc = "book" /\ job.leg = "close" /\ DbFails
    /\ Raise
    /\ unbooked' = TRUE /\ clean' = FALSE
    /\ UNCHANGED <<row, pos, inflight, lies, belief, control>>

(* What follows a leg: the open half of a flip after its close, else the end. *)
LegSucceeded ==
    IF job.flip /\ job.leg = "close"
    THEN IF job.refused
         THEN Done /\ Believe("flat")
         ELSE /\ job' = [job EXCEPT !.pc = "send", !.leg = "open",
                                    !.asked = OrderLots, !.got = 0, !.why = "none"]
              /\ KeepBelief
    ELSE Done /\ KeepBelief

LegFailed ==
    /\ IF job.flip /\ job.leg = "close" THEN Goto("align") ELSE Done
    /\ KeepBelief

(* _check_parity_after_trade: rows and exchange must agree on the coin's   *)
(* net; what cannot be read counts as agreeing.                            *)
VerifyParity ==
    /\ job.pc = "verify"
    /\ UNCHANGED <<row, pos, inflight, clean, unbooked, control>>
    /\ \/ /\ ReadFails \/ DbFails
          /\ IF Remaining = 0 THEN LegSucceeded ELSE LegFailed
          /\ UNCHANGED lies
       \/ \E answer \in Answers :
          /\ lies' = LiesIn(answer)
          /\ IF answer[C] = Net(C) /\ Remaining = 0 THEN LegSucceeded ELSE LegFailed

-----------------------------------------------------------------------------
OpenNotFilledAsItWas ==                \* mutant: a flip's open is a plain open
    /\ job.pc = "unfilled" /\ job.leg = "open"
    /\ Done /\ KeepBelief
    /\ NoTrade /\ UNCHANGED control

(* An order that did not fill: a flip's open leaves the strategy flat, a   *)
(* plain open leaves it as it is.                                          *)
OpenNotFilled ==
    /\ job.pc = "unfilled" /\ job.leg = "open"
    /\ Done
    /\ IF job.flip THEN Believe("flat") ELSE KeepBelief
    /\ NoTrade /\ UNCHANGED control

(* _close_left_open: dropped when another row shares the coin or the rows  *)
(* cannot be read, else classified by two reads.                           *)
CloseDropped ==
    /\ job.pc = "unfilled" /\ job.leg = "close"
    /\ SameCoin(S) # {} \/ DbFails
    /\ LegFailed
    /\ NoTrade /\ UNCHANGED control

CloseNotFilled ==
    /\ job.pc = "unfilled" /\ job.leg = "close"
    /\ SameCoin(S) = {}
    /\ Goto("confirm")
    /\ NoTrade /\ UNCHANGED <<belief, control>>

(* Still held, as far as it can be told: re-armed, unless HL may yet fill  *)
(* the order.                                                              *)
StillHeld ==
    IF job.why = "unknown" THEN LegFailed ELSE Done /\ Resync

(* _held_after_close: nothing left needs two reads that say so. *)
ConfirmClose ==
    /\ job.pc \in {"confirm", "recheck"}
    /\ UNCHANGED <<row, pos, inflight, clean, unbooked, control>>
    /\ \/ ReadFails /\ StillHeld /\ UNCHANGED lies
       \/ \E answer \in Answers :
          /\ lies' = LiesIn(answer)
          /\ IF HeldOnSide(answer[C], row[S].side) > 0
             THEN StillHeld
             ELSE /\ Goto(IF job.pc = "confirm" THEN "recheck" ELSE "settle")
                  /\ KeepBelief

(* _book_external_close; a row nothing can price is left to reconcile. *)
SettleExternal ==
    /\ job.pc = "settle"
    /\ UNCHANGED <<pos, inflight, lies, clean, unbooked, control>>
    /\ \/ /\ row' = [row EXCEPT ![S] = NoRow]
          /\ Done /\ Believe("flat")
       \/ /\ DbFails \/ ReadFails
          /\ LegFailed /\ UNCHANGED row

(* _align_strategy_after_failed_flip_close; an unreadable row is taken to  *)
(* be still open.                                                          *)
Align ==
    /\ job.pc = "align"
    /\ IF job.why = "raised" THEN Goto("raised") ELSE Done
    /\ \/ IF Holds(S) THEN Resync ELSE Believe("flat")
       \/ DbFails /\ ~Holds(S) /\ Believe(Opposite(job.want))
    /\ NoTrade /\ UNCHANGED control

(* The tick's handler logs the exception; the strategy stays as it is. *)
RaiseHandled ==
    /\ job.pc = "raised"
    /\ Done
    /\ NoTrade /\ UNCHANGED <<belief, control>>

SignalStep ==
    \/ BeginOpen \/ ResolveClose \/ PlaceOrder \/ BookFill \/ BookFails
    \/ PnlReadFails \/ VerifyParity \/ OpenNotFilled \/ CloseDropped
    \/ CloseNotFilled \/ ConfirmClose \/ SettleExternal \/ Align \/ RaiseHandled
=============================================================================
