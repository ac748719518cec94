------------------------- MODULE TradeEngineProofs -------------------------
(***************************************************************************)
(* What TradeEngine guarantees for every set of strategies and coins: the  *)
(* types, one side per coin, one holder per coin and family, the exposure  *)
(* cap, restored before trading, nothing opened after a flat-all; and,     *)
(* under the failures each theorem names, that the books match, that a     *)
(* flat-all flattens, that a counted pass leaves no orphan, that a flip    *)
(* ends on its row and that a backed row stays open.                       *)
(*                                                                         *)
(* Everything rests on TypeInv, which adds to TypeOK what the coroutine of *)
(* a signal knows between its awaits.  RowInv adds to it that an OPEN on   *)
(* its way was admitted by the gates and that no other row has appeared    *)
(* since, LoadInv the room the cap left it when it was admitted and AskInv *)
(* how much each leg may ask for; RestoreInv and HaltInv relate the phase  *)
(* of the tick to the pending restore and to the flat-all.  LegInv and     *)
(* FlipInv say what a leg and a flip know at each of their awaits,         *)
(* BookedInv by how much rows and exchange differ while one is under way,  *)
(* FlatCloseInv, OrphanInv and BackedInv what a flat-all and a check know  *)
(* of the account they have read.                                          *)
(***************************************************************************)
EXTENDS TradeEngine, TLAPS, FiniteSetTheorems, WellFoundedInduction

(* One coroutine: a pass, a flat-all and a signal never run together. *)
OneAtATime ==
    /\ pass.pc # "idle" => phase \in {"boot", "tick"}
    /\ flat.pc # "idle" => phase = "flat"
    /\ job.pc # "idle" => phase = "turns"

(* What the coroutine of a signal knows at each of its awaits. *)
Sending == job.pc \in {"send", "poll", "book"}

JobOK ==
    /\ job.pc # "idle" => job.strat \in Strategies
    /\ job.pc # "idle" /\ (job.leg = "open" \/ job.flip \/ job.pc = "begin")
          => job.want \in Sides
    /\ job.pc = "begin" => job.leg = "close" /\ ~job.flip
    /\ (job.pc = "resolve" \/ Sending) /\ job.leg = "close" /\ ~job.flip
          => job.old \in Sides
    /\ Sending => job.asked > 0
    /\ Sending /\ job.leg = "close" => Holds(S) /\ row[S].side = LegSide
    /\ job.pc = "book" => job.got > 0

(* An exchange position that is about to be closed is not empty, and a     *)
(* coin is polled for in the poll alone.                                   *)
ReadsOK ==
    /\ pass.pc \in {"again", "close"} => \A c \in pass.closable : pass.seen[c] # 0
    /\ \A c \in flat.left : flat.seen[c] # 0
    /\ flat.pc # "poll" => flat.polling = {}

TypeInv == TypeOK /\ OneAtATime /\ JobOK /\ ReadsOK

LEMMA InitTypeInv == Init => TypeInv
<1> SUFFICES ASSUME Init PROVE TypeInv
  OBVIOUS
<1> USE DEF Init, BookInit, FlatInit
<1>1. BookTypeOK
  <2>1. row \in [Strategies -> Rows]
    BY DEF Rows
  <2>2. belief \in [Strategies -> Stances]
    BY DEF Stances
  <2>3. pos \in [Coins -> Int] /\ lies \in Nat /\ inflight \subseteq Orders
    OBVIOUS
  <2>4. paused \in BOOLEAN /\ holdKey \in BOOLEAN /\ clean \in BOOLEAN
    OBVIOUS
  <2>5. ctl \in {"none", "set", "unreadable"} /\ awaiting \in {"no", "first", "after_clear"}
    OBVIOUS
  <2> QED
    BY ONLY <2>1, <2>2, <2>3, <2>4, <2>5 DEF BookTypeOK
<1>2. job \in Jobs
  BY BookAssumption DEF IdleJob, Jobs, PCs, Legs, Stances
<1>3. pass \in Passes
  BY DEF IdlePass, Passes, PassPCs
<1>4. FlatTypeOK
  BY DEF FlatTypeOK, IdleFlat, Flats, FlatPCs
<1>5. OneAtATime
  BY DEF OneAtATime, IdleJob, IdlePass, IdleFlat
<1>6. JobOK
  BY DEF JobOK, IdleJob, Sending
<1>7. ReadsOK
  BY DEF ReadsOK, IdlePass, IdleFlat
<1> QED
  BY <1>1, <1>2, <1>3, <1>4, <1>5, <1>6, <1>7 DEF TypeInv, TypeOK, Phases

-----------------------------------------------------------------------------
(* What the helpers return. *)
LEMMA HeldNat ==
  ASSUME NEW p \in Int, NEW side PROVE HeldOnSide(p, side) \in Nat
  BY DEF HeldOnSide

LEMMA FillsPositive ==
  ASSUME pos \in [Coins -> Int], NEW o \in Orders
  PROVE  Fills(o) \subseteq Nat \ {0}
<1>1. HeldOnSide(pos[o.coin], o.side) \in Nat
  BY HeldNat DEF Orders
<1>2. Takes(o) \in Nat
  BY <1>1 DEF Takes, Orders
<1> QED
  BY <1>2 DEF Fills

LEMMA AfterFillInt ==
  ASSUME pos \in [Coins -> Int], NEW o \in Orders, NEW k \in Nat
  PROVE  AfterFill(o, k) \in [Coins -> Int]
<1>1. Signed(o.side, k) \in Int
  BY DEF Signed
<1> QED
  BY <1>1 DEF AfterFill, Orders

LEMMA AnswersInt ==
  ASSUME pos \in [Coins -> Int], NEW answer \in Answers
  PROVE  answer \in [Coins -> Int]
  BY DEF Answers

LEMMA LiesNat ==
  ASSUME lies \in Nat, NEW answer PROVE LiesIn(answer) \in Nat
  BY DEF LiesIn

LEMMA OrderTyped ==
  ASSUME TypeInv, Sending PROVE Order \in Orders
<1>1. job \in Jobs /\ job.strat \in Strategies /\ job.asked \in Nat \ {0}
  BY DEF TypeInv, TypeOK, JobOK, Sending, Jobs
<1>2. C \in Coins
  BY <1>1, BookAssumption DEF C, S
<1>3. LegSide \in Sides
  <2>1. CASE job.leg = "open"
    BY <2>1 DEF LegSide, TypeInv, JobOK, Sending
  <2>2. CASE job.leg # "open" /\ job.flip
    <3>1. Holds(S) /\ row[S] \in Rows
      BY <1>1, <2>2 DEF TypeInv, TypeOK, BookTypeOK, JobOK, Jobs, Legs, S
    <3> QED
      BY <2>2, <3>1 DEF LegSide, Holds, Rows
  <2>3. CASE job.leg # "open" /\ ~job.flip
    BY <1>1, <2>3 DEF LegSide, TypeInv, JobOK, Sending, Jobs, Legs
  <2> QED
    BY <2>1, <2>2, <2>3
<1> QED
  BY <1>1, <1>2, <1>3 DEF Order, Orders, Jobs

-----------------------------------------------------------------------------
(* How a job may go on, and what the strategy may be made to believe. *)
LEMMA DoneTyped ==
  ASSUME Done PROVE job' \in Jobs /\ JobOK'
<1>1. job' \in Jobs
  BY DEF Done, IdleJob, Jobs, PCs, Legs, Stances
<1> QED
  BY <1>1 DEF Done, IdleJob, JobOK, Sending

LEMMA StopTyped ==
  ASSUME TypeInv, job.pc # "idle",
         NEW pc \in {"verify", "unfilled", "confirm", "recheck", "settle", "align", "raised"},
         NEW why \in {"none", "rejected", "unknown", "raised"},
         Goto(pc) \/ GotoBecause(pc, why)
  PROVE  job' \in Jobs /\ JobOK'
<1>1. job \in Jobs /\ JobOK
  BY DEF TypeInv, TypeOK
<1>2. job' \in Jobs /\ job'.pc = pc
  BY <1>1, ZenonT(60) DEF Goto, GotoBecause, Jobs, PCs
<1>3. /\ job'.strat = job.strat /\ job'.want = job.want
      /\ job'.leg = job.leg /\ job'.flip = job.flip
  BY <1>1 DEF Goto, GotoBecause, Jobs
<1> QED
  BY <1>1, <1>2, <1>3 DEF JobOK, Sending

LEMMA RaiseTyped ==
  ASSUME TypeInv, job.pc # "idle", Raise PROVE job' \in Jobs /\ JobOK'
  BY StopTyped DEF Raise

LEMMA LegFailedTyped ==
  ASSUME TypeInv, job.pc # "idle", LegFailed
  PROVE  job' \in Jobs /\ JobOK' /\ belief' = belief
<1>1. job' \in Jobs /\ JobOK'
  BY StopTyped, DoneTyped DEF LegFailed
<1> QED
  BY <1>1 DEF LegFailed, KeepBelief

LEMMA BelieveTyped ==
  ASSUME TypeInv, job.pc # "idle", NEW stance \in Stances, Believe(stance)
  PROVE  belief' \in [Strategies -> Stances]
  BY DEF Believe, S, TypeInv, TypeOK, BookTypeOK, JobOK

LEMMA ResyncTyped ==
  ASSUME TypeInv, job.pc # "idle", Resync
  PROVE  belief' \in [Strategies -> Stances]
<1>1. row[S].side \in Stances /\ job.old \in Stances
  BY DEF TypeInv, TypeOK, BookTypeOK, JobOK, Jobs, S, Rows, NoRow, Stances
<1> QED
  BY <1>1, BelieveTyped DEF Resync

LEMMA StillHeldTyped ==
  ASSUME TypeInv, job.pc # "idle", StillHeld
  PROVE  job' \in Jobs /\ JobOK' /\ belief' \in [Strategies -> Stances]
<1>1. belief \in [Strategies -> Stances]
  BY DEF TypeInv, TypeOK, BookTypeOK
<1> QED
  BY <1>1, LegFailedTyped, DoneTyped, ResyncTyped DEF StillHeld

LEMMA LegSucceededTyped ==
  ASSUME TypeInv, job.pc # "idle", LegSucceeded
  PROVE  job' \in Jobs /\ JobOK' /\ belief' \in [Strategies -> Stances]
<1>1. belief \in [Strategies -> Stances] /\ job \in Jobs /\ JobOK
  BY DEF TypeInv, TypeOK, BookTypeOK
<1>2. CASE Done
  BY <1>1, <1>2, DoneTyped, BelieveTyped DEF LegSucceeded, KeepBelief, Stances
<1>3. CASE ~Done
  <2>1. /\ job' = [job EXCEPT !.pc = "send", !.leg = "open",
                              !.asked = OrderLots, !.got = 0, !.why = "none"]
        /\ job.flip /\ belief' = belief
    BY <1>3 DEF LegSucceeded, KeepBelief
  <2>2. job' \in Jobs
    BY <1>1, <2>1, BookAssumption DEF Jobs, PCs, Legs
  <2>3. /\ job'.pc = "send" /\ job'.leg = "open" /\ job'.asked = OrderLots
        /\ job'.strat = job.strat /\ job'.want = job.want
    BY <1>1, <2>1 DEF Jobs
  <2>4. JobOK'
    BY <1>1, <2>1, <2>3, BookAssumption DEF JobOK, Sending
  <2> QED
    BY <1>1, <2>1, <2>2, <2>4
<1> QED
  BY <1>2, <1>3

-----------------------------------------------------------------------------
(* Every step of a signal keeps the types and what its coroutine knows. *)
SignalTyped == BookTypeOK' /\ job' \in Jobs /\ unbooked' \in BOOLEAN /\ JobOK'

LEMMA NoTradeTyped ==
  ASSUME TypeInv, NoTrade, UNCHANGED control, belief' \in [Strategies -> Stances],
         job' \in Jobs, JobOK'
  PROVE  SignalTyped
<1>1. BookTypeOK /\ unbooked \in BOOLEAN
  BY DEF TypeInv, TypeOK
<1>2. UNCHANGED <<row, pos, inflight, lies, clean, unbooked, paused, holdKey, ctl, awaiting>>
  BY DEF NoTrade, account, control
<1>3. BookTypeOK'
  BY <1>1, <1>2 DEF BookTypeOK
<1> QED
  BY <1>1, <1>2, <1>3 DEF SignalTyped

LEMMA BeginOpenTyped == ASSUME TypeInv, BeginOpen PROVE SignalTyped
<1>0. /\ job.pc = "begin" /\ job.strat \in Strategies /\ job.want \in Sides
      /\ job \in Jobs /\ JobOK /\ belief \in [Strategies -> Stances]
  BY DEF BeginOpen, TypeInv, TypeOK, BookTypeOK, JobOK
<1>1. CASE Raise /\ KeepBelief
  BY <1>0, <1>1, RaiseTyped, NoTradeTyped DEF KeepBelief, BeginOpen
<1>2. CASE Done
  <2>1. KeepBelief \/ Resync \/ Believe("flat")
    BY <1>2 DEF BeginOpen, Raise, Done, GotoBecause, IdleJob
  <2>2. belief' \in [Strategies -> Stances]
    BY <1>0, <2>1, ResyncTyped, BelieveTyped DEF KeepBelief, Stances
  <2> QED
    BY <1>2, <2>2, DoneTyped, NoTradeTyped DEF BeginOpen
<1>3. CASE /\ \/ job' = [job EXCEPT !.pc = "resolve", !.flip = TRUE]
              \/ job' = [job EXCEPT !.pc = "resolve", !.flip = TRUE, !.refused = TRUE]
           /\ KeepBelief
  <2>1. job' \in Jobs
    BY <1>0, <1>3, ZenonT(60) DEF Jobs, PCs
  <2>2. /\ job'.pc = "resolve" /\ job'.flip /\ job'.strat = job.strat
        /\ job'.want = job.want
    BY <1>0, <1>3 DEF Jobs
  <2>3. JobOK'
    BY <1>0, <2>2 DEF JobOK, Sending
  <2> QED
    BY <1>0, <1>3, <2>1, <2>3, NoTradeTyped DEF KeepBelief, BeginOpen
<1>4. CASE /\ job' = [job EXCEPT !.pc = "send", !.leg = "open", !.asked = OrderLots]
           /\ KeepBelief
  <2>1. job' \in Jobs
    BY <1>0, <1>4, BookAssumption DEF Jobs, PCs, Legs
  <2>2. /\ job'.pc = "send" /\ job'.leg = "open" /\ job'.asked = OrderLots
        /\ job'.strat = job.strat /\ job'.want = job.want
    BY <1>0, <1>4 DEF Jobs
  <2>3. JobOK'
    BY <1>0, <2>2, BookAssumption DEF JobOK, Sending
  <2> QED
    BY <1>0, <1>4, <2>1, <2>3, NoTradeTyped DEF KeepBelief, BeginOpen
<1> QED
  BY <1>1, <1>2, <1>3, <1>4 DEF BeginOpen

LEMMA ResolveCloseTyped == ASSUME TypeInv, ResolveClose PROVE SignalTyped
<1>0. /\ job.pc = "resolve" /\ job.strat \in Strategies /\ C \in Coins
      /\ job \in Jobs /\ JobOK /\ belief \in [Strategies -> Stances]
      /\ row[S] \in Rows /\ pos \in [Coins -> Int]
  BY BookAssumption DEF ResolveClose, TypeInv, TypeOK, BookTypeOK, JobOK, S, C
<1>1. CASE Raise /\ KeepBelief
  BY <1>0, <1>1, RaiseTyped, NoTradeTyped DEF KeepBelief, ResolveClose
<1>2. CASE Done
  <2>1. KeepBelief \/ Believe("flat")
    BY <1>2 DEF ResolveClose, Raise
  <2>2. belief' \in [Strategies -> Stances]
    BY <1>0, <2>1, BelieveTyped DEF KeepBelief, Stances
  <2> QED
    BY <1>2, <2>2, DoneTyped, NoTradeTyped DEF ResolveClose
<1>3. ASSUME Holds(S), row[S].side = LegSide, KeepBelief,
             NEW n \in {row[S].size, HeldOnSide(pos[C], LegSide)},
             n = row[S].size \/ HeldOnSide(pos[C], LegSide) > 0,
             job' = [job EXCEPT !.pc = "send", !.asked = n]
      PROVE  SignalTyped
  <2>1. n \in Nat \ {0}
    BY <1>0, <1>3, HeldNat DEF Holds, Rows
  <2>2. job' \in Jobs
    BY <1>0, <1>3, <2>1 DEF Jobs, PCs
  <2>3. /\ job'.pc = "send" /\ job'.asked = n /\ job'.strat = job.strat
        /\ job'.want = job.want /\ job'.leg = job.leg /\ job'.flip = job.flip
        /\ job'.old = job.old
    BY <1>0, <1>3 DEF Jobs
  <2>4. row' = row
    BY DEF ResolveClose, NoTrade, account
  <2>5. JobOK'
    BY <1>0, <1>3, <2>1, <2>3, <2>4 DEF JobOK, Sending, LegSide, S, Holds
  <2> QED
    BY <1>0, <1>3, <2>2, <2>5, NoTradeTyped DEF KeepBelief, ResolveClose
<1>4. CASE \/ Raise /\ KeepBelief
           \/ Done
           \/ /\ Holds(S) /\ row[S].side = LegSide /\ KeepBelief
              /\ \E n \in {row[S].size, HeldOnSide(pos[C], LegSide)} :
                    /\ n = row[S].size \/ HeldOnSide(pos[C], LegSide) > 0
                    /\ job' = [job EXCEPT !.pc = "send", !.asked = n]
  BY <1>1, <1>2, <1>3, <1>4
<1> QED
  BY <1>0, <1>4, HeldNat DEF ResolveClose

LEMMA PlaceOrderTyped == ASSUME TypeInv, PlaceOrder PROVE SignalTyped
<1>0. /\ job.pc \in {"send", "poll"} /\ Sending /\ job \in Jobs /\ JobOK
      /\ BookTypeOK /\ unbooked \in BOOLEAN /\ Order \in Orders
      /\ pos \in [Coins -> Int] /\ belief \in [Strategies -> Stances]
  BY OrderTyped DEF PlaceOrder, OrderFills, OrderRefused, OrderTimesOut, OrderTimesOutUnread,
     PollSeesFill,
     PollGivesUp, TypeInv, TypeOK, BookTypeOK, Sending
<1>1. CASE OrderFills
  <2>1. PICK k \in Fills(Order) : /\ pos' = AfterFill(Order, k)
                                  /\ job' = [job EXCEPT !.pc = "book", !.got = k]
    BY <1>1 DEF OrderFills
  <2>2. k \in Nat \ {0}
    BY <1>0, <2>1, FillsPositive
  <2>3. pos' \in [Coins -> Int]
    BY <1>0, <2>1, <2>2, AfterFillInt
  <2>4. job' \in Jobs
    BY <1>0, <2>1, <2>2 DEF Jobs, PCs
  <2>5. /\ job'.pc = "book" /\ job'.got = k /\ job'.strat = job.strat
        /\ job'.want = job.want /\ job'.leg = job.leg /\ job'.flip = job.flip
        /\ job'.old = job.old /\ job'.asked = job.asked
    BY <1>0, <2>1 DEF Jobs
  <2>6. UNCHANGED <<row, belief, inflight, lies, clean, unbooked, paused, holdKey, ctl, awaiting>>
    BY <1>1 DEF OrderFills, control
  <2>7. JobOK'
    BY <1>0, <2>2, <2>5, <2>6 DEF JobOK, Sending, LegSide, S, Holds
  <2>8. BookTypeOK'
    BY <1>0, <2>3, <2>6 DEF BookTypeOK
  <2> QED
    BY <1>0, <2>4, <2>6, <2>7, <2>8 DEF SignalTyped
<1>2. CASE OrderRefused \/ PollGivesUp
  <2>1. job' \in Jobs /\ JobOK'
    BY <1>0, <1>2, StopTyped DEF OrderRefused, PollGivesUp
  <2> QED
    BY <1>0, <1>2, <2>1, NoTradeTyped DEF OrderRefused, PollGivesUp
<1>3. CASE OrderTimesOut
  <2>1. /\ inflight' = {Order} /\ clean' = FALSE
        /\ UNCHANGED <<row, pos, unbooked, belief, paused, holdKey, ctl, awaiting>>
    BY <1>3 DEF OrderTimesOut, control
  <2>2. lies' \in Nat
    BY <1>0, <1>3, LiesNat DEF OrderTimesOut, BookTypeOK
  <2>3. BookTypeOK'
    BY <1>0, <2>1, <2>2 DEF BookTypeOK
  <2>4. job' \in Jobs /\ JobOK'
    <3>0. PICK answer \in Answers : job' = [job EXCEPT !.pc = "poll", !.base = answer[C]]
      BY <1>3 DEF OrderTimesOut
    <3>1. answer[C] \in Int
      BY <1>0, AnswersInt, BookAssumption DEF JobOK, C, S
    <3>2. job' \in Jobs
      BY <1>0, <3>0, <3>1 DEF Jobs, PCs
    <3>3. /\ job'.pc = "poll" /\ job'.strat = job.strat
          /\ job'.want = job.want /\ job'.leg = job.leg /\ job'.flip = job.flip
          /\ job'.old = job.old /\ job'.asked = job.asked
      BY <1>0, <3>0 DEF Jobs
    <3> QED
      BY <1>0, <2>1, <3>2, <3>3 DEF JobOK, Sending, LegSide, S, Holds
  <2> QED
    BY <1>0, <2>1, <2>3, <2>4 DEF SignalTyped
<1>5. CASE OrderTimesOutUnread
  <2>1. job' \in Jobs /\ JobOK'
    BY <1>0, <1>5, StopTyped DEF OrderTimesOutUnread
  <2>2. BookTypeOK'
    BY <1>0, <1>5 DEF OrderTimesOutUnread, control, BookTypeOK
  <2> QED
    BY <1>0, <1>5, <2>1, <2>2 DEF SignalTyped, OrderTimesOutUnread
<1>4. CASE PollSeesFill
  <2>1. job' = [job EXCEPT !.pc = "book", !.got = job.asked]
    BY <1>4 DEF PollSeesFill
  <2>2. job' \in Jobs
    BY <1>0, <2>1 DEF Jobs, PCs
  <2>3. /\ job'.pc = "book" /\ job'.got = job.asked /\ job'.strat = job.strat
        /\ job'.want = job.want /\ job'.leg = job.leg /\ job'.flip = job.flip
        /\ job'.old = job.old /\ job'.asked = job.asked
    BY <1>0, <2>1 DEF Jobs
  <2>4. UNCHANGED <<row, pos, inflight, clean, unbooked, belief, paused, holdKey, ctl, awaiting>>
    BY <1>4 DEF PollSeesFill, control
  <2>5. JobOK'
    BY <1>0, <2>3, <2>4 DEF JobOK, Sending, LegSide, S, Holds
  <2>6. lies' \in Nat
    BY <1>0, <1>4, LiesNat DEF PollSeesFill, BookTypeOK
  <2>7. BookTypeOK'
    BY <1>0, <2>4, <2>6 DEF BookTypeOK
  <2> QED
    BY <1>0, <2>2, <2>4, <2>5, <2>7 DEF SignalTyped
<1> QED
  BY <1>1, <1>2, <1>3, <1>4, <1>5 DEF PlaceOrder

LEMMA BookFillTyped == ASSUME TypeInv, BookFill PROVE SignalTyped
<1>0. /\ job.pc = "book" /\ Sending /\ job.strat \in Strategies /\ job \in Jobs /\ JobOK
      /\ BookTypeOK /\ unbooked \in BOOLEAN
  BY DEF BookFill, TypeInv, TypeOK, JobOK, Sending
<1>1. BookedRow \in Rows
  <2>1. CASE job.leg = "open"
    BY <1>0, <2>1 DEF BookedRow, JobOK, Jobs, Rows
  <2>2. CASE job.leg # "open" /\ Remaining > 0
    <3>1. row[S] \in [side : Sides, size : Nat \ {0}]
      BY <1>0, <2>2 DEF JobOK, BookTypeOK, Holds, Rows, S, Jobs, Legs
    <3>2. Remaining \in Nat \ {0}
      BY <1>0, <2>2 DEF Remaining, Jobs
    <3> QED
      BY <2>2, <3>1, <3>2 DEF BookedRow, Rows
  <2>3. CASE job.leg # "open" /\ ~(Remaining > 0)
    BY <2>3 DEF BookedRow, Rows
  <2> QED
    BY <2>1, <2>2, <2>3
<1>2. job' \in Jobs /\ JobOK'
  BY <1>0, StopTyped DEF BookFill
<1>3. belief' \in [Strategies -> Stances]
  BY <1>0, ResyncTyped DEF BookFill, KeepBelief, BookTypeOK
<1>4. row' \in [Strategies -> Rows]
  BY <1>0, <1>1 DEF BookFill, BookTypeOK
<1>5. UNCHANGED <<pos, inflight, lies, clean, unbooked, paused, holdKey, ctl, awaiting>>
  BY DEF BookFill, control
<1>6. BookTypeOK'
  BY <1>0, <1>3, <1>4, <1>5 DEF BookTypeOK
<1> QED
  BY <1>0, <1>2, <1>5, <1>6 DEF SignalTyped

LEMMA UnbookedTyped ==
  ASSUME TypeInv, BookFails \/ PnlReadFails PROVE SignalTyped
<1>0. job.pc = "book" /\ BookTypeOK
  BY DEF BookFails, PnlReadFails, TypeInv, TypeOK
<1>1. job' \in Jobs /\ JobOK'
  BY <1>0, StopTyped, RaiseTyped DEF BookFails, PnlReadFails
<1>2. unbooked' = TRUE /\ clean' = FALSE /\ paused' \in BOOLEAN
  BY <1>0 DEF BookFails, PnlReadFails, BookTypeOK, control
<1>3. UNCHANGED <<row, pos, inflight, lies, belief, holdKey, ctl, awaiting>>
  BY DEF BookFails, PnlReadFails, control
<1>4. BookTypeOK'
  BY <1>0, <1>2, <1>3 DEF BookTypeOK
<1> QED
  BY <1>1, <1>2, <1>4 DEF SignalTyped

LEMMA ReadsTyped ==
  ASSUME TypeInv, VerifyParity \/ ConfirmClose PROVE SignalTyped
<1>0. /\ job.pc # "idle" /\ BookTypeOK /\ unbooked \in BOOLEAN
      /\ belief \in [Strategies -> Stances]
  BY DEF VerifyParity, ConfirmClose, TypeInv, TypeOK, BookTypeOK
<1>1. lies' \in Nat
  BY <1>0, LiesNat DEF VerifyParity, ConfirmClose, BookTypeOK
<1>2. job' \in Jobs /\ JobOK' /\ belief' \in [Strategies -> Stances]
  BY <1>0, LegSucceededTyped, LegFailedTyped, StillHeldTyped, StopTyped
     DEF VerifyParity, ConfirmClose, KeepBelief
<1>3. UNCHANGED <<row, pos, inflight, clean, unbooked, paused, holdKey, ctl, awaiting>>
  BY DEF VerifyParity, ConfirmClose, control
<1>4. BookTypeOK'
  BY <1>0, <1>1, <1>2, <1>3 DEF BookTypeOK
<1> QED
  BY <1>0, <1>2, <1>3, <1>4 DEF SignalTyped

LEMMA UnfilledTyped ==
  ASSUME TypeInv, OpenNotFilled \/ CloseDropped \/ CloseNotFilled \/ Align \/ RaiseHandled
  PROVE  SignalTyped
<1>0. job.pc # "idle" /\ belief \in [Strategies -> Stances] /\ job \in Jobs
  BY DEF OpenNotFilled, CloseDropped, CloseNotFilled, Align, RaiseHandled,
         TypeInv, TypeOK, BookTypeOK
<1>1. job' \in Jobs /\ JobOK'
  BY <1>0, DoneTyped, LegFailedTyped, StopTyped
     DEF OpenNotFilled, CloseDropped, CloseNotFilled, Align, RaiseHandled
<1>2. belief' \in [Strategies -> Stances]
  BY <1>0, BelieveTyped, LegFailedTyped, ResyncTyped
     DEF OpenNotFilled, CloseDropped, CloseNotFilled, Align, RaiseHandled, KeepBelief,
         Stances, Sides, Opposite
<1> QED
  BY <1>1, <1>2, NoTradeTyped
     DEF OpenNotFilled, CloseDropped, CloseNotFilled, Align, RaiseHandled, control

LEMMA SettleTyped == ASSUME TypeInv, SettleExternal PROVE SignalTyped
<1>0. job.pc # "idle" /\ BookTypeOK /\ unbooked \in BOOLEAN
  BY DEF SettleExternal, TypeInv, TypeOK
<1>1. /\ job' \in Jobs /\ JobOK' /\ belief' \in [Strategies -> Stances]
      /\ row' \in [Strategies -> Rows]
  <2>1. CASE row' = [row EXCEPT ![S] = NoRow] /\ Done /\ Believe("flat")
    BY <1>0, <2>1, DoneTyped, BelieveTyped DEF BookTypeOK, Stances, Rows
  <2>2. CASE LegFailed /\ UNCHANGED row
    BY <1>0, <2>2, LegFailedTyped DEF BookTypeOK
  <2> QED
    BY <2>1, <2>2 DEF SettleExternal
<1>2. UNCHANGED <<pos, inflight, lies, clean, unbooked, paused, holdKey, ctl, awaiting>>
  BY DEF SettleExternal, control
<1>3. BookTypeOK'
  BY <1>0, <1>1, <1>2 DEF BookTypeOK
<1> QED
  BY <1>0, <1>1, <1>2, <1>3 DEF SignalTyped

LEMMA SignalStepTyped == ASSUME TypeInv, SignalStep PROVE SignalTyped
  BY BeginOpenTyped, ResolveCloseTyped, PlaceOrderTyped, BookFillTyped, UnbookedTyped,
     ReadsTyped, UnfilledTyped, SettleTyped DEF SignalStep

LEMMA SignalBegins ==
  ASSUME TypeInv, NEW s \in Strategies, NEW want \in Stances, Signal(s, want)
  PROVE  SignalTyped
<1>0. BookTypeOK /\ unbooked \in BOOLEAN /\ belief[s] \in Stances
  BY DEF TypeInv, TypeOK, BookTypeOK
<1>1. UNCHANGED <<row, pos, inflight, lies, clean, unbooked, paused, holdKey, ctl, awaiting>>
  BY DEF Signal, NoTrade, account, control
<1>2. job' \in Jobs
  <2>1. IdleJob \in Jobs
    BY DEF IdleJob, Jobs, PCs, Legs, Stances
  <2> HIDE DEF IdleJob
  <2> QED
    BY <1>0, <2>1 DEF Signal, Jobs, PCs
<1>3. /\ job'.strat = s /\ job'.want = want /\ job'.old = belief[s]
      /\ job'.leg = "close" /\ ~job'.flip
      /\ job'.pc = IF want = "flat" THEN "resolve" ELSE "begin"
  BY DEF Signal, IdleJob
<1>4. JobOK'
  BY <1>0, <1>3 DEF JobOK, Sending, Stances, Signal
<1>5. belief' \in [Strategies -> Stances]
  BY <1>0 DEF Signal, BookTypeOK
<1>6. BookTypeOK'
  BY <1>0, <1>1, <1>5 DEF BookTypeOK
<1> QED
  BY <1>0, <1>1, <1>2, <1>4, <1>6 DEF SignalTyped

-----------------------------------------------------------------------------
(* Every step of a reconcile pass keeps the types. *)
PassReadsOK == pass.pc \in {"again", "close"} => \A c \in pass.closable : pass.seen[c] # 0
PassTyped == BookTypeOK' /\ pass' \in Passes /\ PassReadsOK'

LEMMA PassReadTyped ==
  ASSUME TypeInv, ReadExchange \/ ConfirmRead \/ ReadAgain PROVE PassTyped
<1>0. BookTypeOK /\ pass \in Passes /\ PassReadsOK /\ pos \in [Coins -> Int] /\ lies \in Nat
  BY DEF TypeInv, TypeOK, BookTypeOK, ReadsOK, PassReadsOK
<1>1. UNCHANGED <<row, pos, inflight, clean, belief, paused, holdKey, ctl, awaiting>>
  BY DEF ReadExchange, ConfirmRead, ReadAgain, SamePosition, control
<1>2. lies' \in Nat
  BY <1>0, LiesNat, ZenonT(60) DEF ReadExchange, ConfirmRead, ReadAgain
<1>3. BookTypeOK'
  BY <1>0, <1>1, <1>2 DEF BookTypeOK
<1>4. pass' \in Passes /\ PassReadsOK'
  <2>1. IdlePass \in Passes /\ IdlePass.pc = "idle"
    BY DEF IdlePass, Passes, PassPCs
  <2>2. CASE Skip \/ Abandon \/ PassGoto("end") \/ (PassGoto("close") /\ pass.pc = "again")
    BY <1>0, <2>1, <2>2 DEF Skip, Abandon, PassGoto, Passes, PassPCs, PassReadsOK
  <2>3. ASSUME ReadExchange, NEW answer \in Answers,
               pass' = [pass EXCEPT !.seen = answer, !.closing = Closable(answer),
                                    !.pc = AfterRead(answer)]
        PROVE  pass' \in Passes /\ PassReadsOK'
    <3>1. /\ answer \in [Coins -> Int] /\ Closable(answer) \subseteq Strategies
          /\ AfterRead(answer) \in {"confirm", "end", "orphans"}
      BY <1>0, AnswersInt DEF Closable, Holders, AfterRead
    <3> QED
      BY <1>0, <2>3, <3>1 DEF Passes, PassPCs, PassReadsOK
  <2>4. ASSUME ConfirmRead, NEW answer \in Answers,
               pass' = [pass EXCEPT !.seen = answer,
                           !.closing = IF pass.dry THEN {} ELSE Closable(answer),
                           !.pc = IF pass.dry THEN "end"
                                  ELSE IF Closable(answer) # {} THEN "apply" ELSE "orphans"]
        PROVE  pass' \in Passes /\ PassReadsOK'
    <3>1. /\ answer \in [Coins -> Int] /\ Closable(answer) \subseteq Strategies
      BY <1>0, AnswersInt DEF Closable, Holders
    <3> QED
      BY <1>0, <2>4, <3>1 DEF Passes, PassPCs, PassReadsOK
  <2> QED
    BY <2>2, <2>3, <2>4 DEF ReadExchange, ConfirmRead, ReadAgain
<1> QED
  BY <1>3, <1>4 DEF PassTyped

LEMMA CloseRowsTyped == ASSUME TypeInv, CloseRows PROVE PassTyped
<1>0. BookTypeOK /\ pass \in Passes /\ IdlePass \in Passes /\ IdlePass.pc = "idle"
  BY DEF TypeInv, TypeOK, IdlePass, Passes, PassPCs
<1>1. UNCHANGED <<pos, inflight, lies, clean, paused, holdKey, ctl, awaiting>>
  BY DEF CloseRows, control
<1>2. CASE Abandon /\ UNCHANGED <<row, belief>>
  BY <1>0, <1>1, <1>2 DEF Abandon, PassTyped, PassReadsOK, BookTypeOK
<1>3. ASSUME NEW priced \in SUBSET pass.closing,
             row' = [s \in Strategies |-> IF s \in priced THEN NoRow ELSE row[s]],
             belief' = [s \in Strategies |-> IF s \in priced THEN "flat" ELSE belief[s]],
             pass' = [pass EXCEPT !.pc = "orphans", !.closing = priced]
      PROVE  PassTyped
  <2>1. row' \in [Strategies -> Rows]
    BY <1>0, <1>3 DEF BookTypeOK, Rows
  <2>2. belief' \in [Strategies -> Stances]
    BY <1>0, <1>3 DEF BookTypeOK, Stances
  <2>3. pass' \in Passes /\ pass'.pc = "orphans"
    BY <1>0, <1>3 DEF Passes, PassPCs
  <2>4. BookTypeOK'
    BY <1>0, <1>1, <2>1, <2>2 DEF BookTypeOK
  <2> QED
    BY <2>3, <2>4 DEF PassTyped, PassReadsOK
<1> QED
  BY <1>2, <1>3 DEF CloseRows

LEMMA FindOrphansTyped == ASSUME TypeInv, FindOrphans PROVE PassTyped
<1>0. BookTypeOK /\ pass \in Passes /\ IdlePass \in Passes /\ IdlePass.pc = "idle"
  BY DEF TypeInv, TypeOK, IdlePass, Passes, PassPCs
<1>1. BookTypeOK'
  BY <1>0 DEF FindOrphans, SamePosition, control, BookTypeOK
<1>2. CASE Abandon
  BY <1>0, <1>1, <1>2 DEF Abandon, PassTyped, PassReadsOK
<1>3. CASE ~Abandon
  <2> DEFINE orphans == {c \in Coins : pass.seen[c] # 0 /\ HoldersOn(c) = {}}
             closable == IF pass.hold \/ Cardinality(orphans \intersect Traded) > 1
                         THEN {} ELSE orphans \intersect Traded
  <2>1. pass' = [pass EXCEPT !.orphans = orphans, !.closable = closable,
                             !.unresolved = closable, !.held = orphans \ closable,
                             !.pc = IF closable = {} THEN "end" ELSE "again"]
    BY <1>3 DEF FindOrphans
  <2>2. orphans \subseteq Coins /\ closable \subseteq orphans
    OBVIOUS
  <2>3. \A c \in closable : pass.seen[c] # 0
    OBVIOUS
  <2> HIDE DEF orphans, closable
  <2>4. pass' \in Passes /\ pass'.closable = closable /\ pass'.seen = pass.seen
    BY <1>0, <2>1, <2>2 DEF Passes, PassPCs
  <2> QED
    BY <1>1, <2>3, <2>4 DEF PassTyped, PassReadsOK
<1> QED
  BY <1>2, <1>3

LEMMA CloseOrphanTyped == ASSUME TypeInv, CloseOrphan PROVE PassTyped
<1>0. /\ BookTypeOK /\ pass \in Passes /\ PassReadsOK /\ pass.pc = "close"
      /\ pos \in [Coins -> Int] /\ inflight \subseteq Orders
  BY DEF CloseOrphan, TypeInv, TypeOK, BookTypeOK, ReadsOK, PassReadsOK
<1>1. UNCHANGED <<row, belief, paused, holdKey, ctl, awaiting>>
  BY DEF CloseOrphan, control
<1>2. PICK c \in pass.closable :
         \/ \E k \in Fills(OrphanOrder(c)) :
            /\ pos' = AfterFill(OrphanOrder(c), k)
            /\ pass' = [pass EXCEPT !.pc = "end", !.unresolved = @ \ {c}]
            /\ UNCHANGED <<inflight, lies, clean>>
         \/ /\ PassGoto("end")
            /\ UNCHANGED <<pos, inflight, lies, clean>>
         \/ /\ inflight' = {OrphanOrder(c)}
            /\ clean' = FALSE
            /\ UNCHANGED pos
            /\ \/ \E answer \in Answers :
                  /\ lies' = LiesIn(answer)
                  /\ pass' = [pass EXCEPT !.pc = "poll", !.base = answer[c]]
               \/ PassGoto("end") /\ UNCHANGED lies
  BY DEF CloseOrphan
<1>3. OrphanOrder(c) \in Orders
  BY <1>0 DEF OrphanOrder, Orders, Legs, Sides, PassReadsOK, Passes
<1>4. pos' \in [Coins -> Int]
  <2>1. ASSUME NEW k \in Fills(OrphanOrder(c))
        PROVE  AfterFill(OrphanOrder(c), k) \in [Coins -> Int]
    <3>1. k \in Nat
      BY <1>0, <1>3, FillsPositive
    <3> QED
      BY <1>0, <1>3, <3>1, AfterFillInt
  <2> QED
    BY <1>0, <1>2, <2>1, Zenon
<1>5. inflight' \subseteq Orders
  BY <1>0, <1>2, <1>3
<1>6. clean' \in BOOLEAN
  BY <1>0, <1>2 DEF BookTypeOK
<1>7. pass' \in Passes /\ pass'.pc \in {"poll", "end"}
  <2>1. ASSUME NEW answer \in Answers, pass' = [pass EXCEPT !.pc = "poll", !.base = answer[c]]
        PROVE  pass' \in Passes /\ pass'.pc = "poll"
    <3>1. answer[c] \in Int
      BY <1>0, AnswersInt DEF Passes
    <3> QED
      BY <1>0, <2>1, <3>1 DEF Passes, PassPCs
  <2>2. CASE \/ pass' = [pass EXCEPT !.pc = "end", !.unresolved = @ \ {c}]
             \/ PassGoto("end")
    BY <1>0, <2>2, ZenonT(60) DEF PassGoto, Passes, PassPCs
  <2> QED
    BY <1>2, <2>1, <2>2
<1>8. lies' \in Nat
  BY <1>0, <1>2, LiesNat DEF BookTypeOK
<1>9. BookTypeOK'
  BY <1>0, <1>1, <1>4, <1>5, <1>6, <1>8 DEF BookTypeOK
<1> QED
  BY <1>7, <1>9 DEF PassTyped, PassReadsOK

LEMMA PollOrphanTyped == ASSUME TypeInv, PollOrphan PROVE PassTyped
<1>0. /\ BookTypeOK /\ pass \in Passes /\ lies \in Nat
  BY DEF TypeInv, TypeOK, BookTypeOK
<1>1. UNCHANGED <<row, pos, inflight, clean, belief, paused, holdKey, ctl, awaiting>>
  BY DEF PollOrphan, SamePosition, control
<1>2. lies' \in Nat
  BY <1>0, LiesNat DEF PollOrphan
<1>3. BookTypeOK'
  BY <1>0, <1>1, <1>2 DEF BookTypeOK
<1>4. PICK c \in pass.closable :
         \/ pass' = [pass EXCEPT !.pc = "end", !.unresolved = @ \ {c}, !.taken = {c}]
         \/ pass' = [pass EXCEPT !.pc = "end"]
  BY DEF PollOrphan, PassGoto
<1>5. c \in Coins /\ pass.unresolved \ {c} \in SUBSET Coins /\ {c} \in SUBSET Coins
  BY <1>0 DEF Passes
<1>6. pass' \in Passes /\ pass'.pc = "end"
  BY <1>0, <1>4, <1>5 DEF Passes, PassPCs
<1> QED
  BY <1>3, <1>6 DEF PassTyped, PassReadsOK

LEMMA EndPassTyped == ASSUME TypeInv, EndPass PROVE PassTyped
<1>0. BookTypeOK /\ IdlePass \in Passes /\ IdlePass.pc = "idle"
  BY DEF TypeInv, TypeOK, IdlePass, Passes, PassPCs
<1>1. UNCHANGED <<row, pos, inflight, lies, clean, belief, paused>>
  BY DEF EndPass, account
<1>2. holdKey' \in BOOLEAN
  BY <1>0 DEF EndPass, BookTypeOK
<1>3. /\ ctl' \in {"none", "set", "unreadable"}
      /\ awaiting' \in {"no", "first", "after_clear"}
  BY <1>0 DEF EndPass, BookTypeOK
<1>4. BookTypeOK'
  BY <1>0, <1>1, <1>2, <1>3 DEF BookTypeOK
<1> QED
  BY <1>0, <1>4 DEF PassTyped, PassReadsOK, EndPass, Abandon

LEMMA PassStepTyped == ASSUME TypeInv, PassStep PROVE PassTyped
  BY PassReadTyped, CloseRowsTyped, FindOrphansTyped, CloseOrphanTyped, PollOrphanTyped,
     EndPassTyped
     DEF PassStep

LEMMA BeginPassTyped ==
  ASSUME BookTypeOK, NEW found, BeginPass(found)
  PROVE  pass' \in Passes /\ PassReadsOK'
<1>1. IdlePass \in Passes
  BY DEF IdlePass, Passes, PassPCs
<1>2. PICK dry \in BOOLEAN :
         pass' = [IdlePass EXCEPT !.pc = "read", !.dry = dry,
                                  !.hold = found # "none" \/ awaiting = "first"]
  BY DEF BeginPass, BookTypeOK
<1>3. pass' \in Passes /\ pass'.pc = "read"
  BY <1>1, <1>2 DEF Passes, PassPCs
<1> QED
  BY <1>3 DEF PassReadsOK

-----------------------------------------------------------------------------
(* Every step of a flat-all keeps the types. *)
FlatReadsOK ==
    /\ \A c \in flat.left : flat.seen[c] # 0
    /\ flat.pc # "poll" => flat.polling = {}
FlatTyped == BookTypeOK' /\ FlatTypeOK' /\ FlatReadsOK'

LEMMA FlatReadTyped == ASSUME TypeInv, FlatRead PROVE FlatTyped
<1>0. /\ BookTypeOK /\ FlatTypeOK /\ FlatReadsOK /\ pos \in [Coins -> Int]
      /\ lies \in Nat /\ flat \in Flats
  BY DEF TypeInv, TypeOK, BookTypeOK, FlatTypeOK, ReadsOK, FlatReadsOK
<1>5. flat.polling = {}
  BY DEF FlatRead, TypeInv, ReadsOK
<1>1. UNCHANGED <<row, pos, inflight, clean, belief, paused, holdKey, ctl, awaiting, asked, done>>
  BY DEF FlatRead, control
<1>2. lies' \in Nat
  BY <1>0, LiesNat DEF FlatRead
<1>3. BookTypeOK'
  BY <1>0, <1>1, <1>2 DEF BookTypeOK
<1>4. flat' \in Flats /\ FlatReadsOK'
  <2>1. CASE flat' = FlatUnreadable
    BY <1>0, <1>5, <2>1 DEF FlatUnreadable, Flats, FlatPCs, FlatReadsOK
  <2>2. ASSUME NEW answer \in Answers,
               flat' = [flat EXCEPT !.pc = "close", !.seen = answer,
                                    !.left = {c \in Coins : answer[c] # 0}]
        PROVE  flat' \in Flats /\ FlatReadsOK'
    <3>1. answer \in [Coins -> Int]
      BY <1>0, AnswersInt
    <3> QED
      BY <1>0, <1>5, <2>2, <3>1 DEF Flats, FlatPCs, FlatReadsOK
  <2> QED
    BY <2>1, <2>2 DEF FlatRead
<1> QED
  BY <1>0, <1>1, <1>3, <1>4 DEF FlatTyped, FlatTypeOK

LEMMA FlatCloseTyped == ASSUME TypeInv, FlatClose PROVE FlatTyped
<1>0. /\ BookTypeOK /\ FlatTypeOK /\ FlatReadsOK /\ pos \in [Coins -> Int]
      /\ inflight \subseteq Orders /\ flat \in Flats
  BY DEF TypeInv, TypeOK, BookTypeOK, FlatTypeOK, ReadsOK, FlatReadsOK
<1>1. UNCHANGED <<row, belief, paused, holdKey, ctl, awaiting, asked, done>>
  BY DEF FlatClose, control
<1>2. PICK c \in flat.left :
         \/ \E k \in Fills(FlatOrder(c)) :
            /\ pos' = AfterFill(FlatOrder(c), k)
            /\ flat' = [flat EXCEPT !.left = @ \ {c}, !.pc = "book",
                                    !.rows = HoldersOn(c), !.used = FALSE]
            /\ UNCHANGED <<inflight, lies, clean>>
         \/ /\ flat' = [flat EXCEPT !.left = @ \ {c}, !.failed = TRUE]
            /\ UNCHANGED <<pos, inflight, lies, clean>>
         \/ /\ inflight' = {FlatOrder(c)} /\ clean' = FALSE
            /\ UNCHANGED pos
            /\ \/ \E answer \in Answers :
                  /\ lies' = LiesIn(answer)
                  /\ flat' = [flat EXCEPT !.left = @ \ {c}, !.pc = "poll",
                                          !.polling = {c}, !.base = answer[c]]
               \/ /\ flat' = [flat EXCEPT !.left = @ \ {c}, !.failed = TRUE]
                  /\ UNCHANGED lies
  BY <1>0 DEF FlatClose, Flats
<1>3. FlatOrder(c) \in Orders
  BY <1>0 DEF FlatOrder, Orders, Legs, Sides, FlatReadsOK, Flats
<1>4. pos' \in [Coins -> Int]
  BY <1>0, <1>2, <1>3, FillsPositive, AfterFillInt
<1>5. inflight' \subseteq Orders
  BY <1>0, <1>2, <1>3
<1>6. clean' \in BOOLEAN
  BY <1>0, <1>2 DEF BookTypeOK
<1>7. flat' \in Flats /\ FlatReadsOK'
  <2>1. HoldersOn(c) \subseteq Strategies
    BY DEF HoldersOn, Holders
  <2>2. ASSUME NEW answer \in Answers,
               flat' = [flat EXCEPT !.left = @ \ {c}, !.pc = "poll",
                                    !.polling = {c}, !.base = answer[c]]
        PROVE  flat' \in Flats /\ FlatReadsOK'
    <3>1. answer[c] \in Int /\ c \in Coins
      BY <1>0, AnswersInt DEF Flats
    <3> QED
      BY <1>0, <2>2, <3>1 DEF Flats, FlatPCs, FlatReadsOK
  <2>3. CASE \/ flat' = [flat EXCEPT !.left = @ \ {c}, !.pc = "book",
                                     !.rows = HoldersOn(c), !.used = FALSE]
             \/ flat' = [flat EXCEPT !.left = @ \ {c}, !.failed = TRUE]
    <3>1. flat.pc = "close" /\ flat.polling = {}
      BY DEF FlatClose, TypeInv, ReadsOK
    <3>2. /\ flat'.left \subseteq flat.left /\ flat'.seen = flat.seen
          /\ flat'.polling = flat.polling
      BY <1>0, <2>3 DEF Flats
    <3>3. flat' \in Flats
      BY <1>0, <2>1, <2>3, ZenonT(60) DEF Flats, FlatPCs
    <3> QED
      BY <1>0, <3>1, <3>2, <3>3 DEF FlatReadsOK
  <2> QED
    BY <1>2, <2>2, <2>3
<1>8. lies' \in Nat
  BY <1>0, <1>2, LiesNat DEF BookTypeOK
<1>9. BookTypeOK'
  BY <1>0, <1>1, <1>4, <1>5, <1>6, <1>8 DEF BookTypeOK
<1> QED
  BY <1>0, <1>1, <1>7, <1>9 DEF FlatTyped, FlatTypeOK

(* How a poll for the close of coin c ends. *)
PolledTo(c) ==
    \/ flat' = [flat EXCEPT !.polling = {}, !.base = 0, !.pc = "book",
                            !.rows = HoldersOn(c), !.used = FALSE, !.taken = @ \union {c}]
    \/ flat' = [flat EXCEPT !.polling = {}, !.base = 0, !.pc = "close", !.failed = TRUE]

LEMMA FlatPollMoves ==
  ASSUME flat \in Flats, FlatPoll PROVE \E c \in flat.polling : PolledTo(c)
<1>1. PICK c \in flat.polling :
         LET next == [flat EXCEPT !.polling = {}, !.base = 0] IN
         \/ flat' = [next EXCEPT !.pc = "book", !.rows = HoldersOn(c), !.used = FALSE,
                                 !.taken = @ \union {c}]
         \/ flat' = [next EXCEPT !.pc = "close", !.failed = TRUE]
  BY DEF FlatPoll
<1>2. CASE flat' = [[flat EXCEPT !.polling = {}, !.base = 0] EXCEPT
                      !.pc = "book", !.rows = HoldersOn(c), !.used = FALSE,
                      !.taken = @ \union {c}]
  BY <1>2 DEF PolledTo, Flats
<1>3. CASE flat' = [[flat EXCEPT !.polling = {}, !.base = 0] EXCEPT
                      !.pc = "close", !.failed = TRUE]
  BY <1>3 DEF PolledTo, Flats
<1> QED
  BY <1>1, <1>2, <1>3

LEMMA FlatPollTyped == ASSUME TypeInv, FlatPoll PROVE FlatTyped
<1>0. /\ BookTypeOK /\ FlatTypeOK /\ FlatReadsOK /\ lies \in Nat /\ flat \in Flats
  BY DEF TypeInv, TypeOK, BookTypeOK, FlatTypeOK, ReadsOK, FlatReadsOK
<1>1. UNCHANGED <<row, pos, inflight, clean, belief, paused, holdKey, ctl, awaiting, asked, done>>
  BY DEF FlatPoll, control
<1>2. lies' \in Nat
  BY <1>0, LiesNat DEF FlatPoll
<1>3. BookTypeOK'
  BY <1>0, <1>1, <1>2 DEF BookTypeOK
<1>4. PICK c \in flat.polling : PolledTo(c)
  BY <1>0, FlatPollMoves
<1>5. /\ HoldersOn(c) \in SUBSET Strategies
      /\ flat.taken \union {c} \in SUBSET Coins
  BY <1>0 DEF HoldersOn, Holders, Flats
<1>6. flat' \in Flats /\ FlatReadsOK'
  <2>1. /\ flat'.left = flat.left /\ flat'.seen = flat.seen /\ flat'.polling = {}
    BY <1>0, <1>4 DEF PolledTo, Flats
  <2>2. flat' \in Flats
    <3>1. {} \in SUBSET Coins /\ 0 \in Int /\ TRUE \in BOOLEAN /\ FALSE \in BOOLEAN
      OBVIOUS
    <3>2. "close" \in FlatPCs /\ "book" \in FlatPCs
      BY DEF FlatPCs
    <3>3. CASE flat' = [flat EXCEPT !.polling = {}, !.base = 0, !.pc = "close", !.failed = TRUE]
      BY <1>0, <3>1, <3>2, <3>3, ZenonT(60) DEF Flats
    <3>4. CASE flat' = [flat EXCEPT !.polling = {}, !.base = 0, !.pc = "book",
                                    !.rows = HoldersOn(c), !.used = FALSE,
                                    !.taken = @ \union {c}]
      BY <1>0, <1>5, <3>1, <3>2, <3>4, ZenonT(60) DEF Flats
    <3> QED
      BY <1>4, <3>3, <3>4 DEF PolledTo
  <2> QED
    BY <1>0, <2>1, <2>2 DEF FlatReadsOK
<1> QED
  BY <1>0, <1>1, <1>3, <1>6 DEF FlatTyped, FlatTypeOK

LEMMA FlatBookTyped ==
  ASSUME TypeInv, FlatBookRow \/ FlatBookFails \/ FlatBooked PROVE FlatTyped
<1>0. /\ BookTypeOK /\ FlatTypeOK /\ FlatReadsOK /\ flat \in Flats
      /\ row \in [Strategies -> Rows] /\ belief \in [Strategies -> Stances]
  BY DEF TypeInv, TypeOK, BookTypeOK, FlatTypeOK, ReadsOK, FlatReadsOK
<1>1. UNCHANGED <<pos, inflight, lies, paused, holdKey, ctl, awaiting, asked, done>>
  BY DEF FlatBookRow, FlatBookFails, FlatBooked, account, control
<1>2. row' \in [Strategies -> Rows] /\ belief' \in [Strategies -> Stances]
  BY <1>0 DEF FlatBookRow, FlatBookFails, FlatBooked, account, Flats, Rows, Stances
<1>3. clean' \in BOOLEAN
  BY <1>0 DEF FlatBookRow, FlatBookFails, FlatBooked, account, BookTypeOK
<1>4. flat' \in Flats /\ FlatReadsOK'
  <2>1. flat.pc = "book" /\ flat.polling = {}
    BY DEF FlatBookRow, FlatBookFails, FlatBooked, TypeInv, ReadsOK
  <2>2. flat'.left = flat.left /\ flat'.seen = flat.seen /\ flat'.polling = flat.polling
    BY <1>0 DEF FlatBookRow, FlatBookFails, FlatBooked, FlatGoto, Flats
  <2>3. flat' \in Flats
    BY <1>0, ZenonT(60) DEF FlatBookRow, FlatBookFails, FlatBooked, FlatGoto, Flats, FlatPCs
  <2> QED
    BY <1>0, <2>1, <2>2, <2>3 DEF FlatReadsOK
<1>5. BookTypeOK'
  BY <1>0, <1>1, <1>2, <1>3 DEF BookTypeOK
<1> QED
  BY <1>0, <1>1, <1>4, <1>5 DEF FlatTyped, FlatTypeOK

LEMMA FlatEndTyped ==
  ASSUME TypeInv, FlatSettle \/ FlatAck \/ FlatGivenUp PROVE FlatTyped
<1>0. /\ BookTypeOK /\ FlatTypeOK /\ FlatReadsOK /\ flat \in Flats
      /\ IdleFlat \in Flats /\ IdleFlat.left = {} /\ IdleFlat.polling = {}
  BY DEF TypeInv, TypeOK, FlatTypeOK, ReadsOK, FlatReadsOK, IdleFlat, Flats, FlatPCs
<1>1. UNCHANGED <<row, pos, inflight, lies, clean, belief, holdKey, ctl, awaiting, asked>>
  BY DEF FlatSettle, FlatAck, FlatGivenUp, account, control
<1>2. paused' \in BOOLEAN
  BY <1>0 DEF FlatSettle, FlatAck, FlatGivenUp, BookTypeOK, control
<1>3. done' \in Nat
  BY <1>0 DEF FlatSettle, FlatAck, FlatGivenUp, FlatTypeOK, Flats
<1>4. flat' \in Flats /\ FlatReadsOK'
  <2>1. CASE flat' = IdleFlat
    BY <1>0, <2>1 DEF FlatReadsOK
  <2>2. CASE FlatSettle
    <3>1. flat.pc = "close" /\ (FlatGoto("end") \/ FlatGoto("ack"))
      BY <2>2 DEF FlatSettle
    <3>2. flat'.left = flat.left /\ flat'.seen = flat.seen /\ flat'.polling = flat.polling
      BY <1>0, <3>1 DEF FlatGoto, Flats
    <3>3. flat' \in Flats
      BY <1>0, <3>1, ZenonT(60) DEF FlatGoto, Flats, FlatPCs
    <3> QED
      BY <1>0, <3>1, <3>2, <3>3 DEF FlatReadsOK
  <2> QED
    BY <2>1, <2>2 DEF FlatAck, FlatGivenUp
<1>5. BookTypeOK'
  BY <1>0, <1>1, <1>2 DEF BookTypeOK
<1> QED
  BY <1>0, <1>1, <1>3, <1>4, <1>5 DEF FlatTyped, FlatTypeOK

LEMMA FlatStepTyped == ASSUME TypeInv, FlatStep PROVE FlatTyped
  BY FlatReadTyped, FlatCloseTyped, FlatPollTyped, FlatBookTyped, FlatEndTyped DEF FlatStep

LEMMA BeginFlatAllTyped ==
  ASSUME TypeInv, BeginFlatAll PROVE FlatTypeOK' /\ FlatReadsOK'
<1>0. FlatTypeOK /\ IdleFlat \in Flats /\ IdleFlat.left = {} /\ IdleFlat.polling = {}
  BY DEF TypeInv, TypeOK, IdleFlat, Flats, FlatPCs
<1> QED
  BY <1>0 DEF BeginFlatAll, FlatTypeOK, Flats, FlatPCs, FlatReadsOK

-----------------------------------------------------------------------------
(* What a step leaves alone stays as it was. *)
EngineTyped == phase' \in Phases /\ todo' \subseteq Strategies /\ pending' \in BOOLEAN
StepTyped ==
    /\ SignalTyped /\ PassTyped /\ FlatTyped
    /\ EngineTyped /\ OneAtATime'

LEMMA JobKept ==
  ASSUME TypeInv, job' = job, unbooked' = unbooked, row' = row \/ job.pc = "idle"
  PROVE  job' \in Jobs /\ unbooked' \in BOOLEAN /\ JobOK'
<1>0. job \in Jobs /\ unbooked \in BOOLEAN /\ JobOK
  BY DEF TypeInv, TypeOK
<1>1. CASE row' = row
  BY <1>0, <1>1 DEF JobOK, Sending, Holds, LegSide, S
<1>2. CASE job.pc = "idle"
  BY <1>0, <1>2 DEF JobOK, Sending
<1> QED
  BY <1>0, <1>1, <1>2

LEMMA PassKept ==
  ASSUME TypeInv, pass' = pass PROVE pass' \in Passes /\ PassReadsOK'
  BY DEF TypeInv, TypeOK, ReadsOK, PassReadsOK

LEMMA FlatKept ==
  ASSUME TypeInv, UNCHANGED flatVars PROVE FlatTypeOK' /\ FlatReadsOK'
  BY DEF TypeInv, TypeOK, ReadsOK, FlatReadsOK, flatVars, FlatTypeOK

LEMMA ExecuteSignalTyped == ASSUME TypeInv, ExecuteSignal PROVE StepTyped
<1>1. SignalTyped
  BY SignalStepTyped DEF ExecuteSignal
<1>2. UNCHANGED <<pass, flat, phase, todo, pending>>
  BY DEF ExecuteSignal, flatVars, engineVars
<1>3. job.pc # "idle"
  BY DEF ExecuteSignal, SignalStep, BeginOpen, ResolveClose, PlaceOrder, OrderFills,
     OrderRefused, OrderTimesOut, OrderTimesOutUnread, PollSeesFill,
     PollGivesUp, BookFill, BookFails,
     PnlReadFails, VerifyParity, OpenNotFilled, CloseDropped, CloseNotFilled,
     ConfirmClose, SettleExternal, Align, RaiseHandled
<1>4. OneAtATime'
  BY <1>2, <1>3 DEF OneAtATime, TypeInv
<1>5. EngineTyped
  BY <1>2 DEF EngineTyped, TypeInv, TypeOK
<1> QED
  BY <1>1, <1>4, <1>5, PassKept, FlatKept
     DEF StepTyped, SignalTyped, PassTyped, FlatTyped, ExecuteSignal

LEMMA RunStrategyTyped == ASSUME TypeInv, RunStrategy PROVE StepTyped
<1>1. SignalTyped
  BY SignalBegins DEF RunStrategy, TypeInv, TypeOK
<1>2. UNCHANGED <<pass, flat, phase, pending>> /\ phase = "turns"
  BY DEF RunStrategy, flatVars
<1>3. OneAtATime'
  BY <1>2 DEF OneAtATime, TypeInv
<1>4. EngineTyped
  BY <1>2 DEF EngineTyped, TypeInv, TypeOK, RunStrategy
<1> QED
  BY <1>1, <1>3, <1>4, PassKept, FlatKept
     DEF StepTyped, SignalTyped, PassTyped, FlatTyped, RunStrategy

LEMMA ReconcilePassTyped == ASSUME TypeInv, ReconcilePass PROVE StepTyped
<1>1. PassTyped
  BY PassStepTyped DEF ReconcilePass
<1>2. pass.pc # "idle"
  BY DEF ReconcilePass, PassStep, ReadExchange, ConfirmRead, CloseRows, FindOrphans,
     ReadAgain, CloseOrphan, PollOrphan, EndPass
<1>3. job.pc = "idle" /\ flat.pc = "idle" /\ phase \in {"boot", "tick"}
  BY <1>2 DEF TypeInv, OneAtATime
<1>4. UNCHANGED <<job, flat, todo, pending>>
  BY DEF ReconcilePass, flatVars
<1>5. OneAtATime'
  BY <1>3, <1>4 DEF OneAtATime, ReconcilePass
<1>6. EngineTyped
  BY <1>3, <1>4 DEF EngineTyped, TypeInv, TypeOK, Phases, ReconcilePass
<1>7. job' \in Jobs /\ unbooked' \in BOOLEAN /\ JobOK'
  BY <1>3, JobKept DEF ReconcilePass
<1> QED
  BY <1>1, <1>5, <1>6, <1>7, FlatKept
     DEF StepTyped, SignalTyped, PassTyped, FlatTyped, ReconcilePass

LEMMA RunFlatAllTyped == ASSUME TypeInv, RunFlatAll PROVE StepTyped
<1>1. FlatTyped
  BY FlatStepTyped DEF RunFlatAll
<1>2. flat.pc # "idle"
  BY DEF RunFlatAll, FlatStep, FlatRead, FlatClose, FlatPoll, FlatBookRow, FlatBookFails,
     FlatBooked, FlatSettle, FlatAck, FlatGivenUp
<1>3. job.pc = "idle" /\ pass.pc = "idle" /\ phase = "flat"
  BY <1>2 DEF TypeInv, OneAtATime
<1>4. UNCHANGED <<job, pass, todo, pending>>
  BY DEF RunFlatAll
<1>5. OneAtATime'
  BY <1>3, <1>4 DEF OneAtATime, RunFlatAll
<1>6. EngineTyped
  BY <1>3, <1>4 DEF EngineTyped, TypeInv, TypeOK, Phases, RunFlatAll
<1>7. job' \in Jobs /\ unbooked' \in BOOLEAN /\ JobOK'
  BY <1>3, JobKept DEF RunFlatAll
<1> QED
  BY <1>1, <1>4, <1>5, <1>6, <1>7, PassKept
     DEF StepTyped, SignalTyped, PassTyped, FlatTyped

LEMMA StartFlatAllTyped == ASSUME TypeInv, StartFlatAll PROVE StepTyped
<1>1. FlatTypeOK' /\ FlatReadsOK'
  BY BeginFlatAllTyped DEF StartFlatAll
<1>2. phase = "flat" /\ job.pc = "idle" /\ pass.pc = "idle"
  BY DEF StartFlatAll, TypeInv, OneAtATime
<1>3. UNCHANGED <<job, unbooked, pass, phase, todo, pending>>
  BY DEF StartFlatAll, engineVars
<1>4. BookTypeOK'
  BY DEF StartFlatAll, account, control, TypeInv, TypeOK, BookTypeOK
<1>5. OneAtATime'
  BY <1>2, <1>3 DEF OneAtATime
<1>6. EngineTyped
  BY <1>3 DEF EngineTyped, TypeInv, TypeOK
<1> QED
  BY <1>1, <1>2, <1>3, <1>4, <1>5, <1>6, JobKept, PassKept
     DEF StepTyped, SignalTyped, PassTyped, FlatTyped

LEMMA BootTyped == ASSUME TypeInv, Boot PROVE StepTyped
<1>0. /\ BookTypeOK /\ phase = "down" /\ pass.pc = "idle" /\ flat.pc = "idle"
      /\ job.pc = "idle"
  BY DEF Boot, TypeInv, TypeOK, OneAtATime
<1>1. PICK found \in ControlChecks : ctl' = found /\ BeginPass(found)
  BY DEF Boot
<1>2. pass' \in Passes /\ PassReadsOK'
  BY <1>0, <1>1, BeginPassTyped
<1>3. UNCHANGED <<row, pos, inflight, lies, clean, belief, paused, holdKey, awaiting,
                  job, unbooked, flat, todo, pending>> /\ phase' = "boot"
  BY DEF Boot, account, flatVars
<1>4. BookTypeOK'
  BY <1>0, <1>1, <1>3 DEF BookTypeOK, ControlChecks
<1>5. OneAtATime' /\ EngineTyped
  BY <1>0, <1>3 DEF OneAtATime, EngineTyped, TypeInv, TypeOK, Phases
<1> QED
  BY <1>2, <1>3, <1>4, <1>5, JobKept, FlatKept
     DEF StepTyped, SignalTyped, PassTyped, FlatTyped, Boot

LEMMA TickTyped == ASSUME TypeInv, TickWithPass \/ TickWithoutPass PROVE StepTyped
<1>0. /\ BookTypeOK /\ phase = "idle" /\ pass.pc = "idle" /\ flat.pc = "idle"
      /\ job.pc = "idle"
  BY DEF TickWithPass, TickWithoutPass, TypeInv, TypeOK, OneAtATime
<1>1. UNCHANGED <<row, pos, inflight, lies, clean, belief, paused, holdKey,
                  job, unbooked, flat, todo, pending>>
  BY DEF TickWithPass, TickWithoutPass, account, flatVars
<1>2. /\ ctl' \in {"none", "set", "unreadable"}
      /\ awaiting' \in {"no", "first", "after_clear"}
  BY <1>0 DEF TickWithPass, TickWithoutPass, ControlChecks, AwaitingAfter, BookTypeOK
<1>3. BookTypeOK'
  BY <1>0, <1>1, <1>2 DEF BookTypeOK
<1>4. pass' \in Passes /\ PassReadsOK'
  BY <1>0, BeginPassTyped, PassKept DEF TickWithPass, TickWithoutPass
<1>5. /\ phase' \in {"tick", "flat"} /\ (pass'.pc # "idle" => phase' = "tick")
  BY <1>0 DEF TickWithPass, TickWithoutPass
<1>6. OneAtATime' /\ EngineTyped
  BY <1>0, <1>1, <1>5 DEF OneAtATime, EngineTyped, TypeInv, TypeOK, Phases
<1>7. UNCHANGED flatVars
  BY DEF TickWithPass, TickWithoutPass
<1> QED
  BY <1>1, <1>3, <1>4, <1>6, <1>7, JobKept, FlatKept
     DEF StepTyped, SignalTyped, PassTyped, FlatTyped

LEMMA RestoredTyped ==
  ASSUME TypeInv, Restored PROVE belief' \in [Strategies -> Stances]
  BY DEF Restored, TypeInv, TypeOK, BookTypeOK, Rows, NoRow, Stances

LEMMA RestoreTyped == ASSUME TypeInv, Restore \/ ReadPaused PROVE StepTyped
<1>0. /\ BookTypeOK /\ pass.pc = "idle" /\ flat.pc = "idle" /\ job.pc = "idle"
  BY DEF Restore, ReadPaused, TypeInv, TypeOK, OneAtATime
<1>1. UNCHANGED <<row, pos, inflight, lies, clean, holdKey, job, unbooked, pass, flat,
                  asked, done>>
  BY DEF Restore, ReadPaused, account, flatVars
<1>2. /\ ctl' \in {"none", "set", "unreadable"}
      /\ awaiting' \in {"no", "first", "after_clear"}
  BY <1>0 DEF Restore, ReadPaused, BookTypeOK
<1>3. paused' \in BOOLEAN
  BY <1>0 DEF Restore, ReadPaused, BookTypeOK
<1>4. belief' \in [Strategies -> Stances]
  BY <1>0, RestoredTyped DEF Restore, ReadPaused, RetriedRestore, BookTypeOK
<1>5. BookTypeOK'
  BY <1>0, <1>1, <1>2, <1>3, <1>4 DEF BookTypeOK
<1>6. pending' \in BOOLEAN
  BY DEF Restore, ReadPaused, TypeInv, TypeOK
<1>7. OneAtATime' /\ EngineTyped
  BY <1>0, <1>1, <1>6 DEF OneAtATime, EngineTyped, TypeInv, TypeOK, Phases, Restore, ReadPaused
<1>8. UNCHANGED flatVars
  BY DEF Restore, ReadPaused
<1> QED
  BY <1>1, <1>5, <1>7, <1>8, JobKept, PassKept, FlatKept
     DEF StepTyped, SignalTyped, PassTyped, FlatTyped

LEMMA EndTickTyped == ASSUME TypeInv, EndTick PROVE StepTyped
<1>1. BookTypeOK'
  BY DEF EndTick, account, control, TypeInv, TypeOK, BookTypeOK
<1>2. OneAtATime' /\ EngineTyped
  BY DEF EndTick, flatVars, OneAtATime, EngineTyped, TypeInv, TypeOK, Phases
<1> QED
  BY <1>1, <1>2, JobKept, PassKept, FlatKept
     DEF StepTyped, SignalTyped, PassTyped, FlatTyped, EndTick

LEMMA CrashTyped == ASSUME TypeInv, Crash PROVE StepTyped
<1>1. BookTypeOK'
  <2>1. belief' \in [Strategies -> Stances]
    BY DEF Crash, Stances
  <2>2. clean' \in BOOLEAN
    BY DEF Crash, TypeInv, TypeOK, BookTypeOK
  <2> QED
    BY <2>1, <2>2 DEF Crash, TypeInv, TypeOK, BookTypeOK
<1>2. IdleJob \in Jobs /\ IdleJob.pc = "idle"
  BY DEF IdleJob, Jobs, PCs, Legs, Stances
<1>3. IdlePass \in Passes /\ IdlePass.pc = "idle"
  BY DEF IdlePass, Passes, PassPCs
<1>4. IdleFlat \in Flats /\ IdleFlat.pc = "idle" /\ IdleFlat.left = {}
  BY DEF IdleFlat, Flats, FlatPCs
<1>5. job' = IdleJob /\ pass' = IdlePass /\ flat' = IdleFlat
  BY DEF Crash
<1>6. job' \in Jobs /\ unbooked' \in BOOLEAN /\ JobOK'
  BY <1>2, <1>5 DEF Crash, JobOK, Sending, TypeInv, TypeOK
<1>7. FlatTypeOK' /\ FlatReadsOK'
  <2>1. IdleFlat.polling = {}
    BY DEF IdleFlat
  <2> QED
    BY <1>4, <1>5, <2>1 DEF Crash, FlatTypeOK, FlatReadsOK, TypeInv, TypeOK
<1>8. pass' \in Passes /\ PassReadsOK'
  BY <1>3, <1>5 DEF PassReadsOK
<1>9. OneAtATime' /\ EngineTyped
  BY <1>2, <1>3, <1>4, <1>5 DEF OneAtATime, EngineTyped, Crash, Phases
<1> QED
  BY <1>1, <1>6, <1>7, <1>8, <1>9 DEF StepTyped, SignalTyped, PassTyped, FlatTyped

LEMMA EnvironmentTyped == ASSUME TypeInv, Environment PROVE StepTyped
<1>0. /\ BookTypeOK /\ FlatTypeOK /\ pos \in [Coins -> Int]
      /\ inflight \subseteq Orders
  BY DEF TypeInv, TypeOK, BookTypeOK
<1>1. UNCHANGED <<row, job, unbooked, pass, flat, phase, todo, pending>>
  BY DEF Environment, Outside, LateFill, OutsideTrade, Unpause, ClearHold,
         RequestFlatAll, account, engineVars, flatVars
<1>2. pos' \in [Coins -> Int]
  <2>1. CASE LateFill
    <3>1. PICK o \in inflight : \E k \in {0} \union Fills(o) : pos' = AfterFill(o, k)
      BY <2>1 DEF LateFill
    <3>2. o \in Orders /\ Fills(o) \subseteq Nat
      BY <1>0, FillsPositive
    <3> QED
      BY <1>0, <3>1, <3>2, AfterFillInt
  <2>2. CASE OutsideTrade
    BY <1>0, <2>2, BookAssumption DEF OutsideTrade
  <2>3. CASE Unpause \/ ClearHold \/ RequestFlatAll
    BY <1>0, <2>3 DEF Unpause, ClearHold, RequestFlatAll, account
  <2> QED
    BY <2>1, <2>2, <2>3 DEF Environment, Outside
<1>3. /\ inflight' \subseteq Orders
      /\ UNCHANGED <<belief, lies, ctl, awaiting>>
  BY <1>0 DEF Environment, Outside, LateFill, OutsideTrade, Unpause, ClearHold,
         RequestFlatAll, account, control
<1>4. paused' \in BOOLEAN /\ holdKey' \in BOOLEAN /\ clean' \in BOOLEAN
  BY <1>0 DEF Environment, Outside, LateFill, OutsideTrade, Unpause, ClearHold,
         RequestFlatAll, account, control, BookTypeOK
<1>5. BookTypeOK'
  BY <1>0, <1>1, <1>2, <1>3, <1>4 DEF BookTypeOK
<1>6. FlatTypeOK'
  BY <1>0, <1>1 DEF Environment, Outside, RequestFlatAll, flatVars, FlatTypeOK
<1>7. FlatReadsOK'
  BY <1>1 DEF FlatReadsOK, TypeInv, ReadsOK
<1>8. OneAtATime' /\ EngineTyped
  BY <1>1 DEF OneAtATime, EngineTyped, TypeInv, TypeOK
<1> QED
  BY <1>1, <1>5, <1>6, <1>7, <1>8, JobKept, PassKept
     DEF StepTyped, SignalTyped, PassTyped, FlatTyped

LEMMA HistoryTyped ==
  ASSUME TypeInv, History
  PROVE  ran' \in BOOLEAN /\ steady' \subseteq Strategies /\ calm' \in BOOLEAN /\ halted' \in BOOLEAN
<1>1. BackedRows' \subseteq Strategies /\ steady \subseteq Strategies
  BY DEF BackedRows, TypeInv, TypeOK
<1>2. steady' \subseteq Strategies
  BY <1>1 DEF History
<1> QED
  BY <1>2 DEF History

(* The inductive invariant is kept by every step. *)
LEMMA NextTypeInv == ASSUME TypeInv, Next PROVE TypeInv'
<1>1. StepTyped
  BY BootTyped, RestoreTyped, TickTyped, StartFlatAllTyped, RunFlatAllTyped, RunStrategyTyped,
     EndTickTyped, ExecuteSignalTyped, ReconcilePassTyped, CrashTyped, EnvironmentTyped
     DEF Next, Step
<1>2. /\ ran' \in BOOLEAN /\ steady' \subseteq Strategies /\ calm' \in BOOLEAN
      /\ halted' \in BOOLEAN
  BY HistoryTyped DEF Next
<1>3. ReadsOK'
  BY <1>1 DEF StepTyped, PassTyped, FlatTyped, PassReadsOK, FlatReadsOK, ReadsOK
<1> QED
  BY <1>1, <1>2, <1>3
     DEF TypeInv, TypeOK, StepTyped, SignalTyped, PassTyped, FlatTyped, EngineTyped

LEMMA StutterTypeInv == ASSUME TypeInv, UNCHANGED vars PROVE TypeInv'
<1>1. /\ UNCHANGED <<row, pos, belief, inflight, lies, paused, holdKey, ctl, awaiting, clean>>
      /\ UNCHANGED <<job, unbooked, pass, asked, done, flat, phase, todo, pending>>
      /\ UNCHANGED <<ran, steady, calm, halted>>
  BY DEF vars, bookVars, flatVars, engineVars
<1>2. TypeOK'
  BY <1>1 DEF TypeInv, TypeOK, BookTypeOK, FlatTypeOK
<1>3. OneAtATime' /\ JobOK' /\ ReadsOK'
  BY <1>1 DEF TypeInv, OneAtATime, JobOK, ReadsOK, Sending, Holds, LegSide, S
<1> QED
  BY <1>2, <1>3 DEF TypeInv

(* Every reachable state is typed: no row has size zero, no order asks for *)
(* nothing or for no side, and a pass, a flat-all and a signal of the one  *)
(* coroutine never run together.                                           *)
THEOREM Typed == Spec => []TypeInv
<1>1. Init => TypeInv
  BY InitTypeInv
<1>2. TypeInv /\ [Next]_vars => TypeInv'
  BY NextTypeInv, StutterTypeInv
<1> QED
  BY <1>1, <1>2, PTL DEF Spec

(* Every reachable state of the engine is well typed: rows, position,      *)
(* beliefs, and the state each coroutine keeps across its awaits.          *)
THEOREM TypeCorrect == Spec => []TypeOK
<1>1. TypeInv => TypeOK
  BY DEF TypeInv
<1> QED
  BY <1>1, Typed, PTL

-----------------------------------------------------------------------------
(* The rows.  The gates are read when a signal begins, its row is written  *)
(* at the end of an order, or of two; what the gates found must still be   *)
(* true then.                                                              *)
Admitted == job.pc # "idle" /\ (job.leg = "open" \/ (job.flip /\ ~job.refused))

GateInv ==
    Admitted => /\ \A t \in SameCoin(S) : row[t].side = job.want
                /\ ~AllowMultiCoin => SameCoin(S) \union SameFamily(S) = {}

RowInv == TypeInv /\ NoOppositeRows /\ OneHolder /\ GateInv

(* Rows only go, or lose size; and no job is newly admitted. *)
RowsShrink ==
    \A s \in Strategies : row'[s] = NoRow \/ (Holds(s) /\ row'[s].side = row[s].side)

NotNewlyAdmitted ==
    Admitted' => Admitted /\ job'.strat = job.strat /\ job'.want = job.want

LEMMA ShrinkingHolders ==
  ASSUME RowsShrink, NEW s \in Strategies
  PROVE  Holds(s)' => Holds(s) /\ row'[s].side = row[s].side
  BY DEF RowsShrink, Holds

LEMMA ShrinkKeepsRows ==
  ASSUME RowInv, RowsShrink, NotNewlyAdmitted
  PROVE  NoOppositeRows' /\ OneHolder' /\ GateInv'
<1>1. NoOppositeRows'
  BY ShrinkingHolders DEF RowInv, NoOppositeRows, Holders
<1>2. OneHolder'
  BY ShrinkingHolders DEF RowInv, OneHolder, Holders
<1>3. GateInv'
  <2> SUFFICES ASSUME Admitted' PROVE GateInv'
    BY DEF GateInv
  <2>1. Admitted /\ job'.strat = job.strat /\ job'.want = job.want
    BY DEF NotNewlyAdmitted
  <2>2. \A t \in Strategies : Holds(t)' => Holds(t) /\ row'[t].side = row[t].side
    BY ShrinkingHolders
  <2>3. SameCoin(S)' \subseteq SameCoin(S) /\ SameFamily(S)' \subseteq SameFamily(S)
    BY <2>1, <2>2 DEF SameCoin, SameFamily, HoldersOn, Holders, S
  <2>4. \A t \in SameCoin(S)' : row'[t].side = row[t].side
    BY <2>2 DEF SameCoin, HoldersOn, Holders
  <2> QED
    BY <2>1, <2>3, <2>4 DEF RowInv, GateInv
<1> QED
  BY <1>1, <1>2, <1>3

(* Most steps leave a row as it is or remove it. *)
RowsGo == \A s \in Strategies : row'[s] = NoRow \/ row'[s] = row[s]

LEMMA GoingShrinks ==
  ASSUME RowsGo PROVE RowsShrink
  BY DEF RowsGo, RowsShrink, Holds

(* An admitted open that filled: its row joins rows that were let stand.   *)
LEMMA OpenFillKeepsRows ==
  ASSUME RowInv, BookFill, job.leg = "open"
  PROVE  NoOppositeRows' /\ OneHolder' /\ GateInv'
<1>0. /\ job.pc = "book" /\ job.strat \in Strategies /\ job \in Jobs
      /\ row \in [Strategies -> Rows] /\ Admitted /\ S \in Strategies
  BY DEF BookFill, RowInv, TypeInv, TypeOK, BookTypeOK, JobOK, Admitted, S
<1>1. row' = [row EXCEPT ![S] = [side |-> job.want, size |-> job.got]]
  BY DEF BookFill, BookedRow
<1>2. /\ row'[S].side = job.want
      /\ \A t \in Strategies : t # S => row'[t] = row[t]
  BY <1>0, <1>1
<1>3. /\ job'.strat = job.strat /\ job'.want = job.want
  BY <1>0 DEF BookFill, Goto, Jobs
<1>4. /\ \A t \in SameCoin(S) : row[t].side = job.want
      /\ ~AllowMultiCoin => SameCoin(S) \union SameFamily(S) = {}
  BY <1>0 DEF RowInv, GateInv
<1>5. \A t \in Strategies : t # S => (Holds(t)' <=> Holds(t))
  BY <1>2 DEF Holds
<1>6. \A t \in Holders' : t # S => t \in Holders /\ row'[t] = row[t]
  BY <1>2, <1>5 DEF Holders
<1>7. NoOppositeRows'
  <2> SUFFICES ASSUME NEW s \in Holders', NEW t \in Holders', CoinOf[s] = CoinOf[t]
               PROVE  row'[s].side = row'[t].side
    BY DEF NoOppositeRows
  <2>1. CASE s # S /\ t # S
    BY <1>6, <2>1 DEF RowInv, NoOppositeRows
  <2>2. CASE s = S /\ t # S
    <3>1. t \in SameCoin(S)
      BY <1>6, <2>2 DEF SameCoin, HoldersOn
    <3> QED
      BY <1>2, <1>4, <1>6, <2>2, <3>1
  <2>3. CASE s # S /\ t = S
    <3>1. s \in SameCoin(S)
      BY <1>6, <2>3 DEF SameCoin, HoldersOn
    <3> QED
      BY <1>2, <1>4, <1>6, <2>3, <3>1
  <2> QED
    BY <2>1, <2>2, <2>3
<1>8. OneHolder'
  <2> SUFFICES ASSUME ~AllowMultiCoin, NEW s \in Holders', NEW t \in Holders', s # t
               PROVE  /\ CoinOf[s] # CoinOf[t]
                      /\ FamilyOf[s] = NoFamily \/ FamilyOf[s] # FamilyOf[t]
    BY DEF OneHolder
  <2>1. CASE s # S /\ t # S
    BY <1>6, <2>1 DEF RowInv, OneHolder
  <2>2. ASSUME NEW u \in Holders', u # S
        PROVE  /\ CoinOf[u] # CoinOf[S]
               /\ FamilyOf[S] = NoFamily \/ FamilyOf[u] # FamilyOf[S]
    <3>1. u \in Holders /\ SameCoin(S) = {} /\ SameFamily(S) = {}
      BY <1>4, <1>6, <2>2
    <3> QED
      BY <2>2, <3>1 DEF SameCoin, SameFamily, HoldersOn
  <2> QED
    BY <2>1, <2>2
<1>9. GateInv'
  <2>1. SameCoin(S)' \subseteq SameCoin(S) /\ SameFamily(S)' \subseteq SameFamily(S)
    BY <1>3, <1>6 DEF SameCoin, SameFamily, HoldersOn, S
  <2>2. \A t \in SameCoin(S) : row'[t] = row[t]
    BY <1>2 DEF SameCoin, HoldersOn, Holders
  <2> QED
    BY <1>3, <1>4, <2>1, <2>2 DEF GateInv
<1> QED
  BY <1>7, <1>8, <1>9

LEMMA BeginOpenKeepsRows ==
  ASSUME RowInv, BeginOpen PROVE NoOppositeRows' /\ OneHolder' /\ GateInv'
<1>0. /\ job.pc = "begin" /\ job \in Jobs /\ row' = row /\ job.leg = "close" /\ ~job.flip
  BY DEF BeginOpen, NoTrade, account, RowInv, TypeInv, TypeOK, JobOK
<1>1. CASE \/ Done \/ Raise
           \/ job' = [job EXCEPT !.pc = "resolve", !.flip = TRUE, !.refused = TRUE]
  <2>1. NotNewlyAdmitted
    <3>1. CASE Done
      BY <3>1 DEF Done, IdleJob, NotNewlyAdmitted, Admitted
    <3>2. CASE Raise
      BY <1>0, <3>2 DEF Raise, GotoBecause, NotNewlyAdmitted, Admitted, Jobs
    <3>3. CASE job' = [job EXCEPT !.pc = "resolve", !.flip = TRUE, !.refused = TRUE]
      BY <1>0, <3>3 DEF NotNewlyAdmitted, Admitted, Jobs
    <3> QED
      BY <1>1, <3>1, <3>2, <3>3
  <2> QED
    BY <1>0, <2>1, ShrinkKeepsRows, GoingShrinks DEF RowInv, RowsGo
<1>2. CASE /\ ~Refused(S, job.want)
           /\ \/ job' = [job EXCEPT !.pc = "send", !.leg = "open", !.asked = OrderLots]
              \/ job' = [job EXCEPT !.pc = "resolve", !.flip = TRUE]
  <2>1. job'.strat = job.strat /\ job'.want = job.want
    BY <1>0, <1>2 DEF Jobs
  <2>2. /\ \A u \in SameCoin(S) : row[u].side = job.want
        /\ ~AllowMultiCoin => SameCoin(S) \union SameFamily(S) = {}
    BY <1>2 DEF Refused
  <2>3. SameCoin(S)' = SameCoin(S) /\ SameFamily(S)' = SameFamily(S)
    BY <1>0, <2>1 DEF SameCoin, SameFamily, HoldersOn, Holders, Holds, S
  <2>4. GateInv'
    BY <1>0, <2>1, <2>2, <2>3 DEF GateInv
  <2>5. NoOppositeRows' /\ OneHolder'
    BY <1>0 DEF RowInv, NoOppositeRows, OneHolder, Holders, Holds
  <2> QED
    BY <2>4, <2>5
<1> QED
  BY <1>1, <1>2 DEF BeginOpen

LEMMA CloseFillShrinks ==
  ASSUME TypeInv, BookFill, job.leg # "open" PROVE RowsShrink /\ NotNewlyAdmitted
<1>0. /\ job.pc = "book" /\ Sending /\ job.leg = "close" /\ job.strat \in Strategies
      /\ S \in Strategies /\ Holds(S) /\ row \in [Strategies -> Rows] /\ job \in Jobs
  BY DEF BookFill, TypeInv, TypeOK, BookTypeOK, JobOK, Sending, Jobs, Legs, S
<1>1. BookedRow = NoRow \/ BookedRow.side = row[S].side
  BY <1>0 DEF BookedRow, Rows, Holds
<1>2. RowsShrink
  BY <1>0, <1>1 DEF BookFill, RowsShrink, Holds
<1>3. NotNewlyAdmitted
  BY <1>0 DEF BookFill, Goto, NotNewlyAdmitted, Admitted, Jobs
<1> QED
  BY <1>2, <1>3

(* A job that only moves on, or starts the open half of its flip, is not   *)
(* newly admitted.                                                         *)
LEMMA MovesOnNotAdmitted ==
  ASSUME TypeInv, job.pc # "idle",
         \/ Done \/ Raise \/ LegFailed \/ LegSucceeded \/ StillHeld
         \/ \E pc \in PCs : Goto(pc)
         \/ \E pc \in PCs, why \in {"rejected", "unknown"} : GotoBecause(pc, why)
         \/ \E k \in Nat : job' = [job EXCEPT !.pc = "book", !.got = k]
         \/ \E n \in Nat : job' = [job EXCEPT !.pc = "send", !.asked = n]
         \/ \E b : job' = [job EXCEPT !.pc = "poll", !.base = b]
  PROVE  NotNewlyAdmitted
<1>0. job \in Jobs
  BY DEF TypeInv, TypeOK
<1>1. CASE Done
  BY <1>1 DEF Done, IdleJob, NotNewlyAdmitted, Admitted
<1>2. ASSUME NEW pc \in PCs, NEW why \in {"rejected", "unknown", "raised"},
             Goto(pc) \/ GotoBecause(pc, why)
      PROVE  NotNewlyAdmitted
  <2>1. /\ job'.leg = job.leg /\ job'.flip = job.flip /\ job'.refused = job.refused
        /\ job'.strat = job.strat /\ job'.want = job.want
    BY <1>0, <1>2 DEF Goto, GotoBecause, Jobs
  <2> QED
    BY <2>1 DEF NotNewlyAdmitted, Admitted
<1>3. CASE Raise \/ LegFailed
  BY <1>1, <1>2, <1>3 DEF Raise, LegFailed, PCs
<1>4. CASE LegSucceeded
  BY <1>0, <1>1, <1>4, ZenonT(60) DEF LegSucceeded, NotNewlyAdmitted, Admitted, Jobs
<1>5. CASE StillHeld
  BY <1>1, <1>3, <1>5 DEF StillHeld
<1>6. ASSUME NEW n,
             \/ job' = [job EXCEPT !.pc = "book", !.got = n]
             \/ job' = [job EXCEPT !.pc = "send", !.asked = n]
             \/ job' = [job EXCEPT !.pc = "poll", !.base = n]
      PROVE  NotNewlyAdmitted
  <2>1. /\ job'.leg = job.leg /\ job'.flip = job.flip /\ job'.refused = job.refused
        /\ job'.strat = job.strat /\ job'.want = job.want
    BY <1>0, <1>6 DEF Jobs
  <2> QED
    BY <2>1 DEF NotNewlyAdmitted, Admitted
<1> QED
  BY <1>1, <1>2, <1>3, <1>4, <1>5, <1>6

LEMMA SignalStepsGo ==
  ASSUME TypeInv, SignalStep, ~BeginOpen, ~BookFill PROVE RowsGo /\ NotNewlyAdmitted
<1>3. CASE ResolveClose
  <2>1. NotNewlyAdmitted
    <3>1. job.pc # "idle" /\ row[S] \in Rows
      BY <1>3 DEF ResolveClose, TypeInv, TypeOK, BookTypeOK, JobOK, S
    <3>2. HeldOnSide(pos[C], LegSide) \in Nat
      BY <3>1, HeldNat, BookAssumption DEF TypeInv, TypeOK, BookTypeOK, JobOK, C, S
    <3>3. \/ Done \/ Raise
          \/ \E n \in Nat : job' = [job EXCEPT !.pc = "send", !.asked = n]
      <4>1. row[S].size \in Nat
        BY <3>1 DEF Rows, NoRow
      <4>2. ASSUME NEW n \in {row[S].size, HeldOnSide(pos[C], LegSide)},
                   job' = [job EXCEPT !.pc = "send", !.asked = n]
            PROVE  \E k \in Nat : job' = [job EXCEPT !.pc = "send", !.asked = k]
        BY <3>2, <4>1, <4>2
      <4> QED
        BY <1>3, <4>2 DEF ResolveClose
    <3> QED
      BY <3>1, <3>3, MovesOnNotAdmitted
  <2>2. row' = row
    BY <1>3 DEF ResolveClose, NoTrade, account
  <2> QED
    BY <2>1, <2>2 DEF RowsGo
<1>4. CASE PlaceOrder
  <2>1. NotNewlyAdmitted
    <3>1. job.pc # "idle" /\ Sending
      BY <1>4 DEF PlaceOrder, OrderFills, OrderRefused, OrderTimesOut, OrderTimesOutUnread,
     PollSeesFill,
                  PollGivesUp, Sending
    <3>2. Fills(Order) \subseteq Nat /\ job.asked \in Nat
      BY <3>1, OrderTyped, FillsPositive DEF TypeInv, TypeOK, BookTypeOK, Jobs
    <3>3. \/ \E pc \in PCs, why \in {"rejected", "unknown"} : GotoBecause(pc, why)
          \/ \E k \in Nat : job' = [job EXCEPT !.pc = "book", !.got = k]
          \/ \E b : job' = [job EXCEPT !.pc = "poll", !.base = b]
      BY <1>4, <3>2 DEF PlaceOrder, OrderFills, OrderRefused, OrderTimesOut, OrderTimesOutUnread,
     PollSeesFill,
                        PollGivesUp, PCs
    <3> QED
      BY <3>1, <3>3, MovesOnNotAdmitted
  <2>2. row' = row
    BY <1>4 DEF PlaceOrder, OrderFills, OrderRefused, OrderTimesOut, OrderTimesOutUnread,
     PollSeesFill,
                PollGivesUp, NoTrade, account
  <2> QED
    BY <2>1, <2>2 DEF RowsGo
<1>5. CASE \/ BookFails \/ PnlReadFails \/ VerifyParity \/ OpenNotFilled \/ CloseDropped
           \/ CloseNotFilled \/ ConfirmClose \/ Align \/ RaiseHandled
  <2>1. NotNewlyAdmitted
    <3>1. job.pc # "idle"
      BY <1>5 DEF BookFails, PnlReadFails, VerifyParity, OpenNotFilled, CloseDropped,
                  CloseNotFilled, ConfirmClose, Align, RaiseHandled
    <3>2. CASE BookFails
      BY <3>2 DEF BookFails, GotoBecause, NotNewlyAdmitted, Admitted, TypeInv, TypeOK, Jobs
    <3>3. CASE \/ PnlReadFails \/ VerifyParity \/ OpenNotFilled \/ CloseDropped
               \/ CloseNotFilled \/ ConfirmClose \/ Align \/ RaiseHandled
      <4>1. \/ Done \/ Raise \/ LegFailed \/ LegSucceeded \/ StillHeld
            \/ \E pc \in PCs : Goto(pc)
        BY <3>3 DEF PnlReadFails, VerifyParity, OpenNotFilled, CloseDropped,
                    CloseNotFilled, ConfirmClose, Align, RaiseHandled, PCs
      <4> QED
        BY <3>1, <4>1, MovesOnNotAdmitted
    <3> QED
      BY <1>5, <3>2, <3>3
  <2>2. row' = row
    BY <1>5 DEF BookFails, PnlReadFails, VerifyParity, OpenNotFilled, CloseDropped,
                CloseNotFilled, ConfirmClose, Align, RaiseHandled, NoTrade, account
  <2> QED
    BY <2>1, <2>2 DEF RowsGo
<1>6. CASE SettleExternal
  <2>1. NotNewlyAdmitted
    BY <1>6, MovesOnNotAdmitted DEF SettleExternal
  <2>2. RowsGo
    BY <1>6 DEF SettleExternal, RowsGo, TypeInv, TypeOK, BookTypeOK
  <2> QED
    BY <2>1, <2>2
<1> QED
  BY <1>3, <1>4, <1>5, <1>6 DEF SignalStep

LEMMA SignalStepKeepsRows ==
  ASSUME RowInv, SignalStep PROVE NoOppositeRows' /\ OneHolder' /\ GateInv'
<1>0. TypeInv
  BY DEF RowInv
<1>1. CASE BeginOpen
  BY <1>1, BeginOpenKeepsRows
<1>2. CASE BookFill
  BY <1>0, <1>2, OpenFillKeepsRows, CloseFillShrinks, ShrinkKeepsRows
<1> QED
  BY <1>0, <1>1, <1>2, SignalStepsGo, GoingShrinks, ShrinkKeepsRows

(* Outside the execution of a signal rows only go. *)
LEMMA OthersGo ==
  ASSUME TypeInv, Step, ~ExecuteSignal PROVE RowsGo /\ NotNewlyAdmitted
<1>1. NotNewlyAdmitted
  <2>1. CASE job' = job
    BY <2>1 DEF NotNewlyAdmitted, Admitted
  <2>2. CASE RunStrategy
    BY <2>2 DEF RunStrategy, Signal, IdleJob, NotNewlyAdmitted, Admitted
  <2>3. CASE Crash
    BY <2>3 DEF Crash, IdleJob, NotNewlyAdmitted, Admitted
  <2> QED
    BY <2>1, <2>2, <2>3
       DEF Step, Boot, Restore, TickWithPass, TickWithoutPass, ReadPaused, StartFlatAll,
           RunFlatAll, EndTick, ReconcilePass, Environment
<1>2. RowsGo
  <2>1. CASE row' = row
    BY <2>1 DEF RowsGo
  <2>2. CASE CloseRows \/ FlatBookRow
    BY <2>2 DEF CloseRows, FlatBookRow, RowsGo, TypeInv, TypeOK, BookTypeOK
  <2>3. CASE PassStep /\ ~CloseRows
    <3>1. row' = row
      BY <2>3 DEF PassStep, ReadExchange, ConfirmRead, FindOrphans, ReadAgain, CloseOrphan, PollOrphan,
                  EndPass, SamePosition, account
    <3> QED
      BY <2>1, <3>1
  <2>4. CASE FlatStep /\ ~FlatBookRow
    <3>1. row' = row
      BY <2>4 DEF FlatStep, FlatRead, FlatClose, FlatPoll, FlatBookFails, FlatBooked, FlatSettle,
                  FlatAck, FlatGivenUp, account
    <3> QED
      BY <2>1, <3>1
  <2>5. CASE RunStrategy \/ Crash \/ Environment
    <3>1. row' = row
      BY <2>5 DEF RunStrategy, Signal, NoTrade, Crash, Environment, Outside, LateFill,
                  OutsideTrade, Unpause, ClearHold, RequestFlatAll, account
    <3> QED
      BY <2>1, <3>1
  <2>6. CASE \/ Boot \/ Restore \/ TickWithPass \/ TickWithoutPass \/ ReadPaused
             \/ StartFlatAll \/ EndTick
    <3>1. row' = row
      BY <2>6 DEF Boot, Restore, TickWithPass, TickWithoutPass, ReadPaused, StartFlatAll,
                  EndTick, account
    <3> QED
      BY <2>1, <3>1
  <2> QED
    BY <2>2, <2>3, <2>4, <2>5, <2>6 DEF Step, ReconcilePass, RunFlatAll
<1> QED
  BY <1>1, <1>2

LEMMA InitRowInv == Init => RowInv
<1> SUFFICES ASSUME Init PROVE RowInv
  OBVIOUS
<1>1. Holders = {}
  BY DEF Init, BookInit, Holders, Holds
<1>2. ~Admitted
  BY DEF Init, IdleJob, Admitted
<1> QED
  BY <1>1, <1>2, InitTypeInv DEF RowInv, NoOppositeRows, OneHolder, GateInv

LEMMA NextRowInv == ASSUME RowInv, [Next]_vars PROVE RowInv'
<1>1. CASE Next
  BY <1>1, NextTypeInv, SignalStepKeepsRows, OthersGo, GoingShrinks, ShrinkKeepsRows
     DEF RowInv, Next, ExecuteSignal
<1>2. CASE UNCHANGED vars
  <2>1. job' = job /\ row' = row
    BY <1>2 DEF vars, bookVars
  <2>2. NotNewlyAdmitted
    BY <2>1 DEF NotNewlyAdmitted, Admitted
  <2> QED
    BY <1>2, <2>1, <2>2, StutterTypeInv, GoingShrinks, ShrinkKeepsRows DEF RowInv, RowsGo
<1> QED
  BY <1>1, <1>2

LEMMA RowsSafe == Spec => []RowInv
  BY InitRowInv, NextRowInv, PTL DEF Spec

(* For any strategies, coins, sizes and faults: two rows on one coin never *)
(* face each other, although the gate is read several awaits before the    *)
(* row is written and a flip trades twice in between.                      *)
THEOREM RowsFaceOneWay == Spec => []NoOppositeRows
<1>1. RowInv => NoOppositeRows
  BY DEF RowInv
<1> QED
  BY <1>1, RowsSafe, PTL

(* And without allow_multi_coin no coin and no family has two holders. *)
THEOREM HolderIsAlone == Spec => []OneHolder
<1>1. RowInv => OneHolder
  BY DEF RowInv
<1> QED
  BY <1>1, RowsSafe, PTL

-----------------------------------------------------------------------------
(* The memory.  From a successful restore until the first strategy runs,   *)
(* whatever closes a row resets its strategy too.                          *)
BelievesRows == \A s \in Strategies : belief[s] = row[s].side

RestoreInv ==
    /\ phase = "turns" => ran
    /\ phase \in {"idle", "tick", "flat", "read"} /\ ~ran /\ ~pending => BelievesRows

LEMMA ClosingKeepsBelief ==
  ASSUME TypeInv, BelievesRows, CloseRows \/ FlatBookRow PROVE BelievesRows'
<1>0. row \in [Strategies -> Rows] /\ belief \in [Strategies -> Stances]
  BY DEF TypeInv, TypeOK, BookTypeOK
<1>1. CASE CloseRows
  <2>1. CASE UNCHANGED <<row, belief>>
    BY <2>1 DEF BelievesRows
  <2>2. ASSUME NEW priced,
               row' = [s \in Strategies |-> IF s \in priced THEN NoRow ELSE row[s]],
               belief' = [s \in Strategies |-> IF s \in priced THEN "flat" ELSE belief[s]]
        PROVE  BelievesRows'
    BY <2>2 DEF BelievesRows, NoRow
  <2> QED
    BY <1>1, <2>1, <2>2 DEF CloseRows
<1>2. CASE FlatBookRow
  <2>1. PICK s \in flat.rows : /\ row' = [row EXCEPT ![s] = NoRow]
                               /\ belief' = [belief EXCEPT ![s] = "flat"]
    BY <1>2 DEF FlatBookRow
  <2>2. s \in Strategies
    BY <2>1 DEF TypeInv, TypeOK, FlatTypeOK, Flats
  <2> QED
    BY <1>0, <2>1, <2>2 DEF BelievesRows, NoRow
<1> QED
  BY <1>1, <1>2

LEMMA PassKeepsBelief ==
  ASSUME TypeInv, BelievesRows, PassStep PROVE BelievesRows'
<1>1. CASE CloseRows
  BY <1>1, ClosingKeepsBelief
<1>2. CASE ~CloseRows
  <2>1. UNCHANGED <<row, belief>>
    BY <1>2 DEF PassStep, ReadExchange, ConfirmRead, FindOrphans, ReadAgain, CloseOrphan, PollOrphan,
                EndPass, SamePosition, account
  <2> QED
    BY <2>1 DEF BelievesRows
<1> QED
  BY <1>1, <1>2

LEMMA FlatKeepsBelief ==
  ASSUME TypeInv, BelievesRows, FlatStep PROVE BelievesRows'
<1>1. CASE FlatBookRow
  BY <1>1, ClosingKeepsBelief
<1>2. CASE ~FlatBookRow
  <2>1. UNCHANGED <<row, belief>>
    BY <1>2 DEF FlatStep, FlatRead, FlatClose, FlatPoll, FlatBookFails, FlatBooked, FlatSettle,
                FlatAck, FlatGivenUp, account
  <2> QED
    BY <2>1 DEF BelievesRows
<1> QED
  BY <1>1, <1>2

LEMMA ReadsOnlyTurnOn ==
  ASSUME TypeInv, Step, phase # "turns", phase' = "turns"
  PROVE  ReadPaused
  BY DEF Step, Boot, Restore, TickWithPass, TickWithoutPass, StartFlatAll, RunFlatAll,
         RunStrategy, EndTick, ExecuteSignal, ReconcilePass, Crash, Environment,
         engineVars, TypeInv, OneAtATime

LEMMA InitRestoreInv == Init => RestoreInv
  BY DEF Init, RestoreInv

LEMMA NextRestoreInv ==
  ASSUME TypeInv, RestoreInv, [Next]_vars PROVE RestoreInv'
<1>1. CASE UNCHANGED vars
  BY <1>1 DEF vars, bookVars, engineVars, RestoreInv, BelievesRows
<1>2. CASE Next
  <2>1. phase' = "turns" => ran'
    BY <1>2 DEF Next, History
  <2>2. ASSUME phase' \in {"idle", "tick", "flat", "read"}, ~ran', ~pending'
        PROVE  BelievesRows'
    <3>1. ~ran /\ phase # "turns"
      BY <1>2, <2>2 DEF Next, History, RestoreInv
    <3>2. CASE Restore
      BY <2>2, <3>2 DEF Restore, Restored, BelievesRows, account
    <3>3. CASE TickWithPass \/ TickWithoutPass \/ StartFlatAll \/ Environment
      <4>1. /\ UNCHANGED <<row, belief, pending>>
            /\ phase \in {"idle", "tick", "flat", "read"}
        BY <2>2, <3>3 DEF TickWithPass, TickWithoutPass, StartFlatAll, Environment, Outside,
           LateFill, OutsideTrade, Unpause, ClearHold, RequestFlatAll, account, engineVars
      <4> QED
        BY <2>2, <3>1, <4>1 DEF RestoreInv, BelievesRows
    <3>4. CASE RunFlatAll
      <4>1. flat.pc # "idle"
        BY <3>4 DEF RunFlatAll, FlatStep, FlatRead, FlatClose, FlatPoll, FlatBookRow, FlatBookFails,
                    FlatBooked, FlatSettle, FlatAck, FlatGivenUp
      <4>2. BelievesRows
        BY <2>2, <3>1, <3>4, <4>1 DEF RunFlatAll, RestoreInv, TypeInv, OneAtATime
      <4> QED
        BY <3>4, <4>2, FlatKeepsBelief DEF RunFlatAll
    <3>5. CASE ReconcilePass
      <4>1. pass.pc # "idle"
        BY <3>5 DEF ReconcilePass, PassStep, ReadExchange, ConfirmRead, CloseRows,
                    FindOrphans, ReadAgain, CloseOrphan, PollOrphan, EndPass
      <4>2. phase = "tick" /\ pending' = pending
        BY <2>2, <3>5, <4>1 DEF ReconcilePass, TypeInv, OneAtATime
      <4>3. BelievesRows
        BY <2>2, <3>1, <4>2 DEF RestoreInv
      <4> QED
        BY <3>5, <4>3, PassKeepsBelief DEF ReconcilePass
    <3>6. CASE ReadPaused
      <4>1. ~pending /\ UNCHANGED <<row, belief>> /\ phase \in {"flat", "read"}
        <5>1. phase' = "idle" /\ UNCHANGED <<row, belief, pending>>
          BY <2>2, <3>6 DEF ReadPaused, account
        <5>2. phase \in {"flat", "read"}
          BY <3>6 DEF ReadPaused
        <5> QED
          BY <2>2, <5>1, <5>2
      <4> QED
        BY <3>1, <4>1 DEF RestoreInv, BelievesRows
    <3>7. CASE Boot \/ RunStrategy \/ EndTick \/ ExecuteSignal \/ Crash
      <4>1. job.pc = "idle"
        BY <3>1 DEF TypeInv, OneAtATime
      <4> QED
        BY <2>2, <3>1, <3>7, <4>1 DEF Boot, RunStrategy, EndTick, Crash, ExecuteSignal,
           SignalStep, BeginOpen, ResolveClose, PlaceOrder, OrderFills, OrderRefused,
           OrderTimesOut, OrderTimesOutUnread, PollSeesFill,
     PollGivesUp, BookFill, BookFails, PnlReadFails,
           VerifyParity, OpenNotFilled, CloseDropped, CloseNotFilled, ConfirmClose,
           SettleExternal, Align, RaiseHandled
    <3> QED
      BY <1>2, <3>2, <3>3, <3>4, <3>5, <3>6, <3>7 DEF Next, Step
  <2> QED
    BY <2>1, <2>2 DEF RestoreInv
<1> QED
  BY <1>1, <1>2

(* Whatever fails at boot and however often, the first strategy a process  *)
(* evaluates finds every strategy believing in exactly the open rows.      *)
THEOREM RestoredFirst == Spec => RestoredBeforeTrading
<1>1. TypeInv /\ RestoreInv /\ [Next]_vars => RestoreInv'
  BY NextRestoreInv
<1>2. ASSUME TypeInv, RestoreInv, Next, phase' = "turns", ~ran
      PROVE  \A s \in Strategies : belief'[s] = row'[s].side
  <2>1. ReadPaused
    BY <1>2, ReadsOnlyTurnOn DEF Next, RestoreInv
  <2>2. CASE pending
    BY <1>2, <2>1, <2>2 DEF ReadPaused, RetriedRestore, Restored, account
  <2>3. CASE ~pending
    <3>1. UNCHANGED <<row, belief>> /\ phase \in {"flat", "read"}
      BY <1>2, <2>1, <2>3 DEF ReadPaused, RetriedRestore, account
    <3> QED
      BY <1>2, <2>3, <3>1 DEF RestoreInv, BelievesRows
  <2> QED
    BY <2>2, <2>3
<1>3. TypeInv /\ RestoreInv /\ [Next]_vars
        => [phase' = "turns" /\ ~ran => \A s \in Strategies : belief'[s] = row'[s].side]_vars
  BY <1>2
<1> QED
  BY <1>1, <1>3, InitRestoreInv, Typed, PTL DEF Spec, RestoredBeforeTrading

-----------------------------------------------------------------------------
(* The flat-all. *)
HaltInv == halted => paused /\ phase # "turns"

LEMMA NextHaltInv ==
  ASSUME "redis" \notin Faults, TypeInv, HaltInv, [Next]_vars PROVE HaltInv'
<1>1. CASE UNCHANGED vars
  BY <1>1 DEF vars, bookVars, engineVars, HaltInv
<1>2. ASSUME Next, halted' PROVE paused' /\ phase' # "turns"
  <2>1. CASE flat'.pc = "ack" /\ flat.pc # "ack"
    <3>1. FlatSettle
      <4>0. flat \in Flats
        BY DEF TypeInv, TypeOK, FlatTypeOK
      <4>1. CASE RunFlatAll
        <5>1. ~(FlatAck \/ FlatGivenUp)
          BY <2>1 DEF FlatAck, FlatGivenUp, IdleFlat
        <5>2. ~FlatRead
          BY <2>1, <4>0 DEF FlatRead, FlatUnreadable, Flats
        <5>3. ~FlatClose
          BY <2>1, <4>0 DEF FlatClose, Flats
        <5>5. ~FlatPoll
          BY <2>1, <4>0, FlatPollMoves DEF PolledTo, Flats
        <5>4. ~(FlatBookRow \/ FlatBookFails \/ FlatBooked)
          BY <2>1, <4>0 DEF FlatBookRow, FlatBookFails, FlatBooked, FlatGoto, Flats
        <5> QED
          BY <4>1, <5>1, <5>2, <5>3, <5>4, <5>5 DEF RunFlatAll, FlatStep
      <4>2. CASE ~RunFlatAll
        <5>1. CASE StartFlatAll
          BY <2>1, <5>1 DEF StartFlatAll, BeginFlatAll, IdleFlat
        <5>2. CASE Crash
          BY <2>1, <5>2 DEF Crash, IdleFlat
        <5>3. CASE ~StartFlatAll /\ ~Crash
          <6>1. flat' = flat
            BY <1>2, <4>2, <5>3
               DEF Next, Step, Boot, Restore, TickWithPass, TickWithoutPass, ReadPaused,
                   RunStrategy, EndTick, ExecuteSignal, ReconcilePass, Environment,
                   RequestFlatAll, flatVars
          <6> QED
            BY <2>1, <6>1
        <5> QED
          BY <5>1, <5>2, <5>3
      <4> QED
        BY <4>1, <4>2
    <3>2. paused' = TRUE
      BY <2>1, <3>1 DEF FlatSettle, FlatGoto, TypeInv, TypeOK, FlatTypeOK, Flats
    <3>3. phase = "flat" /\ phase' # "turns"
      BY <1>2, <3>1 DEF FlatSettle, Next, Step, TypeInv, OneAtATime,
             Boot, Restore, TickWithPass, TickWithoutPass, ReadPaused, RunFlatAll,
             StartFlatAll, BeginFlatAll, RunStrategy, EndTick, ExecuteSignal, ReconcilePass,
             Crash, Environment, engineVars
    <3> QED
      BY <3>2, <3>3
  <2>2. CASE ~(flat'.pc = "ack" /\ flat.pc # "ack")
    <3>1. halted /\ paused /\ paused' /\ phase # "turns"
      BY <1>2, <2>2 DEF Next, History, HaltInv
    <3>2. ~ReadPaused \/ phase' # "turns"
      BY <3>1 DEF ReadPaused
    <3> QED
      BY <1>2, <3>1, <3>2, ReadsOnlyTurnOn DEF Next
  <2> QED
    BY <2>1, <2>2
<1> QED
  BY <1>1, <1>2 DEF HaltInv

(* While Redis answers, no strategy sends an OPEN after a flat-all that    *)
(* closed everything, until a human un-pauses the bot.                     *)
THEOREM FlatAllHalts ==
  ASSUME "redis" \notin Faults PROVE Spec => []NothingOpensAfterFlatAll
<1>1. Init => HaltInv
  BY DEF Init, HaltInv
<1>2. TypeInv /\ HaltInv /\ [Next]_vars => HaltInv'
  BY NextHaltInv
<1>3. TypeInv /\ HaltInv => NothingOpensAfterFlatAll
  BY DEF TypeInv, OneAtATime, HaltInv, NothingOpensAfterFlatAll
<1> QED
  BY <1>1, <1>2, <1>3, Typed, PTL DEF Spec

-----------------------------------------------------------------------------
(* Sums over finite sets. The library's induction over finite sets takes a   *)
(* predicate; here a set of subsets takes its place.                        *)
LEMMA EverySubset ==
  ASSUME NEW D, IsFiniteSet(D), NEW F,
         \A T \in SUBSET D : (\A U \in SUBSET T : U # T => U \in F) => T \in F
  PROVE  \A T \in SUBSET D : T \in F
<1> DEFINE bad == {T \in SUBSET D : T \notin F}
<1> SUFFICES ASSUME bad # {} PROVE FALSE
  OBVIOUS
<1>1. IsWellFoundedOn(StrictSubsetOrdering(D), SUBSET D)
  <2>1. FiniteSubsetsOf(D) = SUBSET D
    BY FS_FiniteSubsetsOfFinite
  <2>2. IsWellFoundedOn(StrictSubsetOrdering(D), FiniteSubsetsOf(D))
    BY FS_StrictSubsetOrderingWellFounded
  <2> QED
    BY <2>1, <2>2, Zenon
<1>2. bad \subseteq SUBSET D
  OBVIOUS
<1> HIDE DEF bad
<1>6. \E T \in bad : \A U \in bad : ~(<<U, T>> \in StrictSubsetOrdering(D))
  BY <1>1, <1>2, WFMin
<1>3. PICK T \in bad : \A U \in bad : ~(<<U, T>> \in StrictSubsetOrdering(D))
  BY <1>6
<1>4. T \in SUBSET D /\ T \notin F
  BY DEF bad
<1>5. \A U \in SUBSET T : U # T => U \in F
  <2> SUFFICES ASSUME NEW U \in SUBSET T, U # T, U \notin F PROVE FALSE
    OBVIOUS
  <2>1. U \in bad
    BY <1>4 DEF bad
  <2>2. <<U, T>> \in StrictSubsetOrdering(D)
    BY <1>4 DEF StrictSubsetOrdering
  <2> QED
    BY <1>3, <2>1, <2>2
<1> QED
  BY <1>4, <1>5

Some(s) == CHOOSE x \in s : TRUE
Sums(g, w, D) == g = [s \in SUBSET D |-> IF s = {} THEN 0
                                         ELSE w[Some(s)] + g[s \ {Some(s)}]]

LEMMA SomeIn == \A s : s # {} => Some(s) \in s
  BY DEF Some

LEMMA SumIs ==
  ASSUME NEW w, NEW D PROVE SumFunctionOnSet(w, D) = (CHOOSE g : Sums(g, w, D))[D]
  BY DEF SumFunctionOnSet, FoldFunctionOnSet, MapThenFoldSet, Sums, Some

LEMMA SumsAgree ==
  ASSUME NEW w, NEW D, IsFiniteSet(D), NEW E, D \subseteq E, NEW g, NEW h,
         Sums(g, w, D), Sums(h, w, E)
  PROVE  \A s \in SUBSET D : g[s] = h[s]
<1> DEFINE F == {s \in SUBSET D : g[s] = h[s]}
<1>1. \A s \in SUBSET D : /\ g[s] = IF s = {} THEN 0 ELSE w[Some(s)] + g[s \ {Some(s)}]
                          /\ h[s] = IF s = {} THEN 0 ELSE w[Some(s)] + h[s \ {Some(s)}]
  BY DEF Sums
<1>2. ASSUME NEW T \in SUBSET D, \A U \in SUBSET T : U # T => U \in F PROVE T \in F
  <2>1. CASE T = {}
    BY <1>1, <2>1
  <2>2. CASE T # {}
    <3>1. T \ {Some(T)} \in F
      BY <1>2, <2>2, SomeIn
    <3> QED
      BY <1>1, <2>2, <3>1
  <2> QED
    BY <2>1, <2>2
<1>3. \A s \in SUBSET D : s \in F
  <2> HIDE DEF F
  <2> QED
    BY <1>2, EverySubset
<1> QED
  BY <1>3

LEMMA SumsExist ==
  ASSUME NEW w, NEW D, IsFiniteSet(D) PROVE \E g : Sums(g, w, D)
<1> DEFINE F == {s \in SUBSET D : \E g : Sums(g, w, s)}
           Of(s) == CHOOSE g : Sums(g, w, s)
           Total(s) == Of(s)[s]
           Next1(s) == s \ {Some(s)}
<1>1. ASSUME NEW T \in SUBSET D, \A U \in SUBSET T : U # T => U \in F PROVE T \in F
  <2> DEFINE h == [s \in SUBSET T |-> IF s = {} THEN 0 ELSE w[Some(s)] + Total(Next1(s))]
  <2>1. \A s \in SUBSET T : s # T => Sums(Of(s), w, s)
    BY <1>1
  <2>2. ASSUME NEW u \in SUBSET T, u # T PROVE h[u] = Total(u)
    <3>1. Sums(Of(u), w, u)
      BY <2>1, <2>2
    <3>2. Of(u)[u] = IF u = {} THEN 0 ELSE w[Some(u)] + Of(u)[Next1(u)]
      <4> HIDE DEF Of
      <4> QED
        BY <3>1 DEF Sums
    <3>3. CASE u = {}
      BY <3>2, <3>3
    <3>4. CASE u # {}
      <4>1. Next1(u) \in SUBSET T /\ Next1(u) # T /\ Next1(u) \subseteq u
        BY <2>2, <3>4, SomeIn
      <4>2. Sums(Of(Next1(u)), w, Next1(u))
        BY <2>1, <4>1
      <4>3. IsFiniteSet(Next1(u))
        BY <1>1, <4>1, FS_Subset
      <4>4. Of(Next1(u))[Next1(u)] = Of(u)[Next1(u)]
        <5> HIDE DEF Of, Next1
        <5> QED
          BY <3>1, <4>1, <4>2, <4>3, SumsAgree
      <4> QED
        BY <3>2, <3>4, <4>4
    <3> QED
      BY <3>3, <3>4
  <2>3. Sums(h, w, T)
    <3>1. \A s \in SUBSET T : s # {} => Total(Next1(s)) = h[Next1(s)]
      <4> SUFFICES ASSUME NEW s \in SUBSET T, s # {} PROVE Total(Next1(s)) = h[Next1(s)]
        OBVIOUS
      <4>1. Next1(s) \in SUBSET T /\ Next1(s) # T
        BY SomeIn
      <4>2. h[Next1(s)] = Total(Next1(s))
        <5> HIDE DEF Next1, h, Total
        <5> QED
          BY <2>2, <4>1
      <4> QED
        BY <4>2, Zenon
    <3>2. h = [s \in SUBSET T |-> IF s = {} THEN 0 ELSE w[Some(s)] + h[Next1(s)]]
      <4>1. \A s \in SUBSET T : h[s] = IF s = {} THEN 0 ELSE w[Some(s)] + h[Next1(s)]
        <5>1. \A s \in SUBSET T : h[s] = IF s = {} THEN 0 ELSE w[Some(s)] + Total(Next1(s))
          <6> HIDE DEF Total, Next1
          <6> QED
            OBVIOUS
        <5> HIDE DEF Total, Next1, h
        <5> QED
          BY <3>1, <5>1
      <4>2. h = [s \in SUBSET T |-> h[s]]
        OBVIOUS
      <4> HIDE DEF h
      <4> QED
        BY <4>1, <4>2
    <3> HIDE DEF h
    <3> QED
      BY <3>2 DEF Sums
  <2> HIDE DEF h
  <2> QED
    BY <2>3
<1>2. \A s \in SUBSET D : s \in F
  <2> HIDE DEF F
  <2> QED
    BY <1>1, EverySubset
<1> QED
  BY <1>2

LEMMA SumsStep ==
  ASSUME NEW w, NEW D, IsFiniteSet(D), NEW E, E = D \ {Some(D)},
         NEW g, NEW h, Sums(g, w, D), Sums(h, w, E)
  PROVE  g[D] = IF D = {} THEN 0 ELSE w[Some(D)] + h[E]
<1>1. IsFiniteSet(E)
  BY FS_RemoveElement
<1>2. E \subseteq D
  OBVIOUS
<1>3. \A s \in SUBSET E : h[s] = g[s]
  BY <1>1, <1>2, SumsAgree, SMTT(60)
<1>4. h[E] = g[E]
  BY <1>3
<1>5. \A s \in SUBSET D : g[s] = IF s = {} THEN 0 ELSE w[Some(s)] + g[s \ {Some(s)}]
  BY DEF Sums
<1>6. D \in SUBSET D
  OBVIOUS
<1>7. g[D] = IF D = {} THEN 0 ELSE w[Some(D)] + g[D \ {Some(D)}]
  BY <1>5, <1>6
<1> QED
  BY <1>4, <1>7

LEMMA SumStep ==
  ASSUME NEW w, NEW D, IsFiniteSet(D)
  PROVE  SumFunctionOnSet(w, D) = IF D = {} THEN 0
            ELSE w[Some(D)] + SumFunctionOnSet(w, D \ {Some(D)})
<1>1. PICK E : E = D \ {Some(D)}
  OBVIOUS
<1>2. IsFiniteSet(E)
  BY <1>1, FS_RemoveElement
<1>3. PICK g : g = CHOOSE f : Sums(f, w, D)
  OBVIOUS
<1>4. PICK h : h = CHOOSE f : Sums(f, w, E)
  OBVIOUS
<1>5. Sums(g, w, D)
  BY <1>3, SumsExist
<1>6. Sums(h, w, E)
  BY <1>2, <1>4, SumsExist
<1>7. SumFunctionOnSet(w, D) = g[D]
  BY <1>3, SumIs
<1>8. SumFunctionOnSet(w, E) = h[E]
  BY <1>4, SumIs
<1>9. g[D] = IF D = {} THEN 0 ELSE w[Some(D)] + h[E]
  BY <1>1, <1>5, <1>6, SumsStep, Z3T(60)
<1> QED
  BY <1>1, <1>7, <1>8, <1>9

LEMMA SumInt ==
  ASSUME NEW D, IsFiniteSet(D), NEW w, \A x \in D : w[x] \in Int
  PROVE  \A T \in SUBSET D : SumFunctionOnSet(w, T) \in Int
<1> DEFINE F == {T \in SUBSET D : SumFunctionOnSet(w, T) \in Int}
<1>1. ASSUME NEW T \in SUBSET D, \A U \in SUBSET T : U # T => U \in F PROVE T \in F
  <2> DEFINE U == T \ {Some(T)}
  <2>1. SumFunctionOnSet(w, T) = IF T = {} THEN 0
                                 ELSE w[Some(T)] + SumFunctionOnSet(w, U)
    <3>1. IsFiniteSet(T)
      BY FS_Subset
    <3> QED
      BY <3>1, SumStep
  <2>2. CASE T = {}
    BY <2>1, <2>2
  <2>3. CASE T # {}
    <3>1. Some(T) \in T
      BY <2>3, SomeIn
    <3>2. U \in F
      BY <1>1, <3>1
    <3>3. SumFunctionOnSet(w, U) \in Int /\ w[Some(T)] \in Int
      BY <3>1, <3>2
    <3> QED
      BY <2>1, <2>3, <3>3
  <2> QED
    BY <2>2, <2>3
<1>2. \A T \in SUBSET D : T \in F
  <2> HIDE DEF F
  <2> QED
    BY <1>1, EverySubset
<1> QED
  BY <1>2

LEMMA SumRemove ==
  ASSUME NEW D, IsFiniteSet(D), NEW w, \A x \in D : w[x] \in Int
  PROVE  \A T \in SUBSET D : \A x \in T :
            SumFunctionOnSet(w, T) = w[x] + SumFunctionOnSet(w, T \ {x})
<1> DEFINE Sum(s) == SumFunctionOnSet(w, s)
           F == {T \in SUBSET D : \A x \in T : Sum(T) = w[x] + Sum(T \ {x})}
<1>1. ASSUME NEW T \in SUBSET D, \A U \in SUBSET T : U # T => U \in F PROVE T \in F
  <2> SUFFICES ASSUME NEW x \in T PROVE Sum(T) = w[x] + Sum(T \ {x})
    OBVIOUS
  <2> DEFINE c == Some(T)
  <2>1. c \in T
    BY SomeIn
  <2>2. Sum(T) = w[c] + Sum(T \ {c})
    <3>1. IsFiniteSet(T)
      BY FS_Subset
    <3> QED
      BY <2>1, <3>1, SumStep
  <2>3. CASE c = x
    BY <2>2, <2>3
  <2>4. CASE c # x
    <3> DEFINE R == (T \ {c}) \ {x}
    <3>1. Sum(T \ {c}) = w[x] + Sum(R)
      <4> HIDE DEF c, Sum
      <4>1. T \ {c} \in F
        BY <1>1, <2>1
      <4> QED
        BY <4>1, <2>4
    <3>2. Sum(T \ {x}) = w[c] + Sum(R)
      <4> HIDE DEF c, Sum
      <4>1. T \ {x} \in F
        BY <1>1
      <4>2. R = (T \ {x}) \ {c} /\ c \in T \ {x}
        BY <2>1, <2>4
      <4> QED
        BY <4>1, <4>2
    <3>3. w[x] \in Int /\ w[c] \in Int
      BY <2>1
    <3>4. Sum(R) \in Int
      <4>1. R \in SUBSET D
        OBVIOUS
      <4> HIDE DEF R
      <4> QED
        BY <4>1, SumInt
    <3> HIDE DEF Sum, R, c
    <3> QED
      BY <2>2, <3>1, <3>2, <3>3, <3>4
  <2> QED
    BY <2>3, <2>4
<1>2. \A T \in SUBSET D : T \in F
  <2> HIDE DEF F
  <2> QED
    BY <1>1, EverySubset
<1> QED
  BY <1>2

LEMMA SumSame ==
  ASSUME NEW D, IsFiniteSet(D), NEW w, NEW v, \A x \in D : w[x] = v[x]
  PROVE  SumFunctionOnSet(w, D) = SumFunctionOnSet(v, D)
<1> DEFINE F == {T \in SUBSET D : SumFunctionOnSet(w, T) = SumFunctionOnSet(v, T)}
<1>1. ASSUME NEW T \in SUBSET D, \A U \in SUBSET T : U # T => U \in F PROVE T \in F
  <2> DEFINE U == T \ {Some(T)}
  <2>1. IsFiniteSet(T)
    BY FS_Subset
  <2>2. /\ SumFunctionOnSet(w, T) = IF T = {} THEN 0
                                    ELSE w[Some(T)] + SumFunctionOnSet(w, U)
        /\ SumFunctionOnSet(v, T) = IF T = {} THEN 0
                                    ELSE v[Some(T)] + SumFunctionOnSet(v, U)
    BY <2>1, SumStep
  <2>3. CASE T = {}
    BY <2>2, <2>3
  <2>4. CASE T # {}
    <3>1. Some(T) \in T
      BY <2>4, SomeIn
    <3>2. U \in F
      BY <1>1, <3>1
    <3> QED
      BY <2>2, <2>4, <3>1, <3>2
  <2> QED
    BY <2>3, <2>4
<1>2. \A T \in SUBSET D : T \in F
  <2> HIDE DEF F
  <2> QED
    BY <1>1, EverySubset
<1> QED
  BY <1>2

LEMMA SumEmpty == \A w : SumFunctionOnSet(w, {}) = 0
  BY SumStep, FS_EmptySet

LEMMA SumSign ==
  ASSUME NEW D, IsFiniteSet(D), NEW w, \A x \in D : w[x] \in Int
  PROVE  /\ (\A x \in D : w[x] >= 0) => SumFunctionOnSet(w, D) >= 0
         /\ (\A x \in D : w[x] <= 0) => SumFunctionOnSet(w, D) <= 0
<1> DEFINE Sum(s) == SumFunctionOnSet(w, s)
           F == {T \in SUBSET D : /\ (\A x \in T : w[x] >= 0) => Sum(T) >= 0
                                  /\ (\A x \in T : w[x] <= 0) => Sum(T) <= 0}
<1>1. ASSUME NEW T \in SUBSET D, \A U \in SUBSET T : U # T => U \in F PROVE T \in F
  <2>1. CASE T = {}
    BY <2>1, SumEmpty
  <2>2. CASE T # {}
    <3>1. PICK x \in T : TRUE
      BY <2>2
    <3>2. Sum(T) = w[x] + Sum(T \ {x})
      BY SumRemove
    <3>3. Sum(T \ {x}) \in Int /\ w[x] \in Int
      BY SumInt
    <3>4. T \ {x} \in F
      BY <1>1, <3>1
    <3>5. /\ (\A y \in T : w[y] >= 0) => Sum(T \ {x}) >= 0 /\ w[x] >= 0
          /\ (\A y \in T : w[y] <= 0) => Sum(T \ {x}) <= 0 /\ w[x] <= 0
      BY <3>4
    <3> HIDE DEF Sum
    <3> QED
      BY <3>2, <3>3, <3>5
  <2> QED
    BY <2>1, <2>2
<1>2. \A T \in SUBSET D : T \in F
  <2> HIDE DEF F
  <2> QED
    BY <1>1, EverySubset
<1>3. D \in F
  BY <1>2
<1> QED
  BY <1>3

LEMMA SumMono ==
  ASSUME NEW D, IsFiniteSet(D), NEW w, NEW v,
         \A x \in D : w[x] \in Int /\ v[x] \in Nat
  PROVE  \A T \in SUBSET D : (\A x \in T : w[x] <= v[x])
            => SumFunctionOnSet(w, T) <= SumFunctionOnSet(v, D)
<1> DEFINE Low(s) == SumFunctionOnSet(w, s)
           High(s) == SumFunctionOnSet(v, s)
           F == {E \in SUBSET D : \A T \in SUBSET E :
                   (\A x \in T : w[x] <= v[x]) => Low(T) <= High(E)}
<1>1. ASSUME NEW E \in SUBSET D, \A U \in SUBSET E : U # E => U \in F PROVE E \in F
  <2> SUFFICES ASSUME NEW T \in SUBSET E, \A x \in T : w[x] <= v[x]
               PROVE  Low(T) <= High(E)
    OBVIOUS
  <2>1. CASE T = {}
    <3>1. IsFiniteSet(E) /\ \A x \in E : v[x] \in Int /\ v[x] >= 0
      BY FS_Subset
    <3>2. High(E) >= 0
      BY <3>1, SumSign
    <3>3. Low(T) = 0
      BY <2>1, SumEmpty
    <3> HIDE DEF Low, High
    <3> QED
      BY <3>2, <3>3
  <2>2. CASE T # {}
    <3>1. PICK x \in T : TRUE
      BY <2>2
    <3>2. Low(T) = w[x] + Low(T \ {x}) /\ High(E) = v[x] + High(E \ {x})
      <4>1. Low(T) = w[x] + Low(T \ {x})
        BY <3>1, SumRemove
      <4>2. x \in E /\ \A y \in D : v[y] \in Int
        BY <3>1
      <4>3. High(E) = v[x] + High(E \ {x})
        BY <4>2, SumRemove
      <4> QED
        BY <4>1, <4>3
    <3>3. Low(T \ {x}) \in Int /\ High(E \ {x}) \in Int /\ w[x] \in Int /\ v[x] \in Int
      <4>1. \A y \in D : v[y] \in Int
        OBVIOUS
      <4>2. Low(T \ {x}) \in Int
        BY SumInt
      <4>3. High(E \ {x}) \in Int
        BY <4>1, SumInt
      <4> QED
        BY <3>1, <4>1, <4>2, <4>3
    <3>4. E \ {x} \in F
      BY <1>1, <3>1
    <3>5. Low(T \ {x}) <= High(E \ {x})
      <4> HIDE DEF Low, High
      <4>1. T \ {x} \in SUBSET (E \ {x}) /\ \A y \in T \ {x} : w[y] <= v[y]
        OBVIOUS
      <4> QED
        BY <3>4, <4>1
    <3> HIDE DEF Low, High
    <3> QED
      BY <3>1, <3>2, <3>3, <3>5
  <2> QED
    BY <2>1, <2>2
<1>2. \A E \in SUBSET D : E \in F
  <2> HIDE DEF F
  <2> QED
    BY <1>1, EverySubset
<1>3. D \in F
  BY <1>2
<1> QED
  BY <1>3

-----------------------------------------------------------------------------
(* Who may move while a pass, a flat-all or a signal is under way. *)
LEMMA JobRunsAlone ==
  ASSUME TypeInv, Step, job.pc # "idle" PROVE ExecuteSignal \/ Crash \/ Environment
<1>1. phase = "turns" /\ pass.pc = "idle" /\ flat.pc = "idle"
  BY DEF TypeInv, OneAtATime
<1>2. ~Boot /\ ~Restore /\ ~TickWithPass /\ ~TickWithoutPass /\ ~ReadPaused /\ ~StartFlatAll
  BY <1>1 DEF Boot, Restore, TickWithPass, TickWithoutPass, ReadPaused, StartFlatAll
<1>3. ~RunFlatAll /\ ~ReconcilePass
  BY <1>1 DEF RunFlatAll, FlatStep, FlatRead, FlatClose, FlatPoll, FlatBookRow, FlatBookFails, FlatBooked,
     FlatSettle, FlatAck, FlatGivenUp, ReconcilePass, PassStep, ReadExchange, ConfirmRead,
     CloseRows, FindOrphans, ReadAgain, CloseOrphan, PollOrphan, EndPass
<1>4. ~RunStrategy /\ ~EndTick
  BY DEF RunStrategy, Signal, EndTick
<1> QED
  BY <1>2, <1>3, <1>4 DEF Step

LEMMA PassRunsAlone ==
  ASSUME TypeInv, Step, pass.pc # "idle" PROVE ReconcilePass \/ Crash \/ Environment
<1>1. phase \in {"boot", "tick"} /\ job.pc = "idle" /\ flat.pc = "idle"
  BY DEF TypeInv, OneAtATime
<1>2. ~Boot /\ ~Restore /\ ~TickWithPass /\ ~TickWithoutPass /\ ~ReadPaused /\ ~StartFlatAll
      /\ ~RunStrategy /\ ~EndTick
  BY <1>1 DEF Boot, Restore, TickWithPass, TickWithoutPass, ReadPaused, StartFlatAll,
              RunStrategy, EndTick
<1>3. ~RunFlatAll
  BY <1>1 DEF RunFlatAll, FlatStep, FlatRead, FlatClose, FlatPoll, FlatBookRow, FlatBookFails, FlatBooked,
     FlatSettle, FlatAck, FlatGivenUp
<1>4. ~ExecuteSignal
  BY <1>1 DEF ExecuteSignal, SignalStep, BeginOpen, ResolveClose, PlaceOrder, OrderFills,
     OrderRefused, OrderTimesOut, OrderTimesOutUnread, PollSeesFill,
     PollGivesUp, BookFill, BookFails, PnlReadFails,
     VerifyParity, OpenNotFilled, CloseDropped, CloseNotFilled, ConfirmClose, SettleExternal,
     Align, RaiseHandled
<1> QED
  BY <1>2, <1>3, <1>4 DEF Step

LEMMA FlatRunsAlone ==
  ASSUME TypeInv, Step, flat.pc # "idle" PROVE RunFlatAll \/ Crash \/ Environment
<1>1. phase = "flat" /\ job.pc = "idle" /\ pass.pc = "idle"
  BY DEF TypeInv, OneAtATime
<1>2. ~Boot /\ ~Restore /\ ~TickWithPass /\ ~TickWithoutPass /\ ~RunStrategy /\ ~EndTick
  BY <1>1 DEF Boot, Restore, TickWithPass, TickWithoutPass, RunStrategy, EndTick
<1>3. ~ReadPaused /\ ~StartFlatAll
  BY <1>1 DEF ReadPaused, StartFlatAll, BeginFlatAll
<1>4. ~ReconcilePass
  BY <1>1 DEF ReconcilePass, PassStep, ReadExchange, ConfirmRead, CloseRows, FindOrphans,
     ReadAgain, CloseOrphan, PollOrphan, EndPass
<1>5. ~ExecuteSignal
  BY <1>1 DEF ExecuteSignal, SignalStep, BeginOpen, ResolveClose, PlaceOrder, OrderFills,
     OrderRefused, OrderTimesOut, OrderTimesOutUnread, PollSeesFill,
     PollGivesUp, BookFill, BookFails, PnlReadFails,
     VerifyParity, OpenNotFilled, CloseDropped, CloseNotFilled, ConfirmClose, SettleExternal,
     Align, RaiseHandled
<1> QED
  BY <1>2, <1>3, <1>4, <1>5 DEF Step

LEMMA EnvironmentKeeps ==
  ASSUME Environment
  PROVE  UNCHANGED <<row, belief, job, unbooked, pass, flat, done, phase, lies>>
  BY DEF Environment, Outside, LateFill, OutsideTrade, Unpause, ClearHold, RequestFlatAll,
     account, engineVars, flatVars, control

LEMMA IdleJobWaits ==
  ASSUME TypeInv, Step, job.pc = "idle"
  PROVE  job' = job \/ RunStrategy \/ Crash
<1>1. ~ExecuteSignal
  BY DEF ExecuteSignal, SignalStep, BeginOpen, ResolveClose, PlaceOrder, OrderFills,
     OrderRefused, OrderTimesOut, OrderTimesOutUnread, PollSeesFill,
     PollGivesUp, BookFill, BookFails, PnlReadFails,
     VerifyParity, OpenNotFilled, CloseDropped, CloseNotFilled, ConfirmClose, SettleExternal,
     Align, RaiseHandled
<1> QED
  BY <1>1, EnvironmentKeeps DEF Step, Boot, Restore, TickWithPass, TickWithoutPass, ReadPaused,
     StartFlatAll, RunFlatAll, EndTick, ReconcilePass

LEMMA GotoSets ==
  ASSUME TypeInv, NEW pc, Goto(pc) \/ \E why : GotoBecause(pc, why) PROVE job'.pc = pc
  BY DEF TypeInv, TypeOK, Goto, GotoBecause, Jobs

LEMMA RaiseStops ==
  ASSUME TypeInv, Raise PROVE job'.pc \in {"align", "raised"}
<1>1. GotoBecause("align", "raised") \/ GotoBecause("raised", "raised")
  BY DEF Raise
<1> QED
  BY <1>1, GotoSets

(* The steps after which an order is under way, or a close about to be. *)
Trading == Sending \/ job.pc = "resolve"

LEMMA WhatSends ==
  ASSUME TypeInv, Step, Trading'
  PROVE  \/ BeginOpen \/ ResolveClose \/ OrderFills \/ OrderTimesOut \/ PollSeesFill
         \/ VerifyParity \/ RunStrategy
         \/ UNCHANGED <<job, row>> /\ Trading /\ Environment
<1>0. job \in Jobs /\ job'.pc \in {"send", "poll", "book", "resolve"}
  BY DEF TypeInv, TypeOK, Trading, Sending
<1>1. CASE job.pc = "idle"
  <2>1. CASE job' = job
    BY <1>0, <1>1, <2>1
  <2>2. CASE Crash
    BY <1>0, <2>2 DEF Crash, IdleJob
  <2> QED
    BY <1>1, <2>1, <2>2, IdleJobWaits
<1>2. CASE job.pc # "idle" /\ ExecuteSignal
  <2>0. ASSUME NEW pc \in {"verify", "unfilled", "confirm", "recheck", "settle", "align", "raised"},
               Goto(pc) \/ \E why : GotoBecause(pc, why)
        PROVE  FALSE
    BY <1>0, <2>0 DEF Goto, GotoBecause, Jobs
  <2>1. ~Done
    BY <1>0 DEF Done, IdleJob
  <2>2. ~LegFailed /\ ~Raise
    BY <2>0, <2>1 DEF LegFailed, Raise
  <2>3. ~OrderRefused /\ ~OrderTimesOutUnread /\ ~PollGivesUp /\ ~BookFill /\ ~BookFails
    BY <2>0 DEF OrderRefused, OrderTimesOutUnread, PollGivesUp, BookFill, BookFails
  <2>4. ~OpenNotFilled /\ ~CloseDropped /\ ~CloseNotFilled /\ ~RaiseHandled /\ ~PnlReadFails
    BY <2>0, <2>1, <2>2 DEF OpenNotFilled, CloseDropped, CloseNotFilled, RaiseHandled,
                            PnlReadFails
  <2>5. ~ConfirmClose /\ ~SettleExternal /\ ~Align
    BY <2>0, <2>1, <2>2 DEF ConfirmClose, StillHeld, SettleExternal, Align
  <2> QED
    BY <1>2, <2>3, <2>4, <2>5 DEF ExecuteSignal, SignalStep, PlaceOrder
<1>3. CASE Crash
  BY <1>0, <1>3 DEF Crash, IdleJob
<1>4. CASE Environment
  BY <1>4, EnvironmentKeeps DEF Trading, Sending
<1> QED
  BY <1>1, <1>2, <1>3, <1>4, JobRunsAlone

(* How an OPEN's start goes on to an order or a close. *)
LEMMA BeginTrades ==
  ASSUME TypeInv, BeginOpen, Trading'
  PROVE  /\ job.pc = "begin" /\ job.leg = "close" /\ job.flip = FALSE
         /\ UNCHANGED <<row, pos, inflight, clean, belief>>
         /\ row[S].side # job.want
         /\ \/ /\ job' = [job EXCEPT !.pc = "send", !.leg = "open", !.asked = OrderLots]
               /\ ~Refused(S, job.want) /\ ~Holds(S)
            \/ /\ job' = [job EXCEPT !.pc = "resolve", !.flip = TRUE]
               /\ ~Refused(S, job.want) /\ Holds(S)
            \/ /\ job' = [job EXCEPT !.pc = "resolve", !.flip = TRUE, !.refused = TRUE]
               /\ Holds(S)
<1>0. job \in Jobs /\ job'.pc \in {"send", "poll", "book", "resolve"}
  BY DEF TypeInv, TypeOK, Trading, Sending
<1>1. job.pc = "begin" /\ job.leg = "close" /\ job.flip = FALSE
  BY <1>0 DEF BeginOpen, TypeInv, JobOK, Jobs
<1>2. ~Done /\ ~Raise
  BY <1>0, RaiseStops DEF Done, IdleJob
<1>3. job.want \in Sides
  BY <1>1 DEF TypeInv, JobOK
<1>4. ~Holds(S) => row[S].side # job.want
  BY <1>3 DEF Holds, NoRow, Sides
<1> QED
  BY <1>1, <1>2, <1>4 DEF BeginOpen, NoTrade, account, KeepBelief

(* A close about to be sent, sized. *)
LEMMA ResolveTrades ==
  ASSUME TypeInv, ResolveClose, Trading'
  PROVE  /\ job.pc = "resolve" /\ UNCHANGED <<row, pos, inflight, clean, belief>>
         /\ Holds(S) /\ row[S].side = LegSide
         /\ \E n \in {row[S].size, HeldOnSide(pos[C], LegSide)} :
               /\ \/ n = row[S].size
                  \/ 0 < HeldOnSide(pos[C], LegSide) /\ HeldOnSide(pos[C], LegSide) < row[S].size
               /\ job' = [job EXCEPT !.pc = "send", !.asked = n]
<1>0. job \in Jobs /\ job'.pc \in {"send", "poll", "book", "resolve"}
  BY DEF TypeInv, TypeOK, Trading, Sending
<1>1. ~Done /\ ~Raise
  BY <1>0, RaiseStops DEF Done, IdleJob
<1> QED
  BY <1>1 DEF ResolveClose, NoTrade, account, KeepBelief

(* The open half of a flip, after its close. *)
LEMMA VerifyTrades ==
  ASSUME TypeInv, VerifyParity, Trading'
  PROVE  /\ job.pc = "verify" /\ UNCHANGED <<row, pos, inflight, clean, belief>>
         /\ job.flip /\ job.leg = "close" /\ ~job.refused /\ Remaining = 0
         /\ job' = [job EXCEPT !.pc = "send", !.leg = "open", !.asked = OrderLots, !.got = 0,
                               !.why = "none"]
<1>0. job \in Jobs /\ job'.pc \in {"send", "poll", "book", "resolve"}
  BY DEF TypeInv, TypeOK, Trading, Sending
<1>1. ~Done /\ ~Goto("align")
  BY <1>0 DEF Done, IdleJob, Goto, Jobs
<1>2. ~LegFailed
  BY <1>1 DEF LegFailed
<1> QED
  BY <1>1, <1>2 DEF VerifyParity, LegSucceeded, KeepBelief

-----------------------------------------------------------------------------
(* What a flat-all knows of the exchange, while nothing but its own orders *)
(* moves it and none of them filled short.                                 *)
Closed(c) == IF c \in flat.left THEN pos[c] = flat.seen[c] ELSE FlatUpToPoll(c, flat.taken)

(* The order that is polled for is the one order in flight, and it would   *)
(* leave nothing of what was held before it.                               *)
FlatPolling ==
    \E c \in Coins \ flat.left :
       /\ flat.polling = {c} /\ flat.base = flat.seen[c]
       /\ \A o \in inflight : o.coin = c

FlatCloseInv ==
    calm =>
       /\ flat.pc \in {"close", "poll", "book"} /\ ~flat.failed
             => \A c \in Coins \ flat.polling : Closed(c)
       /\ flat.pc = "poll" /\ ~flat.failed => FlatPolling
       /\ flat.pc = "ack" => \A c \in Coins : FlatUpToPoll(c, flat.taken)

(* A close of everything that is held leaves nothing of it. *)
LEMMA WholeFill ==
  ASSUME "short" \notin Faults, pos \in [Coins -> Int], NEW c \in Coins, NEW n \in Int,
         n = pos[c], n # 0, NEW o \in Orders,
         o.coin = c, o.leg = "close", o.side = (IF n > 0 THEN "long" ELSE "short"),
         o.lots = (IF n > 0 THEN n ELSE -n), NEW k \in Fills(o)
  PROVE  AfterFill(o, k) = [pos EXCEPT ![c] = 0]
<1>1. HeldOnSide(pos[c], o.side) = o.lots
  BY DEF HeldOnSide
<1>2. Takes(o) = o.lots
  BY <1>1 DEF Takes
<1>3. k = o.lots
  BY <1>2 DEF Fills
<1>4. pos[c] - Signed(o.side, k) = 0
  BY <1>3 DEF Signed
<1> QED
  BY <1>4 DEF AfterFill

LEMMA FlatCloseKeeps ==
  ASSUME "short" \notin Faults, TypeInv, FlatCloseInv, calm, lies' = lies, FlatClose
  PROVE  FlatCloseInv'
<1>0. /\ flat \in Flats /\ pos \in [Coins -> Int] /\ flat.pc = "close" /\ lies \in Nat
      /\ flat.polling = {} /\ \A c \in flat.left : flat.seen[c] # 0
  BY DEF TypeInv, TypeOK, BookTypeOK, FlatTypeOK, ReadsOK, FlatClose
<1>6. ~flat.failed => \A c \in Coins : Closed(c)
  BY <1>0 DEF FlatCloseInv
<1>1. PICK c \in flat.left :
         \/ \E k \in Fills(FlatOrder(c)) :
            /\ pos' = AfterFill(FlatOrder(c), k)
            /\ flat' = [flat EXCEPT !.left = @ \ {c}, !.pc = "book",
                                    !.rows = HoldersOn(c), !.used = FALSE]
         \/ flat' = [flat EXCEPT !.left = @ \ {c}, !.failed = TRUE]
         \/ /\ inflight' = {FlatOrder(c)} /\ pos' = pos
            /\ \E answer \in Answers :
                  /\ lies' = LiesIn(answer)
                  /\ flat' = [flat EXCEPT !.left = @ \ {c}, !.pc = "poll",
                                          !.polling = {c}, !.base = answer[c]]
  BY <1>0 DEF FlatClose, Flats
<1>4. c \in Coins /\ flat.seen[c] \in Int /\ flat.seen[c] # 0 /\ FlatOrder(c).coin = c
  BY <1>0 DEF Flats, FlatOrder
<1>2. CASE flat' = [flat EXCEPT !.left = @ \ {c}, !.failed = TRUE]
  <2>1. flat'.failed /\ flat'.pc = "close" /\ flat'.polling = {}
    BY <1>0, <1>2 DEF Flats
  <2> QED
    BY <2>1 DEF FlatCloseInv
<1>3. ASSUME NEW k \in Fills(FlatOrder(c)), pos' = AfterFill(FlatOrder(c), k),
             flat' = [flat EXCEPT !.left = @ \ {c}, !.pc = "book",
                                  !.rows = HoldersOn(c), !.used = FALSE]
      PROVE  FlatCloseInv'
  <2>1. /\ flat'.pc = "book" /\ flat'.left = flat.left \ {c} /\ flat'.seen = flat.seen
        /\ flat'.failed = flat.failed /\ flat'.taken = flat.taken /\ flat'.polling = {}
    BY <1>0, <1>3 DEF Flats
  <2> SUFFICES ASSUME ~flat.failed
               PROVE  \A d \in Coins : Closed(d)'
    BY <2>1 DEF FlatCloseInv
  <2>3. FlatOrder(c) \in Orders
    BY <1>4 DEF FlatOrder, Orders, Legs, Sides
  <2>4. \A d \in Coins : Closed(d)
    BY <1>6
  <2>6. pos[c] = flat.seen[c]
    BY <1>4, <2>4 DEF Closed
  <2>5. pos' = [pos EXCEPT ![c] = 0]
    <3> DEFINE o == FlatOrder(c)
               n == flat.seen[c]
    <3>1. /\ o \in Orders /\ o.coin = c /\ o.leg = "close"
          /\ o.side = (IF n > 0 THEN "long" ELSE "short")
          /\ o.lots = (IF n > 0 THEN n ELSE -n)
      BY <2>3 DEF FlatOrder
    <3>2. n \in Int /\ n # 0 /\ n = pos[c] /\ k \in Fills(o) /\ pos' = AfterFill(o, k)
      BY <1>3, <1>4, <2>6
    <3> HIDE DEF o, n
    <3> QED
      BY <1>0, <1>4, <3>1, <3>2, WholeFill
  <2>7. pos'[c] = 0 /\ \A d \in Coins \ {c} : pos'[d] = pos[d]
    BY <1>0, <1>4, <2>5
  <2>8. Closed(c)'
    BY <2>1, <2>7 DEF Closed, FlatUpToPoll
  <2>9. \A d \in Coins \ {c} : Closed(d)'
    BY <2>1, <2>4, <2>7 DEF Closed, FlatUpToPoll
  <2> QED
    BY <2>8, <2>9
<1>5. ASSUME NEW answer \in Answers, lies' = LiesIn(answer), pos' = pos,
             inflight' = {FlatOrder(c)},
             flat' = [flat EXCEPT !.left = @ \ {c}, !.pc = "poll",
                                  !.polling = {c}, !.base = answer[c]]
      PROVE  FlatCloseInv'
  <2>1. /\ flat'.pc = "poll" /\ flat'.left = flat.left \ {c} /\ flat'.seen = flat.seen
        /\ flat'.failed = flat.failed /\ flat'.taken = flat.taken
        /\ flat'.polling = {c} /\ flat'.base = answer[c]
    BY <1>0, <1>5 DEF Flats
  <2>2. answer = pos
    BY <1>0, <1>5 DEF LiesIn
  <2> SUFFICES ASSUME ~flat.failed
               PROVE  FlatPolling' /\ \A d \in Coins \ {c} : Closed(d)'
    BY <2>1 DEF FlatCloseInv
  <2>3. \A d \in Coins : Closed(d)
    BY <1>6
  <2>4. pos[c] = flat.seen[c]
    BY <1>4, <2>3 DEF Closed
  <2>5. FlatPolling'
    BY <1>4, <1>5, <2>1, <2>2, <2>4 DEF FlatPolling
  <2>6. \A d \in Coins \ {c} : Closed(d)'
    BY <1>5, <2>1, <2>3 DEF Closed, FlatUpToPoll
  <2> QED
    BY <2>5, <2>6
<1> QED
  BY <1>1, <1>2, <1>3, <1>5

(* A match within one lot of nothing leaves at most one lot. *)
LEMMA FlatPollKeeps ==
  ASSUME TypeInv, FlatCloseInv, calm, lies' = lies, FlatPoll PROVE FlatCloseInv'
<1>0. /\ flat \in Flats /\ pos \in [Coins -> Int] /\ flat.pc = "poll" /\ lies \in Nat
      /\ pos' = pos
  BY DEF TypeInv, TypeOK, BookTypeOK, FlatTypeOK, FlatPoll
<1>1. PICK c \in flat.polling :
         \/ /\ \E answer \in Answers :
                  /\ PollMatches(FlatOrder(c), flat.base, answer)
                  /\ lies' = LiesIn(answer)
            /\ flat' = [flat EXCEPT !.polling = {}, !.base = 0, !.pc = "book",
                                    !.rows = HoldersOn(c), !.used = FALSE,
                                    !.taken = @ \union {c}]
         \/ flat' = [flat EXCEPT !.polling = {}, !.base = 0, !.pc = "close", !.failed = TRUE]
  BY <1>0 DEF FlatPoll, Flats
<1>2. CASE flat' = [flat EXCEPT !.polling = {}, !.base = 0, !.pc = "close", !.failed = TRUE]
  <2>1. flat'.failed /\ flat'.pc = "close" /\ flat'.polling = {}
    BY <1>0, <1>2 DEF Flats
  <2> QED
    BY <2>1 DEF FlatCloseInv
<1>3. ASSUME NEW answer \in Answers,
             PollMatches(FlatOrder(c), flat.base, answer), lies' = LiesIn(answer),
             flat' = [flat EXCEPT !.polling = {}, !.base = 0, !.pc = "book",
                                  !.rows = HoldersOn(c), !.used = FALSE,
                                  !.taken = @ \union {c}]
      PROVE  FlatCloseInv'
  <2>1. /\ flat'.left = flat.left /\ flat'.seen = flat.seen /\ flat'.polling = {}
        /\ flat'.failed = flat.failed /\ flat'.taken = flat.taken \union {c}
        /\ flat'.pc = "book"
    BY <1>0, <1>3 DEF Flats
  <2>2. answer = pos
    BY <1>0, <1>3 DEF LiesIn
  <2> SUFFICES ASSUME ~flat.failed PROVE \A d \in Coins : Closed(d)'
    BY <2>1 DEF FlatCloseInv
  <2>3. /\ c \in Coins \ flat.left /\ flat.polling = {c} /\ flat.base = flat.seen[c]
        /\ \A d \in Coins \ {c} : Closed(d)
    BY <1>0 DEF FlatCloseInv, FlatPolling
  <2>4. Target(FlatOrder(c), flat.base) = 0 /\ FlatOrder(c).coin = c
    <3>1. flat.seen[c] \in Int
      BY <1>0, <2>3 DEF Flats
    <3> QED
      BY <2>3, <3>1 DEF Target, FlatOrder, Signed
  <2>5. pos[c] \in {-1, 0, 1}
    BY <1>0, <1>3, <2>2, <2>3, <2>4 DEF PollMatches
  <2>6. Closed(c)'
    BY <1>0, <2>1, <2>3, <2>5 DEF Closed, FlatUpToPoll
  <2>7. \A d \in Coins \ {c} : Closed(d)'
    BY <1>0, <2>1, <2>3 DEF Closed, FlatUpToPoll
  <2> QED
    BY <2>6, <2>7
<1> QED
  BY <1>1, <1>2, <1>3

LEMMA FlatStepKeeps ==
  ASSUME "short" \notin Faults, TypeInv, FlatCloseInv, RunFlatAll, History PROVE FlatCloseInv'
<1> SUFFICES ASSUME calm' PROVE FlatCloseInv'
  BY DEF FlatCloseInv
<1>0. /\ flat \in Flats /\ pos \in [Coins -> Int] /\ lies \in Nat /\ pass' = pass
      /\ pass.pc = "idle" /\ flat.pc # "idle"
  <2>1. flat \in Flats /\ pos \in [Coins -> Int] /\ lies \in Nat
    BY DEF TypeInv, TypeOK, BookTypeOK, FlatTypeOK
  <2>2. pass' = pass /\ FlatStep
    BY DEF RunFlatAll
  <2>3. flat.pc # "idle"
    BY <2>2 DEF FlatStep, FlatRead, FlatClose, FlatPoll, FlatBookRow, FlatBookFails,
       FlatBooked, FlatSettle, FlatAck, FlatGivenUp
  <2>4. pass.pc = "idle"
    BY <2>3 DEF TypeInv, OneAtATime
  <2> QED
    BY <2>1, <2>2, <2>3, <2>4
<1>1. CASE flat'.pc \notin {"close", "poll", "book", "ack"}
  BY <1>1 DEF FlatCloseInv
<1>2. CASE flat'.pc \in {"close", "poll", "book", "ack"}
  <2>1. calm /\ lies' = lies
    BY <1>0, <1>2 DEF History
  <2>2. CASE FlatRead
    <3>1. CASE flat' = FlatUnreadable
      BY <1>0, <1>2, <3>1 DEF FlatUnreadable, Flats
    <3>2. ASSUME NEW answer \in Answers, lies' = LiesIn(answer), pos' = pos,
                 flat' = [flat EXCEPT !.pc = "close", !.seen = answer,
                                      !.left = {c \in Coins : answer[c] # 0}]
          PROVE  FlatCloseInv'
      <4>1. answer = pos
        BY <1>0, <2>1, <3>2 DEF LiesIn
      <4>2. /\ flat'.pc = "close" /\ flat'.seen = pos /\ flat'.left = {c \in Coins : pos[c] # 0}
            /\ flat'.polling = flat.polling
        BY <1>0, <3>2, <4>1 DEF Flats
      <4>3. flat.polling = {}
        BY <2>2 DEF TypeInv, ReadsOK, FlatRead
      <4> QED
        BY <3>2, <4>2, <4>3 DEF FlatCloseInv, Closed, FlatUpToPoll
    <3> QED
      BY <2>2, <3>1, <3>2 DEF FlatRead
  <2>3. CASE FlatClose \/ FlatPoll
    BY <2>1, <2>3, FlatCloseKeeps, FlatPollKeeps
  <2>4. CASE FlatBookRow \/ FlatBooked
    <3>1. /\ pos' = pos /\ flat.pc = "book" /\ flat'.pc \in {"book", "close"}
          /\ flat'.left = flat.left /\ flat'.seen = flat.seen /\ flat'.failed = flat.failed
          /\ flat'.taken = flat.taken /\ flat'.polling = flat.polling
      BY <1>0, <2>4 DEF FlatBookRow, FlatBooked, FlatGoto, account, Flats
    <3>2. flat.polling = {}
      BY <3>1 DEF TypeInv, ReadsOK
    <3> QED
      BY <2>1, <3>1, <3>2 DEF FlatCloseInv, Closed, FlatUpToPoll
  <2>5. CASE FlatBookFails
    <3>1. flat'.pc = "close" /\ flat'.failed /\ flat.pc = "book" /\ flat'.polling = flat.polling
      BY <1>0, <2>5 DEF FlatBookFails, Flats
    <3> QED
      BY <2>1, <3>1 DEF FlatCloseInv
  <2>6. CASE FlatSettle
    <3>1. /\ flat'.pc = "ack" /\ ~flat.failed /\ flat.left = {} /\ flat.pc = "close" /\ pos' = pos
          /\ flat'.taken = flat.taken
      BY <1>0, <1>2, <2>6 DEF FlatSettle, FlatGoto, account, Flats
    <3>3. flat.polling = {}
      BY <3>1 DEF TypeInv, ReadsOK
    <3>2. \A c \in Coins : FlatUpToPoll(c, flat.taken)
      BY <2>1, <3>1, <3>3 DEF FlatCloseInv, Closed
    <3> QED
      BY <3>1, <3>2 DEF FlatCloseInv, FlatUpToPoll
  <2>7. CASE FlatAck \/ FlatGivenUp
    BY <1>2, <2>7 DEF FlatAck, FlatGivenUp, IdleFlat
  <2> QED
    BY <2>2, <2>3, <2>4, <2>5, <2>6, <2>7 DEF RunFlatAll, FlatStep
<1> QED
  BY <1>1, <1>2

(* Beside a poll only the order it polls for may move the account. *)
LEMMA PolledMoves ==
  ASSUME TypeInv, Environment, History, calm', NEW c \in Coins,
         pass.pc # "idle" \/ flat.pc # "idle",
         pass.pc = "poll" \/ flat.pc = "poll" => \A o \in inflight : o.coin = c
  PROVE  /\ calm /\ inflight' \subseteq inflight
         /\ \A d \in Coins \ {c} : pos'[d] = pos[d]
         /\ ~(pass.pc = "poll" \/ flat.pc = "poll") => pos' = pos
<1>0. pos \in [Coins -> Int] /\ flat' = flat /\ pass' = pass
  BY EnvironmentKeeps DEF TypeInv, TypeOK, BookTypeOK
<1>1. calm /\ (pos' = pos \/ ((pass.pc = "poll" \/ flat.pc = "poll") /\ inflight' # inflight))
  BY <1>0 DEF History, OwnMoves
<1>2. CASE LateFill
  <2>1. PICK o \in inflight : \E k : pos' = AfterFill(o, k) /\ inflight' = inflight \ {o}
    BY <1>2 DEF LateFill
  <2>2. \A d \in Coins \ {o.coin} : pos'[d] = pos[d]
    BY <1>0, <2>1 DEF AfterFill
  <2> QED
    BY <1>1, <2>1, <2>2
<1>3. CASE ~LateFill
  <2>1. inflight' = inflight
    BY <1>3 DEF Environment, Outside, OutsideTrade, Unpause, ClearHold, RequestFlatAll, account
  <2> QED
    BY <1>1, <2>1
<1> QED
  BY <1>2, <1>3

LEMMA NextFlatCloseInv ==
  ASSUME "short" \notin Faults, TypeInv, FlatCloseInv, [Next]_vars PROVE FlatCloseInv'
<1>1. CASE UNCHANGED vars
  BY <1>1 DEF vars, bookVars, flatVars, FlatCloseInv, Closed, FlatUpToPoll, FlatPolling
<1>2. CASE Next /\ flat.pc # "idle"
  <2>1. CASE RunFlatAll
    BY <1>2, <2>1, FlatStepKeeps DEF Next
  <2>2. CASE Crash
    BY <2>2 DEF Crash, IdleFlat, FlatCloseInv
  <2>3. CASE Environment
    <3>1. flat' = flat /\ pass.pc = "idle" /\ History /\ pos \in [Coins -> Int]
      BY <1>2, <2>3, EnvironmentKeeps DEF TypeInv, TypeOK, BookTypeOK, OneAtATime, Next
    <3>2. CASE flat.pc # "poll" \/ flat.failed
      <4>1. calm' => calm
        BY <1>2, <2>3, <3>1, EnvironmentKeeps DEF History
      <4>2. CASE flat.pc # "poll"
        <5>1. calm' => pos' = pos
          BY <1>2, <2>3, <3>1, <4>2, EnvironmentKeeps DEF History, OwnMoves
        <5> QED
          BY <3>1, <4>1, <4>2, <5>1 DEF FlatCloseInv, Closed, FlatUpToPoll
      <4>3. CASE flat.pc = "poll" /\ flat.failed
        BY <3>1, <4>3 DEF FlatCloseInv
      <4> QED
        BY <3>2, <4>2, <4>3
    <3>3. CASE flat.pc = "poll" /\ ~flat.failed
      <4> SUFFICES ASSUME calm' PROVE FlatCloseInv'
        BY DEF FlatCloseInv
      <4>1. calm
        BY <1>2, <2>3, <3>1, EnvironmentKeeps DEF History
      <4>2. PICK c \in Coins \ flat.left :
               /\ flat.polling = {c} /\ flat.base = flat.seen[c]
               /\ \A o \in inflight : o.coin = c
        BY <3>3, <4>1 DEF FlatCloseInv, FlatPolling
      <4>3. inflight' \subseteq inflight /\ \A d \in Coins \ {c} : pos'[d] = pos[d]
        BY <1>2, <2>3, <3>1, <4>2, PolledMoves
      <4>4. FlatPolling'
        BY <3>1, <4>2, <4>3 DEF FlatPolling
      <4>5. \A d \in Coins \ flat.polling : Closed(d)'
        BY <3>1, <3>3, <4>1, <4>2, <4>3 DEF FlatCloseInv, Closed, FlatUpToPoll
      <4> QED
        BY <3>1, <3>3, <4>4, <4>5 DEF FlatCloseInv
    <3> QED
      BY <3>2, <3>3
  <2> QED
    BY <1>2, <2>1, <2>2, <2>3, FlatRunsAlone DEF Next
<1>3. CASE Next /\ flat.pc = "idle"
  <2>1. flat'.pc \in {"idle", "read"}
    <3>1. CASE StartFlatAll
      BY <3>1 DEF StartFlatAll, BeginFlatAll, IdleFlat
    <3>2. CASE Crash
      BY <3>2 DEF Crash, IdleFlat
    <3>3. CASE ~StartFlatAll /\ ~Crash
      <4>1. ~RunFlatAll
        BY <1>3 DEF RunFlatAll, FlatStep, FlatRead, FlatClose, FlatPoll, FlatBookRow, FlatBookFails,
           FlatBooked, FlatSettle, FlatAck, FlatGivenUp
      <4>2. flat' = flat
        BY <1>3, <3>3, <4>1 DEF Next, Step, Boot, Restore, TickWithPass, TickWithoutPass,
           ReadPaused, RunStrategy, EndTick, ExecuteSignal, ReconcilePass, Environment,
           RequestFlatAll, flatVars
      <4> QED
        BY <1>3, <4>2
    <3> QED
      BY <3>1, <3>2, <3>3
  <2> QED
    BY <2>1 DEF FlatCloseInv
<1> QED
  BY <1>1, <1>2, <1>3

(* Only an acknowledgement changes the acknowledged token. *)
LEMMA AcksChangeDone ==
  ASSUME Step, done' # done PROVE FlatAck
<1>1. CASE RunFlatAll
  BY <1>1 DEF RunFlatAll, FlatStep, FlatRead, FlatClose, FlatPoll, FlatBookRow, FlatBookFails, FlatBooked,
     FlatSettle, FlatAck, FlatGivenUp
<1>2. CASE ~RunFlatAll
  BY <1>2, EnvironmentKeeps DEF Step, Boot, Restore, TickWithPass, TickWithoutPass, ReadPaused,
     StartFlatAll, BeginFlatAll, RunStrategy, EndTick, ExecuteSignal, ReconcilePass, Crash,
     flatVars
<1> QED
  BY <1>1, <1>2

(* With answered orders that fill in full, an acknowledged flat-all leaves *)
(* the exchange flat: no position was missed by the read, and every one it *)
(* showed was closed - but for one lot of a coin whose close timed out and *)
(* was taken for filled.                                                   *)
THEOREM FlatAllFlattens ==
  ASSUME "short" \notin Faults PROVE Spec => FlatAllMeansFlat
<1>1. Init => FlatCloseInv
  BY DEF Init, FlatInit, IdleFlat, FlatCloseInv
<1>2. TypeInv /\ FlatCloseInv /\ [Next]_vars => FlatCloseInv'
  BY NextFlatCloseInv
<1>3. TypeInv /\ FlatCloseInv /\ [Next]_vars
         => [done' # done /\ calm => \A c \in Coins : FlatUpToPoll(c, flat.taken)]_vars
  <2> SUFFICES ASSUME TypeInv, FlatCloseInv, Next, done' # done, calm
               PROVE  \A c \in Coins : FlatUpToPoll(c, flat.taken)
    BY DEF vars, flatVars
  <2>1. flat.pc = "ack"
    BY AcksChangeDone DEF Next, FlatAck
  <2> QED
    BY <2>1 DEF FlatCloseInv
<1> QED
  BY <1>1, <1>2, <1>3, Typed, PTL DEF Spec, FlatAllMeansFlat

-----------------------------------------------------------------------------
(* The exposure.  The cap is compared with the rows of the others and with *)
(* what the order asks for, before it is sent; what fills and what the     *)
(* rows have become by then must still fit.                                *)
AskInv ==
    /\ job.pc = "resolve" => job.leg = "close"
    /\ Sending /\ job.leg = "open" => job.asked = OrderLots
    /\ Sending /\ job.leg = "close" => job.asked <= row[S].size
    /\ job.pc = "book" => job.got <= job.asked

LoadInv ==
    ExposureCap > 0 =>
       /\ Exposure(Holders) <= ExposureCap
       /\ Admitted => Exposure(Holders \ {S}) + OrderLots <= ExposureCap

LEMMA RowSizes ==
  ASSUME NEW r \in [Strategies -> Rows]
  PROVE  \A s \in Strategies : /\ r[s].size \in Nat
                               /\ r[s] = NoRow => r[s].size = 0
                               /\ r[s] # NoRow => r[s].size > 0 /\ r[s].side \in Sides
<1> SUFFICES ASSUME NEW s \in Strategies
             PROVE  /\ r[s].size \in Nat
                    /\ r[s] = NoRow => r[s].size = 0
                    /\ r[s] # NoRow => r[s].size > 0 /\ r[s].side \in Sides
  OBVIOUS
<1>1. r[s] \in Rows
  OBVIOUS
<1> QED
  BY <1>1 DEF Rows, NoRow

(* An order fills at most what it asked for. *)
LEMMA FillsBounded ==
  ASSUME pos \in [Coins -> Int], NEW o \in Orders, NEW k \in Fills(o)
  PROVE  k <= o.lots
<1>1. HeldOnSide(pos[o.coin], o.side) \in Nat /\ o.lots \in Nat
  BY HeldNat DEF Orders
<1>2. Takes(o) \in Nat /\ Takes(o) <= o.lots
  BY <1>1 DEF Takes
<1> QED
  BY <1>1, <1>2 DEF Fills

LEMMA NextAskInv == ASSUME TypeInv, AskInv, [Next]_vars PROVE AskInv'
<1>0. job \in Jobs /\ pos \in [Coins -> Int] /\ row \in [Strategies -> Rows]
  BY DEF TypeInv, TypeOK, BookTypeOK
<1>1. CASE UNCHANGED <<job, row>>
  BY <1>1 DEF AskInv, Sending, S
<1>2. CASE ~Trading'
  BY <1>2 DEF AskInv, Trading, Sending
<1>9. CASE RunStrategy
  BY <1>9 DEF RunStrategy, Signal, IdleJob, AskInv, Sending
<1>3. CASE BeginOpen /\ Trading'
  <2>1. /\ job'.pc = "send" => job'.leg = "open" /\ job'.asked = OrderLots
        /\ job'.pc = "resolve" => job'.leg = "close"
        /\ job'.pc \in {"send", "resolve"}
    BY <1>0, <1>3, BeginTrades DEF Jobs
  <2> QED
    BY <2>1 DEF AskInv, Sending
<1>4. CASE ResolveClose /\ Trading'
  <2>1. job.leg = "close" /\ S \in Strategies /\ row' = row /\ C \in Coins
    BY <1>4, ResolveTrades, BookAssumption DEF TypeInv, JobOK, AskInv, S, C
  <2>2. PICK n \in {row[S].size, HeldOnSide(pos[C], LegSide)} :
           /\ HeldOnSide(pos[C], LegSide) < row[S].size \/ n = row[S].size
           /\ job' = [job EXCEPT !.pc = "send", !.asked = n]
    BY <1>4, ResolveTrades
  <2>3. HeldOnSide(pos[C], LegSide) \in Nat /\ row[S].size \in Nat
    BY <1>0, <2>1, HeldNat, RowSizes
  <2>4. n <= row[S].size
    BY <2>2, <2>3
  <2>5. /\ job'.pc = "send" /\ job'.leg = "close" /\ job'.asked = n
        /\ job'.strat = job.strat
    BY <1>0, <2>1, <2>2 DEF Jobs
  <2> QED
    BY <2>1, <2>4, <2>5 DEF AskInv, S
<1>5. CASE OrderFills
  <2>1. job.pc = "send" /\ row' = row /\ Sending /\ job.asked \in Nat
    BY <1>0, <1>5 DEF OrderFills, Sending, Jobs
  <2>2. PICK k \in Fills(Order) : job' = [job EXCEPT !.pc = "book", !.got = k]
    BY <1>5 DEF OrderFills
  <2>3. k <= job.asked
    <3>1. Order \in Orders /\ Order.lots = job.asked
      BY <2>1, OrderTyped DEF Order
    <3> QED
      BY <1>0, <3>1, FillsBounded
  <2>4. /\ job'.pc = "book" /\ job'.got = k /\ job'.asked = job.asked
        /\ job'.leg = job.leg /\ job'.strat = job.strat
    BY <1>0, <2>2 DEF Jobs
  <2> QED
    BY <2>1, <2>3, <2>4 DEF AskInv, S
<1>6. CASE OrderTimesOut \/ PollSeesFill
  <2>1. row' = row /\ Sending /\ job.asked \in Nat
    BY <1>0, <1>6 DEF OrderTimesOut, PollSeesFill, NoTrade, account, Sending, Jobs
  <2>2. /\ job'.asked = job.asked /\ job'.leg = job.leg /\ job'.strat = job.strat
        /\ job'.pc = "book" => job'.got = job.asked
        /\ job'.pc \in {"poll", "book"}
    BY <1>0, <1>6 DEF OrderTimesOut, PollSeesFill, Jobs
  <2> QED
    BY <2>1, <2>2 DEF AskInv, S
<1>7. CASE VerifyParity /\ Trading'
  <2>1. job' = [job EXCEPT !.pc = "send", !.leg = "open", !.asked = OrderLots, !.got = 0,
                           !.why = "none"]
    BY <1>7, VerifyTrades
  <2>2. job'.pc = "send" /\ job'.leg = "open" /\ job'.asked = OrderLots
    BY <1>0, <2>1 DEF Jobs
  <2> QED
    BY <2>2 DEF AskInv
<1>8. UNCHANGED vars => UNCHANGED <<job, row>>
  BY DEF vars, bookVars
<1> QED
  BY <1>1, <1>2, <1>3, <1>4, <1>5, <1>6, <1>7, <1>8, <1>9, WhatSends DEF Next

(* What the rows in a set add up to, as a function of the table of rows. *)
LoadOf(r, D) == SumFunctionOnSet([t \in Strategies |-> r[t].size], D)

LEMMA LoadMono ==
  ASSUME NEW r \in [Strategies -> Rows], NEW q \in [Strategies -> Rows],
         NEW D \in SUBSET Strategies, NEW T \in SUBSET D,
         \A s \in T : r[s].size <= q[s].size
  PROVE  LoadOf(r, T) \in Int /\ LoadOf(q, D) \in Int /\ LoadOf(r, T) <= LoadOf(q, D)
<1> DEFINE w == [t \in Strategies |-> r[t].size]
           v == [t \in Strategies |-> q[t].size]
<1>1. \A s \in Strategies : w[s] \in Int /\ v[s] \in Nat /\ v[s] \in Int
  BY RowSizes
<1>2. IsFiniteSet(Strategies) /\ IsFiniteSet(D)
  BY BookAssumption, FS_Subset
<1>3. \A s \in T : w[s] <= v[s]
  OBVIOUS
<1> HIDE DEF w, v
<1>4. SumFunctionOnSet(w, T) \in Int /\ SumFunctionOnSet(v, D) \in Int
  <2>1. \A s \in Strategies : w[s] \in Int
    BY <1>1
  <2>2. \A s \in Strategies : v[s] \in Int
    BY <1>1
  <2>3. SumFunctionOnSet(w, T) \in Int
    BY <1>2, <2>1, SumInt
  <2>4. SumFunctionOnSet(v, D) \in Int
    BY <1>2, <2>2, SumInt
  <2> QED
    BY <2>3, <2>4
<1>5. SumFunctionOnSet(w, T) <= SumFunctionOnSet(v, D)
  <2>1. \A s \in D : w[s] \in Int /\ v[s] \in Nat
    BY <1>1
  <2> QED
    BY <1>2, <1>3, <2>1, SumMono
<1> QED
  BY <1>4, <1>5 DEF LoadOf, w, v

LEMMA LoadRemove ==
  ASSUME NEW r \in [Strategies -> Rows], NEW D \in SUBSET Strategies, NEW s \in D
  PROVE  LoadOf(r, D) = r[s].size + LoadOf(r, D \ {s})
<1> DEFINE w == [t \in Strategies |-> r[t].size]
<1>1. \A t \in Strategies : w[t] \in Int
  BY RowSizes
<1>2. w[s] = r[s].size
  OBVIOUS
<1> HIDE DEF w
<1>3. SumFunctionOnSet(w, D) = w[s] + SumFunctionOnSet(w, D \ {s})
  BY <1>1, BookAssumption, SumRemove
<1> QED
  BY <1>2, <1>3 DEF LoadOf, w

(* Rows that go or lose size, while nothing is newly admitted. *)
RowsLose == \A s \in Strategies : row'[s] = NoRow \/ (Holds(s) /\ row'[s].size <= row[s].size)

LEMMA LosingKeepsLoad ==
  ASSUME TypeInv, TypeInv', LoadInv, RowsLose, NotNewlyAdmitted PROVE LoadInv'
<1> SUFFICES ASSUME ExposureCap > 0 PROVE LoadInv'
  BY DEF LoadInv
<1>0. row \in [Strategies -> Rows] /\ row' \in [Strategies -> Rows] /\ ExposureCap \in Nat
      /\ OrderLots \in Nat
  BY BookAssumption DEF TypeInv, TypeOK, BookTypeOK
<1>1. Holders' \subseteq Holders /\ Holders \subseteq Strategies
      /\ \A s \in Holders' : row'[s].size <= row[s].size
  BY DEF RowsLose, Holders, Holds
<1>2. Exposure(Holders)' <= ExposureCap
  <2>1. LoadOf(row, Holders) <= ExposureCap
    BY DEF LoadInv, Exposure, LoadOf
  <2>2. /\ LoadOf(row', Holders') \in Int /\ LoadOf(row, Holders) \in Int
        /\ LoadOf(row', Holders') <= LoadOf(row, Holders)
    BY <1>0, <1>1, LoadMono
  <2>3. LoadOf(row', Holders') <= ExposureCap
    BY <1>0, <2>1, <2>2
  <2> QED
    BY <2>3 DEF Exposure, LoadOf
<1>3. ASSUME Admitted' PROVE Exposure(Holders \ {S})' + OrderLots <= ExposureCap
  <2>1. Admitted /\ job'.strat = job.strat
    BY <1>3 DEF NotNewlyAdmitted
  <2>2. LoadOf(row, Holders \ {S}) + OrderLots <= ExposureCap
    BY <2>1 DEF LoadInv, Exposure, LoadOf
  <2>3. /\ LoadOf(row', Holders' \ {S}) \in Int /\ LoadOf(row, Holders \ {S}) \in Int
        /\ LoadOf(row', Holders' \ {S}) <= LoadOf(row, Holders \ {S})
    <3>1. /\ Holders' \ {S} \in SUBSET (Holders \ {S}) /\ Holders \ {S} \in SUBSET Strategies
          /\ \A s \in Holders' \ {S} : row'[s].size <= row[s].size
      BY <1>1
    <3> QED
      BY <1>0, <3>1, LoadMono
  <2>4. LoadOf(row', Holders' \ {S}) + OrderLots <= ExposureCap
    BY <1>0, <2>2, <2>3
  <2>5. Exposure(Holders \ {S})' = LoadOf(row', Holders' \ {S})
    BY <2>1 DEF Exposure, LoadOf, S
  <2> QED
    BY <2>4, <2>5
<1> QED
  BY <1>2, <1>3 DEF LoadInv

LEMMA GoingLoses == ASSUME TypeInv, RowsGo PROVE RowsLose
<1>1. ASSUME NEW s \in Strategies, row'[s] # NoRow
      PROVE  Holds(s) /\ row'[s].size <= row[s].size
  <2>1. row'[s] = row[s] /\ row[s].size \in Nat
    BY <1>1, RowSizes DEF RowsGo, TypeInv, TypeOK, BookTypeOK
  <2> QED
    BY <1>1, <2>1 DEF Holds
<1> QED
  BY <1>1 DEF RowsLose

LEMMA BeginKeepsLoad ==
  ASSUME RowInv, TypeInv', LoadInv, BeginOpen PROVE LoadInv'
<1>0. /\ TypeInv /\ job.pc = "begin" /\ job \in Jobs /\ row' = row
      /\ job.leg = "close" /\ ~job.flip
  BY DEF BeginOpen, NoTrade, account, RowInv, TypeInv, TypeOK, JobOK
<1>1. CASE \/ Done \/ Raise
           \/ job' = [job EXCEPT !.pc = "resolve", !.flip = TRUE, !.refused = TRUE]
  <2>1. NotNewlyAdmitted
    <3>1. CASE Done
      BY <3>1 DEF Done, IdleJob, NotNewlyAdmitted, Admitted
    <3>2. CASE Raise
      BY <1>0, <3>2 DEF Raise, GotoBecause, NotNewlyAdmitted, Admitted, Jobs
    <3>3. CASE job' = [job EXCEPT !.pc = "resolve", !.flip = TRUE, !.refused = TRUE]
      BY <1>0, <3>3 DEF NotNewlyAdmitted, Admitted, Jobs
    <3> QED
      BY <1>1, <3>1, <3>2, <3>3
  <2>2. RowsLose
    BY <1>0, GoingLoses DEF RowsGo
  <2> QED
    BY <1>0, <2>1, <2>2, LosingKeepsLoad
<1>2. CASE /\ ~Refused(S, job.want)
           /\ \/ job' = [job EXCEPT !.pc = "send", !.leg = "open", !.asked = OrderLots]
              \/ job' = [job EXCEPT !.pc = "resolve", !.flip = TRUE]
  <2> SUFFICES ASSUME ExposureCap > 0 PROVE LoadInv'
    BY DEF LoadInv
  <2>1. job'.strat = job.strat
    BY <1>0, <1>2 DEF Jobs
  <2>2. ~(Exposure(Holders \ {S}) + OrderLots > ExposureCap)
    BY <1>2 DEF Refused
  <2>3. Exposure(Holders \ {S}) \in Int
    <3>1. /\ row \in [Strategies -> Rows] /\ Holders \ {S} \in SUBSET Strategies
          /\ \A s \in Strategies : row[s].size <= row[s].size
      BY <1>0, RowSizes DEF TypeInv, TypeOK, BookTypeOK, Holders
    <3>2. LoadOf(row, Holders \ {S}) \in Int
      BY <3>1, LoadMono
    <3> QED
      BY <3>2 DEF LoadOf, Exposure
  <2>4. Exposure(Holders \ {S}) + OrderLots <= ExposureCap
    BY <2>2, <2>3, BookAssumption
  <2>5. Exposure(Holders)' = Exposure(Holders) /\ Exposure(Holders \ {S})' = Exposure(Holders \ {S})
    BY <1>0, <2>1 DEF Exposure, Holders, Holds, S
  <2> QED
    BY <2>4, <2>5 DEF LoadInv
<1> QED
  BY <1>1, <1>2 DEF BeginOpen

LEMMA OpenFillKeepsLoad ==
  ASSUME TypeInv, TypeInv', AskInv, LoadInv, BookFill, job.leg = "open" PROVE LoadInv'
<1> SUFFICES ASSUME ExposureCap > 0 PROVE LoadInv'
  BY DEF LoadInv
<1>0. /\ job.pc = "book" /\ S \in Strategies /\ job \in Jobs /\ Sending
      /\ row \in [Strategies -> Rows] /\ row' \in [Strategies -> Rows]
      /\ ExposureCap \in Nat /\ OrderLots \in Nat /\ job.got \in Nat /\ job.got > 0
  BY BookAssumption DEF BookFill, TypeInv, TypeOK, BookTypeOK, JobOK, S, Sending, Jobs
<1>1. row' = [row EXCEPT ![S] = [side |-> job.want, size |-> job.got]]
  BY DEF BookFill, BookedRow
<1>2. row'[S].size = job.got /\ job.got <= OrderLots
  BY <1>0, <1>1 DEF AskInv
<1>3. job'.strat = job.strat
  BY <1>0 DEF BookFill, Goto, Jobs
<1>4. Holders' = Holders \union {S} /\ Holders \subseteq Strategies
  <2>1. \A s \in Strategies : s # S => row'[s] = row[s]
    BY <1>1
  <2>2. row'[S] # NoRow
    BY <1>0, <1>2 DEF NoRow
  <2> QED
    BY <1>0, <2>1, <2>2 DEF Holders, Holds
<1> DEFINE rest == Holders \ {S}
<1>5. LoadOf(row, rest) + OrderLots <= ExposureCap
  BY <1>0 DEF LoadInv, Admitted, Exposure, LoadOf
<1>6. /\ LoadOf(row', rest) \in Int /\ LoadOf(row, rest) \in Int
      /\ LoadOf(row', rest) <= LoadOf(row, rest)
  <2>1. \A s \in rest : row'[s].size <= row[s].size
    BY <1>0, <1>1, <1>4, RowSizes
  <2>2. rest \in SUBSET Strategies
    BY <1>4
  <2> HIDE DEF rest
  <2> QED
    BY <1>0, <2>1, <2>2, LoadMono
<1>7. LoadOf(row', Holders') = job.got + LoadOf(row', rest)
  <2>1. S \in Holders' /\ Holders' \in SUBSET Strategies /\ Holders' \ {S} = rest
    BY <1>0, <1>4
  <2>2. LoadOf(row', Holders') = row'[S].size + LoadOf(row', Holders' \ {S})
    BY <1>0, <2>1, LoadRemove
  <2> QED
    BY <1>2, <2>1, <2>2
<1>8. LoadOf(row', Holders') <= ExposureCap /\ LoadOf(row', rest) + OrderLots <= ExposureCap
  <2> HIDE DEF rest
  <2> QED
    BY <1>0, <1>2, <1>5, <1>6, <1>7
<1>9. Exposure(Holders)' = LoadOf(row', Holders') /\ Exposure(Holders \ {S})' = LoadOf(row', rest)
  BY <1>3, <1>4 DEF Exposure, LoadOf, S
<1> QED
  BY <1>8, <1>9 DEF LoadInv

LEMMA CloseFillLoses ==
  ASSUME TypeInv, AskInv, BookFill, job.leg # "open" PROVE RowsLose
<1>0. /\ job.pc = "book" /\ Sending /\ job.leg = "close" /\ job.asked \in Nat /\ job.got \in Nat
      /\ S \in Strategies /\ Holds(S) /\ row \in [Strategies -> Rows]
  BY DEF BookFill, TypeInv, TypeOK, BookTypeOK, JobOK, Sending, Jobs, Legs, S
<1>1. job.asked <= row[S].size /\ row[S].size \in Nat
  BY <1>0, RowSizes DEF AskInv
<1>2. BookedRow = NoRow \/ BookedRow.size <= row[S].size
  <2>1. CASE Remaining > 0
    <3>1. BookedRow = [row[S] EXCEPT !.size = Remaining] /\ row[S] \in Rows
      BY <1>0, <2>1 DEF BookedRow
    <3>2. BookedRow.size = Remaining
      BY <3>1 DEF Rows, NoRow
    <3>3. Remaining = job.asked - job.got
      BY <1>0 DEF Remaining
    <3> QED
      BY <1>0, <1>1, <3>2, <3>3
  <2> QED
    BY <1>0, <2>1 DEF BookedRow
<1>3. row' = [row EXCEPT ![S] = BookedRow]
  BY DEF BookFill
<1>4. ASSUME NEW s \in Strategies, row'[s] # NoRow
      PROVE  Holds(s) /\ row'[s].size <= row[s].size
  <2>1. CASE s = S
    BY <1>0, <1>2, <1>3, <1>4, <2>1
  <2>2. CASE s # S
    BY <1>0, <1>3, <1>4, <2>2, RowSizes DEF Holds
  <2> QED
    BY <2>1, <2>2
<1> QED
  BY <1>4 DEF RowsLose

LEMMA NextLoadInv ==
  ASSUME RowInv, RowInv', AskInv, LoadInv, [Next]_vars PROVE LoadInv'
<1>0. TypeInv /\ TypeInv'
  BY DEF RowInv
<1>1. CASE UNCHANGED vars
  <2>1. job' = job /\ row' = row
    BY <1>1 DEF vars, bookVars
  <2>2. NotNewlyAdmitted
    BY <2>1 DEF NotNewlyAdmitted, Admitted
  <2> QED
    BY <1>0, <2>1, <2>2, GoingLoses, LosingKeepsLoad DEF RowsGo
<1>2. CASE BeginOpen
  BY <1>0, <1>2, BeginKeepsLoad
<1>3. CASE BookFill
  BY <1>0, <1>3, OpenFillKeepsLoad, CloseFillShrinks, CloseFillLoses, LosingKeepsLoad
<1>4. CASE Next /\ ~BeginOpen /\ ~BookFill
  <2>1. RowsGo /\ NotNewlyAdmitted
    BY <1>0, <1>4, SignalStepsGo, OthersGo DEF Next, ExecuteSignal
  <2> QED
    BY <1>0, <2>1, GoingLoses, LosingKeepsLoad
<1> QED
  BY <1>1, <1>2, <1>3, <1>4

LEMMA LoadSafe == Spec => [](AskInv /\ LoadInv)
<1>1. Init => AskInv /\ LoadInv
  <2> SUFFICES ASSUME Init PROVE AskInv /\ LoadInv
    OBVIOUS
  <2>1. Holders = {} /\ ~Admitted /\ job.pc = "idle"
    BY DEF Init, BookInit, Holders, Holds, IdleJob, Admitted
  <2>2. Exposure(Holders) = 0
    BY <2>1, SumEmpty DEF Exposure
  <2> QED
    BY <2>1, <2>2, BookAssumption DEF AskInv, LoadInv, Sending
<1>2. RowInv /\ RowInv' /\ AskInv /\ LoadInv /\ [Next]_vars => AskInv' /\ LoadInv'
  BY NextAskInv, NextLoadInv DEF RowInv
<1> QED
  BY <1>1, <1>2, RowsSafe, PTL DEF Spec

(* Whatever is booked late, in part or by a flip's second order: the open  *)
(* rows never add up to more than the cap, although the cap was compared   *)
(* with the rows of the others several awaits before.                      *)
THEOREM ExposureCapped == Spec => []ExposureWithinCap
<1>1. LoadInv => ExposureWithinCap
  BY DEF LoadInv, ExposureWithinCap
<1> QED
  BY <1>1, LoadSafe, PTL

-----------------------------------------------------------------------------
(* The books.  What the rows of a coin net to, as a function of the table. *)
NetOf(r, c) == SumFunctionOnSet([s \in Strategies |-> Signed(r[s].side, r[s].size)],
                                {s \in Strategies : r[s] # NoRow /\ CoinOf[s] = c})
Weight(entry) == Signed(entry.side, entry.size)

LEMMA NetIs == \A c : Net(c) = NetOf(row, c)
<1> SUFFICES ASSUME NEW c PROVE Net(c) = NetOf(row, c)
  OBVIOUS
<1>1. HoldersOn(c) = {s \in Strategies : row[s] # NoRow /\ CoinOf[s] = c}
  BY DEF HoldersOn, Holders, Holds
<1> QED
  BY <1>1 DEF Net, NetOf

LEMMA Weights ==
  ASSUME NEW r \in [Strategies -> Rows], NEW s \in Strategies
  PROVE  /\ Weight(r[s]) \in Int
         /\ r[s] = NoRow => Weight(r[s]) = 0
         /\ r[s] # NoRow /\ r[s].side = "long" => Weight(r[s]) = r[s].size
         /\ r[s] # NoRow /\ r[s].side = "short" => Weight(r[s]) = -r[s].size
  BY RowSizes DEF Weight, Signed, NoRow, Sides

LEMMA NetParts ==
  ASSUME NEW r \in [Strategies -> Rows], NEW c
  PROVE  /\ NetOf(r, c) \in Int
         /\ (\A s \in Strategies : CoinOf[s] = c => r[s] = NoRow) => NetOf(r, c) = 0
<1> DEFINE w == [s \in Strategies |-> Signed(r[s].side, r[s].size)]
           D == {s \in Strategies : r[s] # NoRow /\ CoinOf[s] = c}
<1>1. \A s \in Strategies : w[s] \in Int
  BY Weights DEF Weight
<1>2. D \in SUBSET Strategies
  OBVIOUS
<1>3. (\A s \in Strategies : CoinOf[s] = c => r[s] = NoRow) => D = {}
  OBVIOUS
<1> HIDE DEF w, D
<1>4. SumFunctionOnSet(w, D) \in Int
  BY <1>1, <1>2, BookAssumption, SumInt
<1>5. D = {} => SumFunctionOnSet(w, D) = 0
  BY SumEmpty
<1> QED
  BY <1>3, <1>4, <1>5 DEF NetOf, w, D

(* One row changes: the net of its coin changes by as much. *)
LEMMA NetChange ==
  \A r, q \in [Strategies -> Rows] : \A s \in Strategies : \A c :
     (\A t \in Strategies : t # s => q[t] = r[t])
     => NetOf(q, c) = NetOf(r, c) + (IF c = CoinOf[s] THEN Weight(q[s]) - Weight(r[s]) ELSE 0)
<1> SUFFICES ASSUME NEW r \in [Strategies -> Rows], NEW q \in [Strategies -> Rows],
                    NEW s \in Strategies, NEW c, \A t \in Strategies : t # s => q[t] = r[t]
             PROVE  NetOf(q, c) = NetOf(r, c)
                                  + (IF c = CoinOf[s] THEN Weight(q[s]) - Weight(r[s]) ELSE 0)
  OBVIOUS
<1> DEFINE w == [t \in Strategies |-> Signed(r[t].side, r[t].size)]
           v == [t \in Strategies |-> Signed(q[t].side, q[t].size)]
           R == {t \in Strategies : r[t] # NoRow /\ CoinOf[t] = c}
           Q == {t \in Strategies : q[t] # NoRow /\ CoinOf[t] = c}
           D == {t \in Strategies : r[t] # NoRow /\ CoinOf[t] = c /\ t # s}
<1>1. \A t \in Strategies : w[t] \in Int /\ v[t] \in Int
  BY Weights DEF Weight
<1>2. \A t \in D : w[t] = v[t]
  OBVIOUS
<1>3. D = R \ {s} /\ D = Q \ {s} /\ R \subseteq Strategies /\ Q \subseteq Strategies
  OBVIOUS
<1>4. w[s] = Weight(r[s]) /\ v[s] = Weight(q[s])
  BY DEF Weight
<1>5. /\ s \notin R => D = R /\ (c = CoinOf[s] => w[s] = 0)
      /\ s \notin Q => D = Q /\ (c = CoinOf[s] => v[s] = 0)
      /\ s \in R => c = CoinOf[s]
      /\ s \in Q => c = CoinOf[s]
  BY <1>4, Weights
<1> HIDE DEF w, v, R, Q, D
<1>6. IsFiniteSet(Strategies) /\ IsFiniteSet(D)
  BY <1>3, BookAssumption, FS_Subset
<1>7. SumFunctionOnSet(w, D) = SumFunctionOnSet(v, D) /\ SumFunctionOnSet(w, D) \in Int
  <2>1. \A t \in Strategies : w[t] \in Int
    BY <1>1
  <2>2. SumFunctionOnSet(w, D) \in Int
    BY <1>3, <1>6, <2>1, SumInt
  <2>3. SumFunctionOnSet(w, D) = SumFunctionOnSet(v, D)
    BY <1>2, <1>6, SumSame
  <2> QED
    BY <2>2, <2>3
<1>8. SumFunctionOnSet(w, R) = SumFunctionOnSet(w, D) + (IF c = CoinOf[s] THEN w[s] ELSE 0)
  <2>1. CASE s \in R
    <3>1. \A t \in Strategies : w[t] \in Int
      BY <1>1
    <3>2. SumFunctionOnSet(w, R) = w[s] + SumFunctionOnSet(w, R \ {s})
      BY <1>3, <1>6, <2>1, <3>1, SumRemove
    <3> QED
      BY <1>1, <1>3, <1>5, <1>7, <2>1, <3>2
  <2>2. CASE s \notin R
    BY <1>1, <1>5, <1>7, <2>2
  <2> QED
    BY <2>1, <2>2
<1>9. SumFunctionOnSet(v, Q) = SumFunctionOnSet(v, D) + (IF c = CoinOf[s] THEN v[s] ELSE 0)
  <2>1. CASE s \in Q
    <3>1. \A t \in Strategies : v[t] \in Int
      BY <1>1
    <3>2. SumFunctionOnSet(v, Q) = v[s] + SumFunctionOnSet(v, Q \ {s})
      BY <1>3, <1>6, <2>1, <3>1, SumRemove
    <3>3. D = Q \ {s} /\ c = CoinOf[s] /\ v[s] \in Int
      BY <1>1, <1>3, <1>5, <2>1
    <3> QED
      BY <1>7, <3>2, <3>3
  <2>2. CASE s \notin Q
    BY <1>1, <1>5, <1>7, <2>2
  <2> QED
    BY <2>1, <2>2
<1>10. SumFunctionOnSet(v, Q) = SumFunctionOnSet(w, R)
                                + (IF c = CoinOf[s] THEN v[s] - w[s] ELSE 0)
  BY <1>1, <1>7, <1>8, <1>9
<1> QED
  BY <1>4, <1>10 DEF NetOf, w, v, R, Q

(* Rows that face one way net to at least each of them. *)
LEMMA NetHeld ==
  ASSUME NEW r \in [Strategies -> Rows], NEW s \in Strategies, r[s] # NoRow,
         \A t \in Strategies : r[t] # NoRow /\ CoinOf[t] = CoinOf[s] => r[t].side = r[s].side
  PROVE  HeldOnSide(NetOf(r, CoinOf[s]), r[s].side) >= r[s].size
<1> DEFINE w == [t \in Strategies |-> Signed(r[t].side, r[t].size)]
           R == {t \in Strategies : r[t] # NoRow /\ CoinOf[t] = CoinOf[s]}
           D == R \ {s}
<1>1. \A t \in Strategies : w[t] \in Int
  BY Weights DEF Weight
<1>2. /\ s \in R /\ R \subseteq Strategies /\ D \subseteq Strategies
      /\ w[s] = Weight(r[s]) /\ r[s].size \in Nat /\ r[s].side \in Sides /\ r[s].size > 0
  BY RowSizes DEF Weight
<1>3. ASSUME NEW t \in D
      PROVE  /\ r[s].side = "long" => w[t] >= 0
             /\ r[s].side = "short" => w[t] <= 0
  <2>1. t \in Strategies /\ r[t] # NoRow /\ r[t].side = r[s].side /\ w[t] = Weight(r[t])
    BY DEF Weight
  <2>2. r[t].size \in Nat
    BY <2>1, RowSizes
  <2> HIDE DEF w, D
  <2> QED
    BY <2>1, <2>2, Weights
<1> HIDE DEF w, R, D
<1>4. IsFiniteSet(Strategies) /\ IsFiniteSet(D)
  BY <1>2, BookAssumption, FS_Subset
<1>5. /\ SumFunctionOnSet(w, D) \in Int
      /\ r[s].side = "long" => SumFunctionOnSet(w, D) >= 0
      /\ r[s].side = "short" => SumFunctionOnSet(w, D) <= 0
  <2>1. SumFunctionOnSet(w, D) \in Int
    BY <1>1, <1>2, <1>4, SumInt
  <2>2. \A t \in D : w[t] \in Int
    BY <1>1, <1>2
  <2>3. /\ (\A t \in D : w[t] >= 0) => SumFunctionOnSet(w, D) >= 0
        /\ (\A t \in D : w[t] <= 0) => SumFunctionOnSet(w, D) <= 0
    BY <1>4, <2>2, SumSign
  <2> QED
    BY <1>3, <2>1, <2>3
<1>6. SumFunctionOnSet(w, R) = w[s] + SumFunctionOnSet(w, D)
  <2>1. SumFunctionOnSet(w, R) = w[s] + SumFunctionOnSet(w, R \ {s})
    BY <1>1, <1>2, <1>4, SumRemove
  <2> QED
    BY <2>1 DEF D
<1>7. /\ r[s].side = "long" => w[s] = r[s].size
      /\ r[s].side = "short" => w[s] = -r[s].size
  BY <1>2, Weights
<1>8. NetOf(r, CoinOf[s]) = SumFunctionOnSet(w, R)
  BY DEF NetOf, w, R
<1>9. /\ r[s].side = "long" => NetOf(r, CoinOf[s]) >= r[s].size
      /\ r[s].side = "short" => -NetOf(r, CoinOf[s]) >= r[s].size
      /\ NetOf(r, CoinOf[s]) \in Int
  <2> DEFINE sum == SumFunctionOnSet(w, D)
             ws == w[s]
             size == r[s].size
             net == NetOf(r, CoinOf[s])
             side == r[s].side
  <2>1. net = ws + sum
    BY <1>6, <1>8
  <2>2. side \in Sides /\ size \in Nat
    BY <1>2
  <2>3. (side = "long" => ws = size) /\ (side = "short" => ws = -size)
    BY <1>7
  <2>4. sum \in Int /\ (side = "long" => sum >= 0) /\ (side = "short" => sum <= 0)
    BY <1>5
  <2> HIDE DEF sum, ws, size, net, side
  <2>5. /\ side = "long" => net >= size
        /\ side = "short" => -net >= size
        /\ net \in Int
    BY <2>1, <2>2, <2>3, <2>4 DEF Sides
  <2> QED
    BY <2>5 DEF net, side, size
<1> QED
  BY <1>2, <1>9 DEF HeldOnSide, Sides

-----------------------------------------------------------------------------
(* What a leg has left behind once its order is answered. *)
Answered == job.pc \in {"verify", "unfilled", "confirm", "recheck", "settle"}

LegInv ==
    /\ Sending /\ job.leg = "open" => ~Holds(S)
    /\ job.pc = "verify" /\ job.leg = "close" /\ Remaining = 0 => ~Holds(S)
    /\ job.pc \in {"confirm", "recheck", "settle"} => job.leg = "close"
    /\ job.pc \in {"unfilled", "confirm", "recheck", "settle"} /\ job.leg = "close" => Holds(S)

(* The steps after which an answer is being dealt with. *)
LEMMA WhatFollows ==
  ASSUME TypeInv, Step, Answered'
  PROVE  \/ BookFill \/ OrderRefused \/ OrderTimesOutUnread \/ PollGivesUp \/ CloseNotFilled
         \/ ConfirmClose /\ Goto(IF job.pc = "confirm" THEN "recheck" ELSE "settle")
         \/ UNCHANGED <<job, row>> /\ Environment
<1>0. job \in Jobs /\ job'.pc \in {"verify", "unfilled", "confirm", "recheck", "settle"}
  BY DEF TypeInv, TypeOK, Answered
<1>1. CASE job.pc = "idle"
  <2>1. CASE job' = job
    BY <1>0, <1>1, <2>1
  <2>2. CASE Crash
    BY <1>0, <2>2 DEF Crash, IdleJob
  <2>3. CASE RunStrategy
    BY <1>0, <2>3 DEF RunStrategy, Signal, IdleJob
  <2> QED
    BY <1>1, <2>1, <2>2, <2>3, IdleJobWaits
<1>2. CASE job.pc # "idle" /\ ExecuteSignal
  <2>0. ASSUME NEW pc \in {"send", "poll", "book", "resolve", "align", "raised"},
               Goto(pc) \/ \E why : GotoBecause(pc, why)
        PROVE  FALSE
    BY <1>0, <2>0 DEF Goto, GotoBecause, Jobs
  <2>1. ~Done
    BY <1>0 DEF Done, IdleJob
  <2>2. ~LegFailed /\ ~Raise
    BY <2>0, <2>1 DEF LegFailed, Raise
  <2>3. ~(BeginOpen \/ ResolveClose)
    <3>1. ~Trading'
      BY <1>0 DEF Trading, Sending
    <3>2. ~BeginOpen
      BY <1>0, <2>1, <2>2 DEF BeginOpen, Jobs
    <3>3. ~ResolveClose
      BY <1>0, <2>1, <2>2 DEF ResolveClose, Jobs
    <3> QED
      BY <3>2, <3>3
  <2>4. ~OrderFills /\ ~OrderTimesOut /\ ~PollSeesFill
    BY <1>0 DEF OrderFills, OrderTimesOut, PollSeesFill, Jobs
  <2>5. ~LegSucceeded
    BY <1>0, <2>1 DEF LegSucceeded, Jobs
  <2>6. ~BookFails /\ ~PnlReadFails /\ ~VerifyParity /\ ~OpenNotFilled /\ ~CloseDropped
    BY <2>0, <2>1, <2>2, <2>5 DEF BookFails, PnlReadFails, VerifyParity, OpenNotFilled, CloseDropped
  <2>7. ~SettleExternal /\ ~Align /\ ~RaiseHandled /\ ~StillHeld
    BY <2>0, <2>1, <2>2 DEF SettleExternal, Align, RaiseHandled, StillHeld
  <2>8. ConfirmClose => Goto(IF job.pc = "confirm" THEN "recheck" ELSE "settle")
    BY <2>7 DEF ConfirmClose
  <2> QED
    BY <1>2, <2>3, <2>4, <2>6, <2>7, <2>8 DEF ExecuteSignal, SignalStep, PlaceOrder
<1>3. CASE Crash
  BY <1>0, <1>3 DEF Crash, IdleJob
<1>4. CASE Environment
  BY <1>4, EnvironmentKeeps
<1> QED
  BY <1>1, <1>2, <1>3, <1>4, JobRunsAlone

LEMMA NextLegInv == ASSUME TypeInv, AskInv, LegInv, [Next]_vars PROVE LegInv'
<1>0. job \in Jobs /\ row \in [Strategies -> Rows]
  BY DEF TypeInv, TypeOK, BookTypeOK
<1>1. CASE UNCHANGED <<job, row>>
  BY <1>1 DEF LegInv, Sending, S, Holds, Remaining
<1>2. CASE ~Trading' /\ ~Answered'
  BY <1>2 DEF LegInv, Trading, Answered, Sending
<1>3. CASE RunStrategy
  BY <1>3 DEF RunStrategy, Signal, IdleJob, LegInv, Sending
<1>4. CASE BeginOpen /\ Trading'
  <2>1. /\ row' = row /\ job'.strat = job.strat
        /\ (job'.pc = "send" /\ ~Holds(S)) \/ job'.pc = "resolve"
    BY <1>0, <1>4, BeginTrades DEF Jobs
  <2> QED
    BY <2>1 DEF LegInv, Sending, Holds, S
<1>5. CASE ResolveClose /\ Trading'
  <2>1. job'.pc = "send" /\ job'.leg = job.leg /\ job.leg = "close"
    BY <1>0, <1>5, ResolveTrades DEF Jobs, AskInv
  <2> QED
    BY <2>1 DEF LegInv, Sending
<1>6. CASE OrderFills \/ OrderTimesOut \/ PollSeesFill
  <2>1. row' = row /\ Sending
    BY <1>6 DEF OrderFills, OrderTimesOut, PollSeesFill, NoTrade, account, Sending
  <2>2. job'.leg = job.leg /\ job'.strat = job.strat /\ job'.pc \in {"poll", "book"}
    BY <1>0, <1>6 DEF OrderFills, OrderTimesOut, PollSeesFill, Jobs
  <2> QED
    BY <2>1, <2>2 DEF LegInv, Sending, Holds, S
<1>7. CASE VerifyParity /\ Trading'
  <2>1. /\ job.pc = "verify" /\ job.leg = "close" /\ Remaining = 0 /\ row' = row
        /\ job'.pc = "send" /\ job'.strat = job.strat
    BY <1>0, <1>7, VerifyTrades DEF Jobs
  <2> QED
    BY <2>1 DEF LegInv, Sending, Holds, S
<1>8. CASE BookFill
  <2>1. /\ job.pc = "book" /\ Sending /\ S \in Strategies /\ job.got \in Nat /\ job.asked \in Nat
        /\ row' = [row EXCEPT ![S] = BookedRow]
    BY <1>0, <1>8 DEF BookFill, TypeInv, JobOK, S, Sending, Jobs
  <2>2. /\ job'.pc = "verify" /\ job'.leg = job.leg /\ job'.strat = job.strat
        /\ job'.asked = job.asked /\ job'.got = job.got
    BY <1>0, <1>8 DEF BookFill, Goto, Jobs
  <2>3. ASSUME job.leg = "close", Remaining = 0 PROVE ~Holds(S)'
    BY <1>0, <2>1, <2>2, <2>3 DEF BookedRow, Holds, S
  <2> QED
    BY <2>2, <2>3 DEF LegInv, Sending, Remaining
<1>9. CASE OrderRefused \/ OrderTimesOutUnread \/ PollGivesUp
  <2>1. row' = row /\ Sending
    BY <1>9 DEF OrderRefused, OrderTimesOutUnread, PollGivesUp, NoTrade, account, Sending
  <2>2. job'.leg = job.leg /\ job'.strat = job.strat /\ job'.pc = "unfilled"
    BY <1>0, <1>9 DEF OrderRefused, OrderTimesOutUnread, PollGivesUp, GotoBecause, Jobs
  <2> QED
    BY <2>1, <2>2 DEF LegInv, Sending, Holds, S, TypeInv, JobOK
<1>10. CASE CloseNotFilled
  <2>1. /\ row' = row /\ job.pc = "unfilled" /\ job.leg = "close"
        /\ job'.leg = job.leg /\ job'.strat = job.strat /\ job'.pc = "confirm"
    BY <1>0, <1>10 DEF CloseNotFilled, NoTrade, account, Goto, Jobs
  <2> QED
    BY <2>1 DEF LegInv, Sending, Holds, S
<1>11. CASE ConfirmClose /\ Goto(IF job.pc = "confirm" THEN "recheck" ELSE "settle")
  <2>1. /\ row' = row /\ job.pc \in {"confirm", "recheck"}
        /\ job'.leg = job.leg /\ job'.strat = job.strat /\ job'.pc \in {"recheck", "settle"}
    BY <1>0, <1>11 DEF ConfirmClose, Goto, Jobs
  <2> QED
    BY <2>1 DEF LegInv, Sending, Holds, S
<1>12. UNCHANGED vars => UNCHANGED <<job, row>>
  BY DEF vars, bookVars
<1> QED
  BY <1>1, <1>2, <1>3, <1>4, <1>5, <1>6, <1>7, <1>8, <1>9, <1>10, <1>11, <1>12,
     WhatSends, WhatFollows DEF Next

(* What the rows and the exchange tell of each other, as long as every     *)
(* change of the account was the bot's own and answered: they agree on     *)
(* every coin but the one an order has just filled on.                     *)
Agree == \A c \in Coins : Net(c) = pos[c]

Booking == IF job.leg = "open" THEN Signed(job.want, job.got) ELSE -Signed(row[S].side, job.got)

JobBooks ==
    /\ job.pc \notin {"poll", "recheck", "settle"}
    /\ job.pc \in {"send", "book"} /\ job.leg = "close" => job.asked = row[S].size
    /\ job.pc = "book" => \A c \in Coins : pos[c] = Net(c) + IF c = C THEN Booking ELSE 0

PassBooks ==
    /\ pass.pc \notin {"confirm", "apply", "again", "close", "poll"}
    /\ pass.pc = "orphans" => pass.seen = pos

FlatBooks ==
    /\ flat.pc # "poll"
    /\ flat.pc \in {"close", "book"} => \A c \in flat.left : flat.seen[c] = pos[c]
    /\ flat.pc = "book" => \E c \in Coins : /\ pos[c] = 0 /\ HoldersOn(c) = flat.rows
                                            /\ \A d \in Coins \ {c} : Net(d) = pos[d]

BookedInv ==
    clean => /\ inflight = {} /\ JobBooks /\ PassBooks /\ FlatBooks
             /\ job.pc # "book" /\ flat.pc # "book" => Agree

(* No request, no flat-all. *)
RequestInv == MaxRequests = 0 => asked = 0 /\ done = 0 /\ flat.pc = "idle"

LEMMA NextRequestInv == ASSUME TypeInv, RequestInv, [Next]_vars PROVE RequestInv'
<1> SUFFICES ASSUME MaxRequests = 0 PROVE RequestInv'
  BY DEF RequestInv
<1>0. asked = 0 /\ done = 0 /\ flat.pc = "idle"
  BY DEF RequestInv
<1>1. CASE UNCHANGED vars
  BY <1>0, <1>1 DEF vars, flatVars, RequestInv
<1>2. CASE Step
  <2>1. ~RunFlatAll
    BY <1>0 DEF RunFlatAll, FlatStep, FlatRead, FlatClose, FlatPoll, FlatBookRow, FlatBookFails,
       FlatBooked, FlatSettle, FlatAck, FlatGivenUp
  <2>2. ~StartFlatAll
    BY <1>0 DEF StartFlatAll, BeginFlatAll, Pending
  <2>3. ~RequestFlatAll
    BY <1>0 DEF RequestFlatAll
  <2>4. CASE Crash
    BY <1>0, <2>4 DEF Crash, IdleFlat, RequestInv
  <2>5. CASE ~Crash
    <3>1. UNCHANGED flatVars
      BY <1>2, <2>1, <2>2, <2>3, <2>5 DEF Step, Boot, Restore, TickWithPass, TickWithoutPass,
         ReadPaused, RunStrategy, EndTick, ExecuteSignal, ReconcilePass, Environment
    <3> QED
      BY <1>0, <3>1 DEF flatVars, RequestInv
  <2> QED
    BY <2>4, <2>5
<1> QED
  BY <1>1, <1>2 DEF Next

(* A clean account was clean before. *)
LEMMA CleanGoes == ASSUME Step, clean' PROVE clean
<1>1. CASE ExecuteSignal
  BY <1>1 DEF ExecuteSignal, SignalStep, BeginOpen, ResolveClose, PlaceOrder, OrderFills,
     OrderRefused, OrderTimesOut, OrderTimesOutUnread, PollSeesFill,
     PollGivesUp, BookFill, BookFails, PnlReadFails,
     VerifyParity, OpenNotFilled, CloseDropped, CloseNotFilled, ConfirmClose, SettleExternal,
     Align, RaiseHandled, NoTrade, account
<1>2. CASE ReconcilePass
  BY <1>2 DEF ReconcilePass, PassStep, ReadExchange, ConfirmRead, CloseRows, FindOrphans,
     ReadAgain, CloseOrphan, PollOrphan, EndPass, SamePosition, account
<1>3. CASE RunFlatAll
  BY <1>3 DEF RunFlatAll, FlatStep, FlatRead, FlatClose, FlatPoll, FlatBookRow, FlatBookFails, FlatBooked,
     FlatSettle, FlatAck, FlatGivenUp, account
<1>4. CASE Environment
  BY <1>4 DEF Environment, Outside, LateFill, OutsideTrade, Unpause, ClearHold, RequestFlatAll,
     account
<1>5. CASE ~ExecuteSignal /\ ~ReconcilePass /\ ~RunFlatAll /\ ~Environment
  BY <1>5 DEF Step, Boot, Restore, TickWithPass, TickWithoutPass, ReadPaused, StartFlatAll,
     RunStrategy, Signal, NoTrade, EndTick, Crash, account
<1> QED
  BY <1>1, <1>2, <1>3, <1>4, <1>5

(* Without partial answers the exchange is seen as it is. *)
LEMMA AnswersTrue == ASSUME MaxLies = 0, lies \in Nat PROVE Answers = {pos}
  BY DEF Answers

(* Where the books agree, the exchange holds at least what a row says, and *)
(* nothing that no row says.                                               *)
LEMMA RowsBacked ==
  ASSUME RowInv, Agree, NEW s \in Holders
  PROVE  /\ HeldOnSide(pos[CoinOf[s]], row[s].side) >= row[s].size
         /\ HeldOnSide(pos[CoinOf[s]], row[s].side) > 0
<1>1. /\ row \in [Strategies -> Rows] /\ s \in Strategies /\ row[s] # NoRow
      /\ CoinOf[s] \in Coins /\ row[s].size \in Nat /\ row[s].size > 0
      /\ pos[CoinOf[s]] \in Int
  BY RowSizes, BookAssumption DEF RowInv, TypeInv, TypeOK, BookTypeOK, Holders, Holds
<1>2. \A t \in Strategies : row[t] # NoRow /\ CoinOf[t] = CoinOf[s] => row[t].side = row[s].side
  BY DEF RowInv, NoOppositeRows, Holders, Holds
<1>3. HeldOnSide(NetOf(row, CoinOf[s]), row[s].side) >= row[s].size
  BY <1>1, <1>2, NetHeld
<1>4. NetOf(row, CoinOf[s]) = pos[CoinOf[s]]
  BY <1>1, NetIs DEF Agree
<1>5. HeldOnSide(pos[CoinOf[s]], row[s].side) \in Nat
  BY <1>1, HeldNat
<1> QED
  BY <1>1, <1>3, <1>4, <1>5

LEMMA NoOrphans ==
  ASSUME TypeInv, Agree, NEW c \in Coins, HoldersOn(c) = {} PROVE pos[c] = 0
<1>1. row \in [Strategies -> Rows]
  BY DEF TypeInv, TypeOK, BookTypeOK
<1>2. \A s \in Strategies : CoinOf[s] = c => row[s] = NoRow
  BY DEF HoldersOn, Holders, Holds
<1>3. NetOf(row, c) = 0
  BY <1>1, <1>2, NetParts
<1> QED
  BY <1>3, NetIs DEF Agree

(* Steps that leave the rows and the position alone. *)
LEMMA AgreeKept == ASSUME UNCHANGED <<row, pos>> PROVE (Agree' <=> Agree)
  BY DEF Agree, Net, HoldersOn, Holders, Holds

LEMMA JobBooksKept ==
  ASSUME UNCHANGED <<row, pos, job>>, JobBooks PROVE JobBooks'
  BY DEF JobBooks, Net, HoldersOn, Holders, Holds, Booking, S, C

LEMMA FlatBooksKept ==
  ASSUME UNCHANGED <<row, pos, flat>>, FlatBooks PROVE FlatBooks'
  BY DEF FlatBooks, Net, HoldersOn, Holders, Holds

(* An order that is booked in full, in part, or not at all. *)
LEMMA FillBooks ==
  ASSUME RowInv, LegInv, JobBooks, Agree, OrderFills PROVE JobBooks' /\ inflight' = inflight
<1>0. /\ job \in Jobs /\ row \in [Strategies -> Rows] /\ pos \in [Coins -> Int]
      /\ job.pc = "send" /\ S \in Strategies /\ Sending /\ TypeInv
  BY DEF OrderFills, RowInv, TypeInv, TypeOK, BookTypeOK, JobOK, S, Sending
<1>1. PICK k \in Fills(Order) : /\ pos' = AfterFill(Order, k)
                                /\ job' = [job EXCEPT !.pc = "book", !.got = k]
  BY DEF OrderFills
<1>2. row' = row /\ inflight' = inflight
  BY DEF OrderFills
<1>3. /\ job'.pc = "book" /\ job'.got = k /\ job'.asked = job.asked /\ job'.leg = job.leg
      /\ job'.strat = job.strat /\ job'.want = job.want
  BY <1>0, <1>1 DEF Jobs
<1>4. /\ Order \in Orders /\ k \in Nat /\ Order.coin = C /\ Order.leg = job.leg
      /\ Order.side = LegSide /\ C \in Coins
  BY <1>0, OrderTyped, FillsPositive DEF Order, Orders
<1>5. S' = S /\ C' = C /\ job.leg \in Legs
  BY <1>0, <1>3 DEF S, C, Jobs
<1>6. Booking' = IF job.leg = "open" THEN Signed(LegSide, k) ELSE -Signed(LegSide, k)
  <2>1. job.leg = "open" => LegSide = job.want
    BY DEF LegSide
  <2>2. job.leg = "close" => LegSide = row[S].side
    BY <1>0 DEF TypeInv, JobOK
  <2> QED
    BY <1>2, <1>3, <1>5, <2>1, <2>2 DEF Booking, Legs
<1>7. \A c \in Coins : pos'[c] = pos[c] + IF c = C THEN Booking' ELSE 0
  <2>1. Signed(LegSide, k) \in Int
    BY <1>4 DEF Signed
  <2> QED
    BY <1>0, <1>1, <1>4, <1>5, <1>6, <2>1 DEF AfterFill, Legs
<1>8. \A c \in Coins : Net(c)' = pos[c]
  <2>1. \A c : Net(c)' = Net(c)
    BY <1>2 DEF Net, HoldersOn, Holders, Holds
  <2> QED
    BY <2>1 DEF Agree
<1>9. job.leg = "close" => job.asked = row[S].size
  BY <1>0 DEF JobBooks
<1> QED
  BY <1>2, <1>3, <1>5, <1>7, <1>8, <1>9 DEF JobBooks

LEMMA BookingAgrees ==
  ASSUME RowInv, AskInv, LegInv, JobBooks, BookFill, row' \in [Strategies -> Rows] PROVE Agree'
<1>0. /\ job \in Jobs /\ row \in [Strategies -> Rows] /\ job.pc = "book" /\ S \in Strategies
      /\ Sending /\ job.got \in Nat /\ job.asked \in Nat /\ job.got > 0 /\ job.got <= job.asked
      /\ pos' = pos /\ row' = [row EXCEPT ![S] = BookedRow] /\ job.leg \in Legs
  BY DEF BookFill, RowInv, TypeInv, TypeOK, BookTypeOK, JobOK, S, Sending, AskInv, Jobs
<1>1. \A c \in Coins : pos[c] = Net(c) + IF c = C THEN Booking ELSE 0
  BY <1>0 DEF JobBooks
<1>2. Weight(row'[S]) - Weight(row[S]) = Booking
  <2>1. row'[S] = BookedRow
    BY <1>0
  <2>2. CASE job.leg = "open"
    <3>1. row[S] = NoRow
      BY <1>0, <2>2 DEF LegInv, Holds
    <3>2. row'[S] = [side |-> job.want, size |-> job.got]
      BY <2>1, <2>2 DEF BookedRow
    <3>3. Weight(row'[S]) = Signed(job.want, job.got)
      BY <3>2 DEF Weight
    <3>4. Weight(row[S]) = 0
      BY <1>0, <3>1, Weights
    <3> QED
      BY <1>0, <2>2, <3>3, <3>4 DEF Booking, Signed
  <2>3. CASE job.leg = "close"
    <3>1. row[S] # NoRow /\ row[S].size = job.asked /\ row[S] \in Rows
      BY <1>0, <2>3 DEF JobBooks, RowInv, TypeInv, JobOK, Holds
    <3>2. row'[S] = IF job.asked - job.got > 0 THEN [row[S] EXCEPT !.size = job.asked - job.got]
                    ELSE NoRow
      BY <2>1, <2>3 DEF BookedRow, Remaining
    <3>3. Weight(row'[S]) = Signed(row[S].side, job.asked - job.got)
      <4>1. CASE job.asked - job.got > 0
        <5>1. row'[S].side = row[S].side /\ row'[S].size = job.asked - job.got
          BY <3>1, <3>2, <4>1 DEF Rows, NoRow
        <5> QED
          BY <5>1 DEF Weight
      <4>2. CASE ~(job.asked - job.got > 0)
        <5>1. job.asked - job.got = 0 /\ row'[S] = NoRow
          BY <1>0, <3>2, <4>2
        <5> QED
          BY <5>1 DEF Weight, Signed, NoRow
      <4> QED
        BY <4>1, <4>2
    <3>4. Weight(row[S]) = Signed(row[S].side, job.asked)
      BY <3>1 DEF Weight
    <3> QED
      BY <1>0, <2>3, <3>3, <3>4 DEF Booking, Signed
  <2> QED
    BY <1>0, <2>2, <2>3 DEF Legs
<1>3. ASSUME NEW c \in Coins PROVE NetOf(row', c) = pos[c]
  <2>1. \A t \in Strategies : t # S => row'[t] = row[t]
    BY <1>0
  <2>2. NetOf(row', c) = NetOf(row, c)
                         + (IF c = CoinOf[S] THEN Weight(row'[S]) - Weight(row[S]) ELSE 0)
    <3> DEFINE q == row'
               s == S
    <3>1. row \in [Strategies -> Rows] /\ q \in [Strategies -> Rows] /\ s \in Strategies
          /\ \A t \in Strategies : t # s => q[t] = row[t]
      BY <1>0, <2>1
    <3> HIDE DEF q, s
    <3>2. NetOf(q, c) = NetOf(row, c) + (IF c = CoinOf[s] THEN Weight(q[s]) - Weight(row[s]) ELSE 0)
      BY <3>1, NetChange
    <3> QED
      BY <3>2 DEF q, s
  <2>3. pos[c] = NetOf(row, c) + IF c = C THEN Booking ELSE 0
    BY <1>1, NetIs
  <2> QED
    BY <1>2, <2>2, <2>3 DEF C
<1>4. \A c : Net(c)' = NetOf(row', c)
  <2>1. (\A c : Net(c) = NetOf(row, c))'
    BY NetIs, PTL
  <2> QED
    BY <2>1
<1> QED
  BY <1>0, <1>3, <1>4 DEF Agree

LEMMA SignalKeepsBooks ==
  ASSUME MaxLies = 0, RowInv, RowInv', AskInv, LegInv, BookedInv, clean, clean', ExecuteSignal
  PROVE  inflight' = {} /\ JobBooks' /\ (job'.pc # "book" => Agree')
<1>0. /\ job \in Jobs /\ row \in [Strategies -> Rows] /\ pos \in [Coins -> Int] /\ lies \in Nat
      /\ row' \in [Strategies -> Rows] /\ TypeInv /\ Step
      /\ inflight = {} /\ JobBooks
  BY DEF RowInv, TypeInv, TypeOK, BookTypeOK, BookedInv, Step
<1>1. job.pc # "idle" /\ flat.pc = "idle"
  <2>1. job.pc # "idle"
    BY DEF ExecuteSignal, SignalStep, BeginOpen, ResolveClose, PlaceOrder, OrderFills,
     OrderRefused, OrderTimesOut, OrderTimesOutUnread, PollSeesFill,
     PollGivesUp, BookFill, BookFails, PnlReadFails,
     VerifyParity, OpenNotFilled, CloseDropped, CloseNotFilled, ConfirmClose, SettleExternal,
     Align, RaiseHandled
  <2> QED
    BY <1>0, <2>1 DEF TypeInv, OneAtATime
<1>2. job.pc # "book" => Agree
  BY <1>1 DEF BookedInv
<1>3. CASE OrderFills
  <2>1. job.pc = "send" /\ job'.pc = "book"
    BY <1>0, <1>3 DEF OrderFills, Jobs
  <2> QED
    BY <1>0, <1>2, <1>3, <2>1, FillBooks
<1>4. CASE BookFill
  <2>1. job'.pc = "verify" /\ inflight' = inflight
    BY <1>0, <1>4 DEF BookFill, Goto, Jobs
  <2> QED
    BY <1>0, <1>4, <2>1, BookingAgrees DEF JobBooks
<1>5. CASE ~OrderFills /\ ~BookFill
  <2>1. ~OrderTimesOut /\ ~OrderTimesOutUnread /\ ~PollSeesFill /\ ~PollGivesUp /\ ~BookFails /\ ~PnlReadFails
        /\ ~SettleExternal
    BY <1>0 DEF OrderTimesOut, OrderTimesOutUnread, PollSeesFill, PollGivesUp, BookFails, PnlReadFails,
                SettleExternal, JobBooks
  <2>2. UNCHANGED <<row, pos, inflight>> /\ job.pc # "book"
    BY <1>5, <2>1 DEF ExecuteSignal, SignalStep, PlaceOrder, BeginOpen, ResolveClose,
       OrderRefused, VerifyParity, OpenNotFilled, CloseDropped, CloseNotFilled, ConfirmClose,
       Align, RaiseHandled, NoTrade, account
  <2>3. Agree'
    BY <1>2, <2>2, AgreeKept
  <2>4. CASE ~Trading' /\ ~Answered'
    BY <1>0, <2>2, <2>3, <2>4 DEF JobBooks, Trading, Answered, Sending
  <2>5. CASE job' = job
    BY <1>0, <2>2, <2>3, <2>5, JobBooksKept
  <2>6. CASE Trading' /\ job' # job
    <3>1. BeginOpen \/ ResolveClose \/ VerifyParity
      <4>1. ~RunStrategy
        BY <1>1 DEF RunStrategy, Signal
      <4> QED
        BY <1>0, <1>5, <2>1, <2>6, <4>1, WhatSends
    <3>2. CASE BeginOpen
      <4>1. (job'.pc = "send" /\ job'.leg = "open") \/ job'.pc = "resolve"
        BY <1>0, <2>6, <3>2, BeginTrades DEF Jobs
      <4> QED
        BY <1>0, <2>2, <2>3, <4>1 DEF JobBooks
    <3>3. CASE VerifyParity
      <4>1. job'.pc = "send" /\ job'.leg = "open"
        BY <1>0, <2>6, <3>3, VerifyTrades DEF Jobs
      <4> QED
        BY <1>0, <2>2, <2>3, <4>1 DEF JobBooks
    <3>4. CASE ResolveClose
      <4>1. /\ job.pc = "resolve" /\ Holds(S) /\ row[S].side = LegSide /\ S \in Holders
        BY <1>0, <2>6, <3>4, ResolveTrades DEF TypeInv, JobOK, Holders, S
      <4>2. HeldOnSide(pos[C], LegSide) >= row[S].size
        BY <1>2, <2>2, <4>1, RowsBacked DEF C
      <4>3. PICK n \in {row[S].size, HeldOnSide(pos[C], LegSide)} :
               /\ \/ n = row[S].size
                  \/ 0 < HeldOnSide(pos[C], LegSide) /\ HeldOnSide(pos[C], LegSide) < row[S].size
               /\ job' = [job EXCEPT !.pc = "send", !.asked = n]
        BY <1>0, <2>6, <3>4, ResolveTrades
      <4>4. n = row[S].size
        <5>1. HeldOnSide(pos[C], LegSide) \in Nat /\ row[S].size \in Nat
          BY <1>0, <4>1, HeldNat, RowSizes, BookAssumption DEF Holders, C
        <5> QED
          BY <4>2, <4>3, <5>1
      <4>5. job'.pc = "send" /\ job'.asked = row[S].size /\ job'.strat = job.strat
        BY <1>0, <4>3, <4>4 DEF Jobs
      <4> QED
        BY <1>0, <2>2, <2>3, <4>5 DEF JobBooks, S
    <3> QED
      BY <3>1, <3>2, <3>3, <3>4
  <2>7. CASE Answered' /\ job' # job
    <3>1. \/ OrderRefused \/ CloseNotFilled
          \/ ConfirmClose /\ Goto(IF job.pc = "confirm" THEN "recheck" ELSE "settle")
      BY <1>0, <1>5, <2>1, <2>7, WhatFollows
    <3>2. CASE OrderRefused \/ CloseNotFilled
      <4>1. job'.pc \in {"unfilled", "confirm"}
        BY <1>0, <3>2 DEF OrderRefused, CloseNotFilled, Goto, GotoBecause, Jobs
      <4> QED
        BY <1>0, <2>2, <2>3, <4>1 DEF JobBooks
    <3>3. CASE ConfirmClose
      <4>1. job.pc = "confirm" /\ Holds(S) /\ S \in Holders
        BY <1>0, <1>1, <3>3 DEF ConfirmClose, JobBooks, LegInv, TypeInv, JobOK, Holders, S
      <4>2. HeldOnSide(pos[C], row[S].side) > 0
        BY <1>2, <4>1, RowsBacked DEF C
      <4>3. StillHeld
        BY <1>0, <3>3, <4>2, AnswersTrue DEF ConfirmClose
      <4>4. job'.pc \in {"idle", "align"}
        BY <1>0, <4>3 DEF StillHeld, LegFailed, Done, Goto, IdleJob, Jobs
      <4> QED
        BY <2>7, <4>4 DEF Answered
    <3> QED
      BY <3>1, <3>2, <3>3
  <2> QED
    BY <2>4, <2>5, <2>6, <2>7
<1> QED
  BY <1>3, <1>4, <1>5

LEMMA PassKeepsBooks ==
  ASSUME MaxLies = 0, RowInv, BookedInv, clean, clean', ReconcilePass
  PROVE  UNCHANGED <<row, pos, inflight, job, flat>> /\ PassBooks'
<1>0. /\ pass \in Passes /\ lies \in Nat /\ TypeInv
      /\ PassBooks
  BY DEF RowInv, TypeInv, TypeOK, BookTypeOK, BookedInv
<1>1. pass.pc # "idle"
  BY DEF ReconcilePass, PassStep, ReadExchange, ConfirmRead, CloseRows, FindOrphans, ReadAgain,
     CloseOrphan, PollOrphan, EndPass
<1>2. job.pc = "idle" /\ flat.pc = "idle" /\ UNCHANGED <<job, flat>>
  BY <1>0, <1>1 DEF TypeInv, OneAtATime, ReconcilePass, flatVars
<1>3. Agree
  BY <1>2 DEF BookedInv
<1>4. ~ConfirmRead /\ ~CloseRows /\ ~ReadAgain /\ ~CloseOrphan /\ ~PollOrphan
  BY <1>0 DEF PassBooks, ConfirmRead, CloseRows, ReadAgain, CloseOrphan, PollOrphan
<1>5. UNCHANGED <<row, pos, inflight>>
  BY <1>4 DEF ReconcilePass, PassStep, ReadExchange, FindOrphans, EndPass, SamePosition, account
<1>6. CASE ReadExchange
  <2>1. Closable(pos) = {}
    BY <1>0, <1>3, RowsBacked DEF Closable
  <2>2. AfterRead(pos) \in {"end", "orphans"}
    BY <2>1 DEF AfterRead
  <2>3. CASE Skip \/ Abandon
    <3>1. pass'.pc \in {"end", "idle"}
      <4>1. CASE Skip
        BY <1>0, <4>1 DEF Skip, Passes
      <4>2. CASE Abandon
        BY <4>2 DEF Abandon, IdlePass
      <4> QED
        BY <2>3, <4>1, <4>2
    <3> QED
      BY <1>2, <1>5, <3>1 DEF PassBooks
  <2>4. CASE ~(Skip \/ Abandon)
    <3>1. pass' = [pass EXCEPT !.seen = pos, !.closing = Closable(pos), !.pc = AfterRead(pos)]
      BY <1>0, <1>6, <2>4, AnswersTrue DEF ReadExchange
    <3>2. pass'.pc \in {"end", "orphans"} /\ pass'.seen = pos
      BY <1>0, <2>2, <3>1 DEF Passes
    <3> QED
      BY <1>2, <1>5, <3>2 DEF PassBooks
  <2> QED
    BY <1>2, <1>5, <2>3, <2>4
<1>7. CASE FindOrphans
  <2> DEFINE orphans == {c \in Coins : pass.seen[c] # 0 /\ HoldersOn(c) = {}}
             closable == IF pass.hold \/ Cardinality(orphans \intersect Traded) > 1
                         THEN {} ELSE orphans \intersect Traded
  <2>1. pass.seen = pos
    BY <1>0, <1>7 DEF FindOrphans, PassBooks
  <2>2. orphans = {}
    BY <1>0, <1>3, <2>1, NoOrphans
  <2>3. closable = {}
    BY <2>2
  <2>4. CASE Abandon
    BY <1>2, <1>5, <2>4 DEF Abandon, IdlePass, PassBooks
  <2>5. CASE pass' = [pass EXCEPT !.orphans = orphans, !.closable = closable,
                             !.unresolved = closable, !.held = orphans \ closable,
                             !.pc = IF closable = {} THEN "end" ELSE "again"]
    <3> HIDE DEF orphans, closable
    <3>1. pass'.pc = "end"
      BY <1>0, <2>3, <2>5 DEF Passes
    <3> QED
      BY <1>2, <1>5, <3>1 DEF PassBooks
  <2> QED
    BY <1>2, <1>5, <1>7, <2>4, <2>5 DEF FindOrphans
<1>8. CASE EndPass
  BY <1>2, <1>5, <1>8 DEF EndPass, Abandon, IdlePass, PassBooks
<1> QED
  BY <1>4, <1>6, <1>7, <1>8 DEF ReconcilePass, PassStep

LEMMA FlatKeepsBooks ==
  ASSUME MaxLies = 0, "short" \notin Faults \/ MaxRequests = 0, RowInv, RequestInv, BookedInv,
         RowInv', clean, clean', RunFlatAll
  PROVE  UNCHANGED <<inflight, job, pass>> /\ FlatBooks' /\ (flat'.pc # "book" => Agree')
<1>0. /\ flat \in Flats /\ lies \in Nat /\ TypeInv /\ row \in [Strategies -> Rows]
      /\ pos \in [Coins -> Int] /\ row' \in [Strategies -> Rows]
      /\ \A c \in flat.left : flat.seen[c] # 0
      /\ FlatBooks /\ UNCHANGED <<job, pass>>
  BY DEF RowInv, TypeInv, TypeOK, BookTypeOK, FlatTypeOK, ReadsOK, BookedInv, RunFlatAll
<1>1. flat.pc # "idle"
  BY DEF RunFlatAll, FlatStep, FlatRead, FlatClose, FlatPoll, FlatBookRow, FlatBookFails, FlatBooked,
     FlatSettle, FlatAck, FlatGivenUp
<1>2. job.pc = "idle" /\ "short" \notin Faults
  BY <1>0, <1>1 DEF TypeInv, OneAtATime, RequestInv
<1>3. flat.pc # "book" => Agree
  BY <1>2 DEF BookedInv
<1>10. (\A c : Net(c) = NetOf(row, c))'
  BY NetIs, PTL
<1>4. CASE FlatRead
  <2>1. UNCHANGED <<row, pos, inflight>> /\ flat.pc = "read"
    BY <1>4 DEF FlatRead
  <2>2. \/ flat'.pc = "end"
        \/ flat'.pc = "close" /\ flat'.seen = pos
    <3>1. CASE flat' = FlatUnreadable
      BY <1>0, <3>1 DEF FlatUnreadable, Flats
    <3>2. CASE flat' = [flat EXCEPT !.pc = "close", !.seen = pos,
                                    !.left = {c \in Coins : pos[c] # 0}]
      BY <1>0, <3>2 DEF Flats
    <3> QED
      <4>1. \A answer \in Answers : answer = pos
        BY <1>0, AnswersTrue
      <4> QED
        BY <1>4, <3>1, <3>2, <4>1 DEF FlatRead
  <2> QED
    BY <1>0, <1>3, <2>1, <2>2, AgreeKept DEF FlatBooks
<1>5. CASE FlatClose
  <2>1. PICK c \in flat.left :
         \/ \E k \in Fills(FlatOrder(c)) :
            /\ pos' = AfterFill(FlatOrder(c), k)
            /\ flat' = [flat EXCEPT !.left = @ \ {c}, !.pc = "book",
                                    !.rows = HoldersOn(c), !.used = FALSE]
            /\ UNCHANGED <<inflight, clean>>
         \/ /\ flat' = [flat EXCEPT !.left = @ \ {c}, !.failed = TRUE]
            /\ UNCHANGED <<pos, inflight, clean>>
         \/ clean' = FALSE
    BY <1>0, <1>5 DEF FlatClose, Flats
  <2>2. flat.pc = "close" /\ row' = row /\ c \in Coins /\ pos[c] = flat.seen[c] /\ pos[c] # 0
        /\ pos[c] \in Int /\ \A d \in flat.left : flat.seen[d] = pos[d]
    BY <1>0, <1>5 DEF FlatClose, Flats, FlatBooks
  <2>3. CASE /\ flat' = [flat EXCEPT !.left = @ \ {c}, !.failed = TRUE]
             /\ UNCHANGED <<pos, inflight, clean>>
    <3>1. flat'.pc = "close" /\ flat'.left \subseteq flat.left /\ flat'.seen = flat.seen
      BY <1>0, <2>2, <2>3 DEF Flats
    <3> QED
      BY <1>0, <1>3, <2>2, <2>3, <3>1, AgreeKept DEF FlatBooks
  <2>4. ASSUME NEW k \in Fills(FlatOrder(c)), pos' = AfterFill(FlatOrder(c), k),
               flat' = [flat EXCEPT !.left = @ \ {c}, !.pc = "book",
                                    !.rows = HoldersOn(c), !.used = FALSE],
               UNCHANGED <<inflight, clean>>
        PROVE  UNCHANGED <<inflight, job, pass>> /\ FlatBooks' /\ (flat'.pc # "book" => Agree')
    <3>1. FlatOrder(c) \in Orders
      BY <2>2 DEF FlatOrder, Orders, Legs, Sides
    <3>2. pos' = [pos EXCEPT ![c] = 0]
      <4> DEFINE o == FlatOrder(c)
                 n == flat.seen[c]
      <4>1. /\ o \in Orders /\ o.coin = c /\ o.leg = "close"
            /\ o.side = (IF n > 0 THEN "long" ELSE "short") /\ o.lots = (IF n > 0 THEN n ELSE -n)
            /\ k \in Fills(o) /\ pos' = AfterFill(o, k)
            /\ n \in Int /\ n = pos[c] /\ n # 0 /\ c \in Coins
        BY <2>2, <2>4, <3>1 DEF FlatOrder
      <4> HIDE DEF o, n
      <4> QED
        BY <1>0, <1>2, <4>1, WholeFill
    <3>3. /\ flat'.pc = "book" /\ flat'.left = flat.left \ {c} /\ flat'.seen = flat.seen
          /\ flat'.rows = HoldersOn(c)
      BY <1>0, <2>4 DEF Flats
    <3>4. \A d : Net(d)' = Net(d) /\ HoldersOn(d)' = HoldersOn(d)
      BY <2>2 DEF Net, HoldersOn, Holders, Holds
    <3>5. \A d \in flat.left \ {c} : flat.seen[d] = pos'[d]
      BY <1>0, <2>2, <3>2 DEF Flats
    <3>6. /\ pos'[c] = 0 /\ HoldersOn(c)' = flat'.rows
          /\ \A d \in Coins \ {c} : Net(d)' = pos'[d]
      BY <1>0, <1>3, <2>2, <3>2, <3>3, <3>4 DEF Agree
    <3> QED
      BY <1>0, <2>2, <2>4, <3>3, <3>5, <3>6 DEF FlatBooks
  <2> QED
    BY <2>1, <2>3, <2>4
<1>6. CASE FlatBookRow
  <2>1. /\ flat.pc = "book" /\ UNCHANGED <<pos, inflight>>
        /\ \A d \in flat.left : flat.seen[d] = pos[d]
    BY <1>0, <1>6 DEF FlatBookRow, FlatBooks
  <2>2. PICK s \in flat.rows : /\ row' = [row EXCEPT ![s] = NoRow]
                               /\ flat' = [flat EXCEPT !.rows = @ \ {s}, !.used = TRUE]
    BY <1>6 DEF FlatBookRow
  <2>3. PICK c \in Coins : /\ pos[c] = 0 /\ HoldersOn(c) = flat.rows
                           /\ \A d \in Coins \ {c} : Net(d) = pos[d]
    BY <1>0, <2>1 DEF FlatBooks
  <2>4. /\ flat'.pc = "book" /\ flat'.left = flat.left /\ flat'.seen = flat.seen
        /\ flat'.rows = flat.rows \ {s}
    BY <1>0, <2>1, <2>2 DEF Flats
  <2>5. s \in Strategies /\ CoinOf[s] = c /\ \A t \in Strategies : t # s => row'[t] = row[t]
    BY <1>0, <2>2, <2>3 DEF HoldersOn, Holders
  <2>6. HoldersOn(c)' = flat'.rows
    BY <1>0, <2>2, <2>3, <2>4, <2>5 DEF HoldersOn, Holders, Holds
  <2>7. ASSUME NEW d \in Coins \ {c} PROVE Net(d)' = pos'[d]
    <3> DEFINE q == row'
    <3>1. row \in [Strategies -> Rows] /\ q \in [Strategies -> Rows] /\ s \in Strategies
          /\ d # CoinOf[s] /\ \A t \in Strategies : t # s => q[t] = row[t]
      BY <1>0, <2>5
    <3>2. NetOf(q, d) \in Int /\ NetOf(row, d) \in Int
      BY <1>0, NetParts
    <3> HIDE DEF q
    <3>3. NetOf(q, d) = NetOf(row, d) + (IF d = CoinOf[s] THEN Weight(q[s]) - Weight(row[s]) ELSE 0)
      BY <3>1, NetChange
    <3>4. NetOf(q, d) = NetOf(row, d)
      BY <3>1, <3>2, <3>3
    <3>5. NetOf(row, d) = pos[d]
      BY <2>3, NetIs
    <3>6. Net(d)' = NetOf(q, d)
      BY <1>10 DEF q
    <3> QED
      BY <2>1, <3>4, <3>5, <3>6
  <2> QED
    BY <1>0, <2>1, <2>3, <2>4, <2>6, <2>7 DEF FlatBooks
<1>7. CASE FlatBooked
  <2>1. /\ flat.pc = "book" /\ flat.rows = {} /\ UNCHANGED <<row, pos, inflight>>
        /\ \A d \in flat.left : flat.seen[d] = pos[d]
    BY <1>0, <1>7 DEF FlatBooked, FlatBooks, account
  <2>2. flat'.pc = "close" /\ flat'.left = flat.left /\ flat'.seen = flat.seen
    BY <1>0, <1>7 DEF FlatBooked, FlatGoto, Flats
  <2>3. PICK c \in Coins : /\ pos[c] = 0 /\ HoldersOn(c) = {}
                           /\ \A d \in Coins \ {c} : Net(d) = pos[d]
    BY <1>0, <2>1 DEF FlatBooks
  <2>4. Net(c) = 0
    <3>1. \A s \in Strategies : CoinOf[s] = c => row[s] = NoRow
      BY <2>3 DEF HoldersOn, Holders, Holds
    <3> QED
      BY <1>0, <3>1, NetParts, NetIs
  <2>5. Agree
    BY <2>3, <2>4 DEF Agree
  <2> QED
    BY <1>0, <2>1, <2>2, <2>5, AgreeKept DEF FlatBooks
<1>8. CASE FlatSettle \/ FlatAck \/ FlatGivenUp
  <2>1. UNCHANGED <<row, pos, inflight>> /\ flat.pc # "book"
    BY <1>8 DEF FlatSettle, FlatAck, FlatGivenUp, account
  <2>2. flat'.pc \in {"end", "ack", "idle"}
    <3>1. CASE FlatGoto("end") \/ FlatGoto("ack")
      BY <1>0, <3>1 DEF FlatGoto, Flats
    <3>2. CASE flat' = IdleFlat
      BY <3>2 DEF IdleFlat
    <3> QED
      BY <1>8, <3>1, <3>2 DEF FlatSettle, FlatAck, FlatGivenUp
  <2> QED
    BY <1>0, <1>3, <2>1, <2>2, AgreeKept DEF FlatBooks
<1>9. ~FlatBookFails
  BY DEF FlatBookFails
<1>11. ~FlatPoll
  BY <1>0 DEF FlatPoll, FlatBooks
<1> QED
  BY <1>4, <1>5, <1>6, <1>7, <1>8, <1>9, <1>11 DEF RunFlatAll, FlatStep

LEMMA NextBookedInv ==
  ASSUME MaxLies = 0, "short" \notin Faults \/ MaxRequests = 0, RowInv, RowInv', AskInv, LegInv,
         RequestInv, BookedInv, [Next]_vars
  PROVE  BookedInv'
<1>1. CASE UNCHANGED vars
  <2>1. UNCHANGED <<row, pos, job, pass, flat, inflight, clean>>
    BY <1>1 DEF vars, bookVars, flatVars
  <2> QED
    BY <2>1, AgreeKept, JobBooksKept, FlatBooksKept DEF BookedInv, PassBooks
<1>2. CASE Step
  <2> SUFFICES ASSUME clean' PROVE BookedInv'
    BY DEF BookedInv
  <2>0. /\ clean /\ inflight = {} /\ JobBooks /\ PassBooks /\ FlatBooks /\ TypeInv
        /\ job.pc # "book" /\ flat.pc # "book" => Agree
    BY <1>2, CleanGoes DEF BookedInv, RowInv
  <2>1. CASE ExecuteSignal
    <3>1. UNCHANGED <<pass, flat>>
      BY <2>1 DEF ExecuteSignal, flatVars
    <3>2. job.pc # "idle"
      BY <2>1 DEF ExecuteSignal, SignalStep, BeginOpen, ResolveClose, PlaceOrder, OrderFills,
         OrderRefused, OrderTimesOut, OrderTimesOutUnread, PollSeesFill,
     PollGivesUp, BookFill, BookFails,
         PnlReadFails, VerifyParity, OpenNotFilled, CloseDropped, CloseNotFilled,
         ConfirmClose, SettleExternal, Align, RaiseHandled
    <3>3. flat.pc = "idle" /\ pass.pc = "idle"
      BY <2>0, <3>2 DEF TypeInv, OneAtATime
    <3>4. inflight' = {} /\ JobBooks' /\ (job'.pc # "book" => Agree')
      BY <2>0, <2>1, SignalKeepsBooks
    <3> QED
      BY <3>1, <3>3, <3>4 DEF BookedInv, PassBooks, FlatBooks
  <2>2. CASE ReconcilePass
    <3>1. UNCHANGED <<row, pos, inflight, job, flat>> /\ PassBooks'
      BY <2>0, <2>2, PassKeepsBooks
    <3> QED
      BY <2>0, <3>1, AgreeKept, JobBooksKept, FlatBooksKept DEF BookedInv
  <2>3. CASE RunFlatAll
    <3>1. UNCHANGED <<inflight, job, pass>> /\ FlatBooks' /\ (flat'.pc # "book" => Agree')
      BY <2>0, <2>3, FlatKeepsBooks
    <3>2. flat.pc # "idle"
      BY <2>3 DEF RunFlatAll, FlatStep, FlatRead, FlatClose, FlatPoll, FlatBookRow, FlatBookFails,
         FlatBooked, FlatSettle, FlatAck, FlatGivenUp
    <3>3. job.pc = "idle" /\ pass.pc = "idle"
      BY <2>0, <3>2 DEF TypeInv, OneAtATime
    <3> QED
      BY <2>0, <3>1, <3>3 DEF BookedInv, JobBooks, PassBooks
  <2>4. CASE Environment
    <3>1. UNCHANGED <<row, job, pass, flat>>
      BY <2>4, EnvironmentKeeps
    <3>2. UNCHANGED <<pos, inflight>>
      BY <2>0, <2>4 DEF Environment, Outside, LateFill, OutsideTrade, Unpause, ClearHold,
         RequestFlatAll, account
    <3> QED
      BY <2>0, <3>1, <3>2, AgreeKept, JobBooksKept, FlatBooksKept DEF BookedInv, PassBooks
  <2>5. CASE ~ExecuteSignal /\ ~ReconcilePass /\ ~RunFlatAll /\ ~Environment
    <3>1. UNCHANGED <<row, pos, inflight>>
      BY <1>2, <2>5 DEF Step, Boot, Restore, TickWithPass, TickWithoutPass, ReadPaused,
         StartFlatAll, RunStrategy, Signal, NoTrade, EndTick, Crash, account
    <3>2. job' = job \/ (job.pc # "book" /\ job'.pc \in {"idle", "begin", "resolve"})
      <4>1. CASE RunStrategy
        BY <4>1 DEF RunStrategy, Signal, IdleJob
      <4>2. CASE Crash
        BY <4>2 DEF Crash, IdleJob
      <4>3. CASE ~RunStrategy /\ ~Crash
        BY <1>2, <2>5, <4>3 DEF Step, Boot, Restore, TickWithPass, TickWithoutPass, ReadPaused,
           StartFlatAll, EndTick
      <4> QED
        BY <4>1, <4>2, <4>3
    <3>3. pass' = pass \/ pass'.pc \in {"idle", "read"}
      <4>1. CASE Boot \/ TickWithPass
        BY <4>1 DEF Boot, TickWithPass, BeginPass, IdlePass
      <4>2. CASE Crash
        BY <4>2 DEF Crash, IdlePass
      <4>3. CASE ~Boot /\ ~TickWithPass /\ ~Crash
        BY <1>2, <2>5, <4>3 DEF Step, Restore, TickWithoutPass, ReadPaused, StartFlatAll,
           RunStrategy, EndTick
      <4> QED
        BY <4>1, <4>2, <4>3
    <3>4. flat' = flat \/ (flat.pc # "book" /\ flat'.pc \in {"idle", "read"})
      <4>1. CASE StartFlatAll
        BY <4>1 DEF StartFlatAll, BeginFlatAll, IdleFlat
      <4>2. CASE Crash
        BY <4>2 DEF Crash, IdleFlat
      <4>3. CASE ~StartFlatAll /\ ~Crash
        BY <1>2, <2>5, <4>3 DEF Step, Boot, Restore, TickWithPass, TickWithoutPass, ReadPaused,
           RunStrategy, EndTick, flatVars
      <4> QED
        BY <4>1, <4>2, <4>3
    <3>5. JobBooks'
      <4>1. CASE job' = job
        BY <2>0, <3>1, <4>1, JobBooksKept
      <4>2. CASE job'.pc \in {"idle", "begin", "resolve"}
        BY <4>2 DEF JobBooks
      <4> QED
        BY <3>2, <4>1, <4>2
    <3>6. PassBooks'
      BY <2>0, <3>1, <3>3 DEF PassBooks
    <3>7. FlatBooks'
      <4>1. CASE flat' = flat
        BY <2>0, <3>1, <4>1, FlatBooksKept
      <4>2. CASE flat'.pc \in {"idle", "read"}
        BY <4>2 DEF FlatBooks
      <4> QED
        BY <3>4, <4>1, <4>2
    <3>8. job'.pc # "book" /\ flat'.pc # "book" => Agree'
      BY <2>0, <3>1, <3>2, <3>4, AgreeKept
    <3> QED
      BY <2>0, <3>1, <3>5, <3>6, <3>7, <3>8 DEF BookedInv
  <2> QED
    BY <2>1, <2>2, <2>3, <2>4, <2>5
<1> QED
  BY <1>1, <1>2 DEF Next

LEMMA BooksSafe ==
  ASSUME MaxLies = 0, "short" \notin Faults \/ MaxRequests = 0
  PROVE  Spec => [](LegInv /\ RequestInv /\ BookedInv)
<1>1. Init => LegInv /\ RequestInv /\ BookedInv
  <2> SUFFICES ASSUME Init PROVE LegInv /\ RequestInv /\ BookedInv
    OBVIOUS
  <2>1. /\ job.pc = "idle" /\ pass.pc = "idle" /\ flat.pc = "idle" /\ asked = 0 /\ done = 0
        /\ inflight = {} /\ pos = [c \in Coins |-> 0] /\ row = [s \in Strategies |-> NoRow]
    BY DEF Init, BookInit, FlatInit, IdleJob, IdlePass, IdleFlat
  <2>2. Agree
    <3>1. \A c : HoldersOn(c) = {}
      BY <2>1 DEF HoldersOn, Holders, Holds
    <3>2. \A c : Net(c) = 0
      BY <3>1, SumEmpty DEF Net
    <3> QED
      BY <2>1, <3>2 DEF Agree
  <2> QED
    BY <2>1, <2>2 DEF LegInv, Sending, RequestInv, BookedInv, JobBooks, PassBooks, FlatBooks
<1>2. /\ RowInv /\ RowInv' /\ AskInv /\ LegInv /\ RequestInv /\ BookedInv /\ [Next]_vars
      => LegInv' /\ RequestInv' /\ BookedInv'
  BY NextLegInv, NextRequestInv, NextBookedInv DEF RowInv
<1> QED
  BY <1>1, <1>2, RowsSafe, LoadSafe, PTL DEF Spec

(* Whatever filled short, was refused, flipped or lay between two awaits:  *)
(* as long as every change of the account was the bot's own and answered,  *)
(* and the exchange answers every read in full, the rows and the exchange  *)
(* agree when nothing is under way.  A flat-all's order that fills short   *)
(* counts as a close, so the books match with short fills or with          *)
(* flat-alls, not with both.                                               *)
THEOREM BooksStayMatched ==
  ASSUME MaxLies = 0, "short" \notin Faults \/ MaxRequests = 0
  PROVE  Spec => []BooksMatch
<1>1. BookedInv => BooksMatch
  BY DEF BookedInv, BooksMatch, Agree
<1> QED
  BY <1>1, BooksSafe, PTL

-----------------------------------------------------------------------------
(* What a pass knows of the exchange positions no row covers, while        *)
(* nothing but its own order moves them and that one does not fill short.  *)
Uncovered == {c \in Coins : pos[c] # 0 /\ HoldersOn(c) = {}}

AfterPoll == {c \in pass.taken : pos[c] \in {-1, 0, 1}}

OrphanPolling ==
    \A c \in pass.closable : /\ pass.base = pass.seen[c]
                             /\ \A o \in inflight : o.coin = c

OrphanInv ==
    /\ pass.pc \in {"again", "close", "poll"} => \E c \in Coins : pass.closable = {c}
    /\ calm /\ ~pass.dry /\ ~pass.skipped =>
       /\ pass.pc \in {"confirm", "apply", "orphans", "again", "close"} => pass.seen = pos
       /\ pass.pc \in {"again", "close", "poll"} =>
             /\ pass.closable \subseteq pass.unresolved
             /\ Uncovered \subseteq pass.unresolved \union pass.held
       /\ pass.pc = "poll" => OrphanPolling
       /\ pass.pc = "end" => Uncovered \subseteq pass.unresolved \union pass.held \union AfterPoll

LEMMA UncoveredKept == ASSUME UNCHANGED <<row, pos>> PROVE Uncovered' = Uncovered
  BY DEF Uncovered, HoldersOn, Holders, Holds

LEMMA OrphanCloseKeeps ==
  ASSUME "short" \notin Faults, TypeInv, OrphanInv, calm, CloseOrphan, ~pass.dry, ~pass.skipped,
         lies' = lies
  PROVE  OrphanInv'
<1>0. /\ pass \in Passes /\ pos \in [Coins -> Int] /\ pass.pc = "close" /\ row' = row
      /\ lies \in Nat /\ pass.closable \subseteq pass.unresolved
      /\ \E c \in Coins : pass.closable = {c}
      /\ pass.seen = pos /\ Uncovered \subseteq pass.unresolved \union pass.held
      /\ \A c \in pass.closable : pass.seen[c] # 0
  BY DEF TypeInv, TypeOK, BookTypeOK, ReadsOK, CloseOrphan, OrphanInv
<1>1. CASE PassGoto("end") /\ UNCHANGED pos
  <2>1. pass'.pc = "end" /\ pass'.unresolved = pass.unresolved /\ pass'.held = pass.held
    BY <1>0, <1>1 DEF PassGoto, Passes
  <2> QED
    BY <1>0, <1>1, <2>1, UncoveredKept DEF OrphanInv
<1>2. ASSUME NEW c \in pass.closable, NEW k \in Fills(OrphanOrder(c)),
             pos' = AfterFill(OrphanOrder(c), k),
             pass' = [pass EXCEPT !.pc = "end", !.unresolved = @ \ {c}]
      PROVE  OrphanInv'
  <2> DEFINE o == OrphanOrder(c)
             n == pass.seen[c]
  <2>1. c \in Coins /\ n \in Int /\ n = pos[c] /\ n # 0
    BY <1>0 DEF Passes
  <2>2. /\ o.coin = c /\ o.leg = "close" /\ o \in Orders
        /\ o.side = (IF n > 0 THEN "long" ELSE "short") /\ o.lots = (IF n > 0 THEN n ELSE -n)
    BY <2>1 DEF OrphanOrder, Orders, Legs, Sides
  <2>3. k \in Fills(o) /\ pos' = AfterFill(o, k)
    BY <1>2
  <2>4. /\ pass'.pc = "end" /\ pass'.unresolved = pass.unresolved \ {c}
        /\ pass'.held = pass.held
    BY <1>0, <1>2 DEF Passes
  <2> HIDE DEF o, n
  <2>5. pos' = [pos EXCEPT ![c] = 0]
    BY <1>0, <2>1, <2>2, <2>3, WholeFill
  <2>6. \A d : HoldersOn(d)' = HoldersOn(d)
    BY <1>0 DEF HoldersOn, Holders, Holds
  <2>7. Uncovered' \subseteq Uncovered \ {c}
    BY <1>0, <2>1, <2>5, <2>6 DEF Uncovered
  <2> QED
    BY <1>0, <2>4, <2>7 DEF OrphanInv
<1>3. ASSUME NEW c \in pass.closable, NEW answer \in Answers, lies' = LiesIn(answer),
             pos' = pos, inflight' = {OrphanOrder(c)},
             pass' = [pass EXCEPT !.pc = "poll", !.base = answer[c]]
      PROVE  OrphanInv'
  <2>1. answer = pos
    BY <1>0, <1>3 DEF LiesIn
  <2>2. /\ pass'.pc = "poll" /\ pass'.base = pos[c] /\ pass'.closable = pass.closable
        /\ pass'.seen = pass.seen /\ pass'.unresolved = pass.unresolved
        /\ pass'.held = pass.held
    BY <1>0, <1>3, <2>1 DEF Passes
  <2>3. OrphanPolling'
    BY <1>0, <1>3, <2>2 DEF OrphanPolling, OrphanOrder
  <2> QED
    BY <1>0, <1>3, <2>2, <2>3, UncoveredKept DEF OrphanInv
<1> QED
  BY <1>1, <1>2, <1>3 DEF CloseOrphan

(* A match within one lot of nothing excuses that coin; without one the    *)
(* orphan stays unresolved.                                                *)
LEMMA OrphanPollKeeps ==
  ASSUME TypeInv, OrphanInv, calm, PollOrphan, ~pass.dry, ~pass.skipped, lies' = lies
  PROVE  OrphanInv'
<1>0. /\ pass \in Passes /\ pos \in [Coins -> Int] /\ pass.pc = "poll" /\ lies \in Nat
      /\ UNCHANGED <<row, pos>> /\ OrphanPolling
      /\ Uncovered \subseteq pass.unresolved \union pass.held
  BY DEF TypeInv, TypeOK, BookTypeOK, PollOrphan, SamePosition, OrphanInv
<1>1. CASE PassGoto("end")
  <2>1. pass'.pc = "end" /\ pass'.unresolved = pass.unresolved /\ pass'.held = pass.held
    BY <1>0, <1>1 DEF PassGoto, Passes
  <2> QED
    BY <1>0, <2>1, UncoveredKept DEF OrphanInv
<1>2. ASSUME NEW c \in pass.closable, NEW answer \in Answers, lies' = LiesIn(answer),
             PollMatches(OrphanOrder(c), pass.base, answer),
             pass' = [pass EXCEPT !.pc = "end", !.unresolved = @ \ {c}, !.taken = {c}]
      PROVE  OrphanInv'
  <2>1. answer = pos
    BY <1>0, <1>2 DEF LiesIn
  <2>2. /\ pass'.pc = "end" /\ pass'.unresolved = pass.unresolved \ {c}
        /\ pass'.held = pass.held /\ pass'.taken = {c}
    BY <1>0, <1>2 DEF Passes
  <2>3. Target(OrphanOrder(c), pass.base) = 0 /\ OrphanOrder(c).coin = c
    <3>1. c \in Coins /\ pass.seen[c] \in Int /\ pass.base = pass.seen[c]
      BY <1>0 DEF Passes, OrphanPolling
    <3> QED
      BY <3>1 DEF Target, OrphanOrder, Signed
  <2>4. pos[c] \in {-1, 0, 1}
    <3>1. c \in Coins
      BY <1>0 DEF Passes
    <3> QED
      BY <1>0, <1>2, <2>1, <2>3, <3>1 DEF PollMatches
  <2>5. AfterPoll' = {c}
    BY <1>0, <2>2, <2>4 DEF AfterPoll
  <2> QED
    BY <1>0, <2>2, <2>5, UncoveredKept DEF OrphanInv
<1> QED
  BY <1>1, <1>2 DEF PollOrphan

(* Several orphans on traded coins are all held, so at most one is closed. *)
LEMMA OneClosable ==
  ASSUME TypeInv, OrphanInv, ReconcilePass, pass'.pc \in {"again", "close", "poll"}
  PROVE  \E c \in Coins : pass'.closable = {c}
<1>0. pass \in Passes
  BY DEF TypeInv, TypeOK
<1>1. CASE FindOrphans
  <2> DEFINE orphans == {c \in Coins : pass.seen[c] # 0 /\ HoldersOn(c) = {}}
             both == orphans \intersect Traded
             closable == IF pass.hold \/ Cardinality(both) > 1 THEN {} ELSE both
  <2>1. ~Abandon
    BY DEF Abandon, IdlePass
  <2>2. pass' = [pass EXCEPT !.orphans = orphans, !.closable = closable,
                             !.unresolved = closable, !.held = orphans \ closable,
                             !.pc = IF closable = {} THEN "end" ELSE "again"]
    BY <1>1, <2>1 DEF FindOrphans
  <2>3. IsFiniteSet(both)
    <3>1. IsFiniteSet(Traded)
      <4>1. CoinOf \in Surjection(Strategies, Traded)
        BY BookAssumption DEF Traded, Surjection
      <4> QED
        BY <4>1, BookAssumption, FS_Surjection
    <3>2. both \in SUBSET Traded
      OBVIOUS
    <3> HIDE DEF both
    <3> QED
      BY <3>1, <3>2, FS_Subset
  <2>4. closable = {} \/ (Cardinality(both) \in {0, 1} /\ closable = both)
    <3>1. Cardinality(both) \in Nat
      <4> HIDE DEF both
      <4> QED
        BY <2>3, FS_CardinalityType
    <3>2. closable = (IF pass.hold \/ Cardinality(both) > 1 THEN {} ELSE both)
      OBVIOUS
    <3> HIDE DEF both, closable
    <3> QED
      BY <3>1, <3>2
  <2>5. both \subseteq Coins
    OBVIOUS
  <2> HIDE DEF closable, both, orphans
  <2>6. closable # {}
    BY <1>0, <2>2 DEF Passes
  <2>7. Cardinality(both) = 1 /\ closable = both
    BY <2>3, <2>4, <2>6, FS_EmptySet
  <2>8. \E c : both = {c}
    BY <2>3, <2>7, FS_Singleton
  <2>9. pass'.closable = closable
    BY <1>0, <2>2 DEF Passes
  <2> QED
    BY <2>5, <2>7, <2>8, <2>9
<1>2. CASE ReadAgain \/ CloseOrphan \/ PollOrphan
  <2>1. pass'.closable = pass.closable /\ pass.pc \in {"again", "close", "poll"}
    BY <1>0, <1>2 DEF ReadAgain, CloseOrphan, PollOrphan, PassGoto, Passes
  <2> QED
    BY <2>1 DEF OrphanInv
<1>3. CASE ReadExchange \/ ConfirmRead \/ CloseRows \/ EndPass
  <2>0. ~Skip
    BY <1>0 DEF Skip, Passes
  <2>1. ~Skip /\ ~Abandon
    BY <2>0 DEF Abandon, IdlePass
  <2>2. CASE ReadExchange
    <3>1. \E answer : pass' = [pass EXCEPT !.seen = answer, !.closing = Closable(answer),
                                           !.pc = AfterRead(answer)]
      BY <2>1, <2>2 DEF ReadExchange
    <3>2. \E answer : pass'.pc = AfterRead(answer)
      BY <1>0, <3>1 DEF Passes
    <3> QED
      BY <3>2 DEF AfterRead
  <2>3. CASE ConfirmRead
    <3>1. pass'.pc \in {"end", "apply", "orphans"}
      BY <1>0, <2>1, <2>3 DEF ConfirmRead, Passes
    <3> QED
      BY <3>1
  <2>4. CASE CloseRows
    BY <1>0, <2>1, <2>4 DEF CloseRows, Passes
  <2> QED
    BY <1>3, <2>1, <2>2, <2>3, <2>4 DEF EndPass
<1> QED
  BY <1>1, <1>2, <1>3 DEF ReconcilePass, PassStep

LEMMA PassStepKeepsOrphans ==
  ASSUME "short" \notin Faults, TypeInv, OrphanInv, ReconcilePass, History PROVE OrphanInv'
<1>3. pass'.pc \in {"again", "close", "poll"} => \E c \in Coins : pass'.closable = {c}
  BY OneClosable
<1> SUFFICES ASSUME calm', ~pass'.dry, ~pass'.skipped PROVE OrphanInv'
  BY <1>3 DEF OrphanInv
<1>0. /\ pass \in Passes /\ lies \in Nat /\ pass.pc # "idle" /\ flat' = flat
      /\ flat.pc = "idle" /\ pos \in [Coins -> Int]
  BY DEF TypeInv, TypeOK, BookTypeOK, OneAtATime, ReconcilePass, PassStep, ReadExchange,
         ConfirmRead, CloseRows, FindOrphans, ReadAgain, CloseOrphan, PollOrphan, EndPass, flatVars
<1>1. CASE pass'.pc \in {"idle", "read"}
  BY <1>1 DEF OrphanInv
<1>2. CASE pass'.pc \notin {"idle", "read"}
  <2>1. calm /\ lies' = lies
    BY <1>0, <1>2 DEF History
  <2>2. ~Skip /\ ~Abandon
    <3>1. ~Skip
      BY <1>0 DEF Skip, Passes
    <3>2. ~Abandon
      BY <1>2 DEF Abandon, IdlePass
    <3> QED
      BY <3>1, <3>2
  <2>3. \A answer \in Answers : lies' = LiesIn(answer) => answer = pos
    BY <1>0, <2>1 DEF LiesIn
  <2>4. CASE ReadExchange
    <3>1. /\ pass' = [pass EXCEPT !.seen = pos, !.closing = Closable(pos), !.pc = AfterRead(pos)]
          /\ pos' = pos
      BY <2>2, <2>3, <2>4 DEF ReadExchange, SamePosition
    <3>2. pass'.seen = pos /\ pass'.dry = pass.dry /\ pass'.pc = AfterRead(pos)
      BY <1>0, <3>1 DEF Passes
    <3>3. pass'.pc \in {"confirm", "orphans"}
      BY <3>2 DEF AfterRead
    <3> QED
      BY <3>1, <3>2, <3>3 DEF OrphanInv
  <2>5. CASE ConfirmRead
    <3>1. /\ pass' = [pass EXCEPT
                !.seen = pos,
                !.closing = IF pass.dry THEN {} ELSE Closable(pos),
                !.pc = IF pass.dry THEN "end"
                       ELSE IF Closable(pos) # {} THEN "apply" ELSE "orphans"]
          /\ pos' = pos
      BY <2>2, <2>3, <2>5 DEF ConfirmRead, SamePosition
    <3>2. pass'.seen = pos /\ pass'.dry = pass.dry
      BY <1>0, <3>1 DEF Passes
    <3>3. pass'.pc \in {"apply", "orphans"}
      BY <1>0, <3>1, <3>2 DEF Passes
    <3> QED
      BY <3>1, <3>2, <3>3 DEF OrphanInv
  <2>6. CASE CloseRows
    <3>1. PICK priced : pass' = [pass EXCEPT !.pc = "orphans", !.closing = priced]
      BY <2>2, <2>6 DEF CloseRows
    <3>2. /\ pass'.pc = "orphans" /\ pass'.seen = pass.seen /\ pass'.dry = pass.dry
          /\ pass'.skipped = pass.skipped
      BY <1>0, <3>1 DEF Passes
    <3>3. pass.pc = "apply" /\ pos' = pos
      BY <2>6 DEF CloseRows
    <3> QED
      BY <2>1, <3>2, <3>3 DEF OrphanInv
  <2>7. CASE FindOrphans
    <3> DEFINE orphans == {c \in Coins : pass.seen[c] # 0 /\ HoldersOn(c) = {}}
               closable == IF pass.hold \/ Cardinality(orphans \intersect Traded) > 1
                           THEN {} ELSE orphans \intersect Traded
    <3>1. /\ pass' = [pass EXCEPT !.orphans = orphans, !.closable = closable,
                               !.unresolved = closable, !.held = orphans \ closable,
                               !.pc = IF closable = {} THEN "end" ELSE "again"]
          /\ UNCHANGED <<row, pos>> /\ pass.pc = "orphans"
      BY <2>2, <2>7 DEF FindOrphans, SamePosition
    <3>2. pass.seen = pos => orphans = Uncovered
      BY DEF Uncovered
    <3> HIDE DEF orphans, closable
    <3>3. /\ pass'.seen = pass.seen /\ pass'.dry = pass.dry /\ pass'.skipped = pass.skipped
          /\ pass'.unresolved = closable /\ pass'.held = orphans \ closable
          /\ pass'.closable = closable /\ pass'.pc \in {"end", "again"}
      BY <1>0, <3>1 DEF Passes
    <3>4. pass.seen = pos
      BY <2>1, <3>1, <3>3 DEF OrphanInv
    <3> QED
      BY <1>3, <3>1, <3>2, <3>3, <3>4, UncoveredKept DEF OrphanInv
  <2>8. CASE ReadAgain
    <3>1. PassGoto("end") \/ PassGoto("close")
      BY <2>8 DEF ReadAgain
    <3>2. /\ UNCHANGED <<row, pos>> /\ pass.pc = "again"
      BY <2>8 DEF ReadAgain, SamePosition
    <3>3. /\ pass'.seen = pass.seen /\ pass'.dry = pass.dry /\ pass'.skipped = pass.skipped
          /\ pass'.unresolved = pass.unresolved /\ pass'.held = pass.held
          /\ pass'.closable = pass.closable /\ pass'.pc \in {"end", "close"}
      BY <1>0, <3>1 DEF PassGoto, Passes
    <3> QED
      BY <1>3, <2>1, <3>2, <3>3, UncoveredKept DEF OrphanInv
  <2>9. CASE CloseOrphan \/ PollOrphan
    <3>1. pass'.dry = pass.dry /\ pass'.skipped = pass.skipped
      BY <1>0, <2>9 DEF CloseOrphan, PollOrphan, PassGoto, Passes
    <3> QED
      BY <2>1, <2>9, <3>1, OrphanCloseKeeps, OrphanPollKeeps
  <2>10. ~EndPass
    BY <2>2 DEF EndPass
  <2> QED
    BY <2>4, <2>5, <2>6, <2>7, <2>8, <2>9, <2>10 DEF ReconcilePass, PassStep
<1> QED
  BY <1>1, <1>2

LEMMA NextOrphanInv ==
  ASSUME "short" \notin Faults, TypeInv, OrphanInv, [Next]_vars PROVE OrphanInv'
<1>1. CASE UNCHANGED vars
  <2>1. UNCHANGED <<row, pos, pass, calm, inflight>>
    BY <1>1 DEF vars, bookVars
  <2> QED
    BY <2>1, UncoveredKept DEF OrphanInv, AfterPoll, OrphanPolling
<1>2. CASE Next /\ pass.pc # "idle"
  <2>1. CASE ReconcilePass
    BY <1>2, <2>1, PassStepKeepsOrphans DEF Next
  <2>2. CASE Crash
    BY <2>2 DEF Crash, IdlePass, OrphanInv
  <2>3. CASE Environment
    <3>1. pass' = pass /\ row' = row /\ History /\ pos \in [Coins -> Int] /\ pass \in Passes
          /\ flat.pc = "idle"
      BY <1>2, <2>3, EnvironmentKeeps DEF TypeInv, TypeOK, BookTypeOK, OneAtATime, Next
    <3>2. calm' => calm
      BY <1>2, <2>3, <3>1, EnvironmentKeeps DEF History
    <3>3. CASE pass.pc # "poll"
      <4>1. calm' => pos' = pos
        BY <1>2, <2>3, <3>1, <3>3, EnvironmentKeeps DEF History, OwnMoves
      <4> QED
        BY <3>1, <3>2, <3>3, <4>1, UncoveredKept DEF OrphanInv, AfterPoll
    <3>4. CASE pass.pc = "poll"
      <4>0. PICK c \in Coins : pass.closable = {c}
        BY <3>4 DEF OrphanInv
      <4> SUFFICES ASSUME calm', ~pass.dry, ~pass.skipped
                   PROVE  /\ OrphanPolling'
                          /\ Uncovered' \subseteq pass.unresolved \union pass.held
        BY <3>1, <3>2, <3>4 DEF OrphanInv
      <4>1. /\ calm /\ c \in pass.unresolved /\ OrphanPolling
            /\ Uncovered \subseteq pass.unresolved \union pass.held
            /\ \A o \in inflight : o.coin = c
        BY <3>1, <3>2, <3>4, <4>0 DEF OrphanInv, OrphanPolling
      <4>2. inflight' \subseteq inflight /\ \A d \in Coins \ {c} : pos'[d] = pos[d]
        BY <1>2, <2>3, <3>1, <4>1, PolledMoves
      <4>3. OrphanPolling'
        BY <3>1, <4>1, <4>2 DEF OrphanPolling
      <4>4. \A d : HoldersOn(d)' = HoldersOn(d)
        BY <3>1 DEF HoldersOn, Holders, Holds
      <4>5. Uncovered' \subseteq Uncovered \union {c}
        BY <4>2, <4>4 DEF Uncovered
      <4> QED
        BY <4>1, <4>3, <4>5
    <3> QED
      BY <3>3, <3>4
  <2> QED
    BY <1>2, <2>1, <2>2, <2>3, PassRunsAlone DEF Next
<1>3. CASE Next /\ pass.pc = "idle"
  <2>1. pass'.pc \in {"idle", "read"}
    <3>1. CASE Boot \/ TickWithPass
      BY <3>1 DEF Boot, TickWithPass, BeginPass, IdlePass
    <3>2. CASE Crash
      BY <3>2 DEF Crash, IdlePass
    <3>3. CASE ~Boot /\ ~TickWithPass /\ ~Crash
      <4>1. ~ReconcilePass
        BY <1>3 DEF ReconcilePass, PassStep, ReadExchange, ConfirmRead, CloseRows, FindOrphans,
           ReadAgain, CloseOrphan, PollOrphan, EndPass
      <4>2. pass' = pass
        BY <1>3, <3>3, <4>1, EnvironmentKeeps DEF Next, Step, Restore, TickWithoutPass,
           ReadPaused, StartFlatAll, RunFlatAll, RunStrategy, EndTick, ExecuteSignal
      <4> QED
        BY <1>3, <4>2
    <3> QED
      BY <3>1, <3>2, <3>3
  <2> QED
    BY <2>1 DEF OrphanInv
<1> QED
  BY <1>1, <1>2, <1>3

(* With answered orders that fill in full: a pass that lets opens resume   *)
(* leaves no traded coin with a position and no row - unless it had to     *)
(* leave it and put the bot on hold instead, or its close timed out and    *)
(* the poll took one lot that was left for filled.                         *)
THEOREM CountedPassIsClean ==
  ASSUME "short" \notin Faults PROVE Spec => CountedPassLeavesNoOrphan
<1>1. Init => OrphanInv
  BY DEF Init, IdlePass, OrphanInv
<1>2. TypeInv /\ OrphanInv /\ [Next]_vars => OrphanInv'
  BY NextOrphanInv
<1>3. TypeInv /\ OrphanInv /\ [Next]_vars
         => [pass.pc = "end" /\ pass'.pc = "idle" /\ phase' # "down" /\ Counts /\ calm
             => ctl' = "set" \/ \A c \in Traded :
                   HoldersOn(c) = {} => FlatUpToPoll(c, pass.taken)]_vars
  <2> SUFFICES ASSUME TypeInv, OrphanInv, Next, pass.pc = "end", pass'.pc = "idle",
                      phase' # "down", Counts, calm, NEW c \in Traded, HoldersOn(c) = {},
                      ~FlatUpToPoll(c, pass.taken)
               PROVE  ctl' = "set"
    BY DEF vars
  <2>1. EndPass
    <3>1. ~Crash /\ ~Environment
      BY EnvironmentKeeps DEF Crash
    <3>2. ReconcilePass
      BY <3>1, PassRunsAlone DEF Next
    <3> QED
      BY <3>2 DEF ReconcilePass, PassStep, ReadExchange, ConfirmRead, CloseRows, FindOrphans,
         ReadAgain, CloseOrphan, PollOrphan
  <2>2. c \in Uncovered /\ c \notin AfterPoll
    BY BookAssumption DEF Traded, Uncovered, AfterPoll, FlatUpToPoll
  <2>3. c \in pass.held
    BY <2>2 DEF OrphanInv, Counts
  <2>4. ctl \in {"none", "set"}
    BY DEF Counts, TypeInv, TypeOK, BookTypeOK
  <2> QED
    BY <2>1, <2>3, <2>4 DEF EndPass, HeldTraded
<1> QED
  BY <1>1, <1>2, <1>3, Typed, PTL DEF Spec, CountedPassLeavesNoOrphan

-----------------------------------------------------------------------------
(* A flip.  The strategy was on the other side or out, has switched its    *)
(* own flags ahead of both orders, and each end of the job must bring them *)
(* back to what the row says by then.                                      *)
FlipInv ==
    /\ job.pc = "begin" => job.old # job.want /\ belief[S] = job.want
    /\ job.flip =>
          /\ job.pc \notin {"idle", "begin"}
          /\ job.old # job.want
          /\ job.leg = "close" => row[S].side # job.want
          /\ job.leg = "open" => job.pc \in {"send", "poll", "book", "verify", "unfilled"}
          /\ Trading => belief[S] = job.want
          /\ job.pc = "verify" /\ job.leg = "close" /\ Remaining = 0 => belief[S] = job.want
          /\ job.pc = "verify" /\ job.leg = "open" => belief[S] = row[S].side
          /\ job.pc = "unfilled" /\ job.leg = "open" => ~Holds(S)

(* How a job stops while the database answers. *)
LEMMA WhatStops ==
  ASSUME "db" \notin Faults, TypeInv, ExecuteSignal, ~Trading', ~Answered'
  PROVE  \/ Done
         \/ /\ row' = row
            /\ \/ Goto("align") /\ job.flip /\ job.leg = "close"
               \/ job.pc = "align" /\ Goto("raised")
<1>0. job \in Jobs /\ job'.pc \notin {"send", "poll", "book", "resolve", "verify", "unfilled",
                                      "confirm", "recheck", "settle"}
  BY DEF TypeInv, TypeOK, Trading, Sending, Answered
<1>1. ASSUME NEW pc \in {"verify", "unfilled", "confirm", "recheck", "settle"},
             Goto(pc) \/ \E why : GotoBecause(pc, why)
      PROVE  FALSE
  BY <1>0, <1>1 DEF Goto, GotoBecause, Jobs
<1>2. ~OrderFills /\ ~OrderTimesOut /\ ~PollSeesFill
  BY <1>0 DEF OrderFills, OrderTimesOut, PollSeesFill, Jobs
<1>3. ~OrderRefused /\ ~OrderTimesOutUnread /\ ~PollGivesUp /\ ~BookFill /\ ~CloseNotFilled
  BY <1>1 DEF OrderRefused, OrderTimesOutUnread, PollGivesUp, BookFill, CloseNotFilled
<1>4. ~BookFails /\ ~PnlReadFails
  BY DEF BookFails, PnlReadFails, DbFails
<1>5. BeginOpen => Done
  BY <1>0 DEF BeginOpen, DbFails, Jobs
<1>6. ResolveClose => Done
  <2>1. \A n : job' # [job EXCEPT !.pc = "send", !.asked = n]
    BY <1>0 DEF Jobs
  <2> QED
    BY <2>1 DEF ResolveClose, DbFails
<1>7. LegFailed => Done \/ (Goto("align") /\ job.flip /\ job.leg = "close")
  BY DEF LegFailed
<1>8. LegSucceeded => Done
  BY <1>0 DEF LegSucceeded, Jobs
<1>9. VerifyParity => row' = row /\ (LegSucceeded \/ LegFailed)
  BY DEF VerifyParity
<1>10. CloseDropped => row' = row /\ LegFailed
  BY DEF CloseDropped, NoTrade, account
<1>11. ConfirmClose => row' = row /\ (LegFailed \/ Done)
  <2>1. ~Goto(IF job.pc = "confirm" THEN "recheck" ELSE "settle")
    BY <1>1
  <2> QED
    BY <2>1 DEF ConfirmClose, StillHeld
<1>12. SettleExternal => Done \/ (row' = row /\ LegFailed)
  BY DEF SettleExternal
<1>13. Align => Done \/ (row' = row /\ job.pc = "align" /\ Goto("raised"))
  BY DEF Align, NoTrade, account
<1>14. OpenNotFilled \/ RaiseHandled => Done
  BY DEF OpenNotFilled, RaiseHandled
<1> QED
  BY <1>2, <1>3, <1>4, <1>5, <1>6, <1>7, <1>8, <1>9, <1>10, <1>11, <1>12, <1>13, <1>14
     DEF ExecuteSignal, SignalStep, PlaceOrder

LEMMA NextFlipInv ==
  ASSUME "db" \notin Faults, TypeInv, AskInv, LegInv, FlipInv, [Next]_vars PROVE FlipInv'
<1>0. /\ job \in Jobs /\ row \in [Strategies -> Rows] /\ belief \in [Strategies -> Stances]
      /\ job.pc # "idle" => S \in Strategies
      /\ job.flip => job.want \in Sides
  BY DEF TypeInv, TypeOK, BookTypeOK, JobOK, S, FlipInv
<1>1. CASE UNCHANGED <<job, row, belief>>
  BY <1>1 DEF FlipInv, Trading, Sending, S, Holds, Remaining
<1>2. CASE job' = IdleJob
  BY <1>2 DEF FlipInv, IdleJob
<1>3. CASE RunStrategy
  <2>1. PICK s \in Strategies, want \in Stances : Signal(s, want)
    BY <1>3 DEF RunStrategy, TypeInv, TypeOK
  <2>2. /\ job'.strat = s /\ job'.want = want /\ job'.old = belief[s] /\ job'.flip = FALSE
        /\ belief[s] # want /\ belief'[s] = want
    BY <1>0, <2>1 DEF Signal, IdleJob
  <2> QED
    BY <2>2 DEF FlipInv, S
<1>4. CASE BeginOpen /\ Trading'
  <2>1. /\ job.pc = "begin" /\ UNCHANGED <<row, belief>> /\ row[S].side # job.want
        /\ job.leg = "close" /\ job.flip = FALSE
    BY <1>4, BeginTrades
  <2>2. job'.strat = job.strat /\ job'.want = job.want /\ job'.old = job.old
    BY <1>0, <1>4, BeginTrades DEF Jobs
  <2>3. \/ job'.pc = "send" /\ job'.flip = FALSE
        \/ job'.pc = "resolve" /\ job'.leg = "close"
    <3>1. CASE job' = [job EXCEPT !.pc = "send", !.leg = "open", !.asked = OrderLots]
      BY <1>0, <2>1, <3>1 DEF Jobs
    <3>2. CASE job' = [job EXCEPT !.pc = "resolve", !.flip = TRUE]
      BY <1>0, <2>1, <3>2 DEF Jobs
    <3>3. CASE job' = [job EXCEPT !.pc = "resolve", !.flip = TRUE, !.refused = TRUE]
      BY <1>0, <2>1, <3>3 DEF Jobs
    <3> QED
      BY <1>4, <3>1, <3>2, <3>3, BeginTrades
  <2> QED
    BY <2>1, <2>2, <2>3 DEF FlipInv, S
<1>5. CASE ResolveClose /\ Trading'
  <2>1. /\ UNCHANGED <<row, belief>> /\ job.pc = "resolve" /\ job.leg = "close"
        /\ job'.pc = "send" /\ job'.strat = job.strat /\ job'.want = job.want
        /\ job'.old = job.old /\ job'.flip = job.flip /\ job'.leg = job.leg
    BY <1>0, <1>5, ResolveTrades DEF Jobs, AskInv
  <2> QED
    BY <2>1 DEF FlipInv, S, Trading
<1>6. CASE OrderFills \/ OrderTimesOut \/ PollSeesFill
  <2>1. UNCHANGED <<row, belief>> /\ job.pc \in {"send", "poll"} /\ job'.pc \in {"poll", "book"}
    BY <1>0, <1>6 DEF OrderFills, OrderTimesOut, PollSeesFill, NoTrade, account, Jobs
  <2>2. /\ job'.strat = job.strat /\ job'.want = job.want
        /\ job'.old = job.old /\ job'.flip = job.flip /\ job'.leg = job.leg
    BY <1>0, <1>6 DEF OrderFills, OrderTimesOut, PollSeesFill, Jobs
  <2> QED
    BY <2>1, <2>2 DEF FlipInv, S, Trading, Sending
<1>7. CASE VerifyParity /\ Trading'
  <2>1. job.pc = "verify" /\ job.leg = "close" /\ Remaining = 0 /\ UNCHANGED <<row, belief>>
    BY <1>7, VerifyTrades
  <2>2. job' = [job EXCEPT !.pc = "send", !.leg = "open", !.asked = OrderLots, !.got = 0,
                           !.why = "none"]
    BY <1>7, VerifyTrades
  <2>3. /\ job'.pc = "send" /\ job'.leg = "open" /\ job'.strat = job.strat
        /\ job'.want = job.want /\ job'.old = job.old /\ job'.flip = job.flip
    BY <1>0, <2>2 DEF Jobs
  <2> QED
    BY <2>1, <2>3 DEF FlipInv, S
<1>8. CASE BookFill
  <2>1. /\ job.pc = "book" /\ Sending /\ Trading /\ S \in Strategies /\ job.leg \in Legs
        /\ row' = [row EXCEPT ![S] = BookedRow]
        /\ Remaining > 0 \/ belief' = belief
    BY <1>0, <1>8 DEF BookFill, Sending, Trading, KeepBelief, Jobs
  <2>2. /\ job'.pc = "verify" /\ job'.leg = job.leg /\ job'.strat = job.strat
        /\ job'.want = job.want /\ job'.old = job.old /\ job'.flip = job.flip
        /\ job'.asked = job.asked /\ job'.got = job.got
    BY <1>0, <1>8 DEF BookFill, Goto, Jobs
  <2>3. Remaining' = Remaining /\ S' = S
    BY <2>2 DEF Remaining, S
  <2>4. CASE job.leg = "open"
    <3>1. Remaining = 0 /\ row'[S].side = job.want /\ belief' = belief
      BY <1>0, <2>1, <2>4 DEF Remaining, BookedRow
    <3> QED
      BY <2>1, <2>2, <2>3, <2>4, <3>1 DEF FlipInv, Trading, Sending
  <2>5. CASE job.leg = "close"
    <3>1. row'[S].side \in {row[S].side, "flat"}
      BY <1>0, <2>1, <2>5 DEF BookedRow, Rows, NoRow
    <3>2. Remaining = 0 => belief' = belief
      BY <2>1
    <3> QED
      BY <1>0, <2>1, <2>2, <2>3, <2>5, <3>1, <3>2 DEF FlipInv, Trading, Sending, Sides
  <2> QED
    BY <2>1, <2>4, <2>5 DEF Legs
<1>9. CASE OrderRefused \/ OrderTimesOutUnread \/ PollGivesUp
  <2>1. UNCHANGED <<row, belief>> /\ Sending
    BY <1>9 DEF OrderRefused, OrderTimesOutUnread, PollGivesUp, NoTrade, account, Sending
  <2>2. /\ job'.pc = "unfilled" /\ job'.leg = job.leg /\ job'.strat = job.strat
        /\ job'.want = job.want /\ job'.old = job.old /\ job'.flip = job.flip
    BY <1>0, <1>9 DEF OrderRefused, OrderTimesOutUnread, PollGivesUp, GotoBecause, Jobs
  <2> QED
    BY <2>1, <2>2 DEF FlipInv, LegInv, S, Trading, Sending, Holds
<1>10. CASE \/ CloseNotFilled
            \/ ConfirmClose /\ Goto(IF job.pc = "confirm" THEN "recheck" ELSE "settle")
  <2>1. /\ row' = row /\ job.leg = "close"
        /\ job'.pc \in {"confirm", "recheck", "settle"} /\ job'.leg = job.leg
        /\ job'.strat = job.strat /\ job'.want = job.want /\ job'.old = job.old
        /\ job'.flip = job.flip
    BY <1>0, <1>10 DEF CloseNotFilled, ConfirmClose, NoTrade, account, Goto, Jobs, LegInv
  <2> QED
    BY <2>1 DEF FlipInv, S, Trading, Sending
<1>11. CASE /\ row' = row
            /\ \/ Goto("align") /\ job.leg = "close"
               \/ job.pc = "align" /\ Goto("raised")
  <2>1. /\ job'.pc \in {"align", "raised"} /\ job'.leg = job.leg
        /\ job'.strat = job.strat /\ job'.want = job.want /\ job'.old = job.old
        /\ job'.flip = job.flip
    BY <1>0, <1>11 DEF Goto, Jobs
  <2>2. job.flip => job.leg = "close"
    BY <1>0, <1>11 DEF FlipInv, Jobs, Legs
  <2> QED
    BY <1>11, <2>1, <2>2 DEF FlipInv, S, Trading, Sending
<1>12. CASE job' = job /\ job.pc = "idle"
  BY <1>12 DEF FlipInv
<1>13. UNCHANGED vars => UNCHANGED <<job, row, belief>>
  BY DEF vars, bookVars
<1>14. Crash => job' = IdleJob
  BY DEF Crash
<1>15. Environment => UNCHANGED <<job, row, belief>>
  BY EnvironmentKeeps
<1>16. CASE Step /\ Trading'
  BY <1>1, <1>3, <1>4, <1>5, <1>6, <1>7, <1>15, <1>16, WhatSends
<1>17. CASE Step /\ Answered'
  BY <1>1, <1>8, <1>9, <1>10, <1>15, <1>17, WhatFollows
<1>18. CASE Step /\ ~Trading' /\ ~Answered'
  <2>1. CASE job.pc = "idle"
    BY <1>2, <1>3, <1>12, <1>14, <1>18, <2>1, IdleJobWaits
  <2>2. CASE ExecuteSignal
    BY <1>2, <1>11, <1>18, <2>2, WhatStops DEF Done
  <2> QED
    BY <1>1, <1>2, <1>14, <1>15, <1>18, <2>1, <2>2, JobRunsAlone
<1> QED
  BY <1>1, <1>13, <1>16, <1>17, <1>18 DEF Next

(* Whatever ends a flip: the belief it leaves is the row's side. *)
LEMMA FlipEnds ==
  ASSUME "db" \notin Faults, TypeInv, AskInv, LegInv, FlipInv, ExecuteSignal, job.flip,
         job.pc # "raised", job'.pc = "idle"
  PROVE  belief'[job.strat] = row'[job.strat].side
<1>0. /\ job \in Jobs /\ row \in [Strategies -> Rows] /\ belief \in [Strategies -> Stances]
      /\ job.pc \notin {"idle", "begin"} /\ S = job.strat /\ S \in Strategies
      /\ job.want \in Sides /\ job.leg \in Legs /\ job.old \in Stances /\ job.old # job.want
      /\ row[S] \in Rows
  BY DEF TypeInv, TypeOK, BookTypeOK, JobOK, S, FlipInv, Jobs
<1>15. job \in Jobs /\ job'.pc \notin {"send", "poll", "book"}
  BY <1>0
<1>1. ASSUME NEW pc \in PCs \ {"idle"}, Goto(pc) \/ \E why : GotoBecause(pc, why)
      PROVE  FALSE
  BY <1>0, <1>1 DEF Goto, GotoBecause, Jobs
<1>2. ~LegFailed \/ (Done /\ KeepBelief /\ job.leg = "open")
  BY <1>0, <1>1 DEF LegFailed, PCs, Legs
<1>3. ASSUME Believe("flat"), (row' = row /\ ~Holds(S)) \/ row'[S] = NoRow
      PROVE  belief'[S] = row'[S].side
  BY <1>0, <1>3 DEF Believe, Holds, NoRow
<1>4. ASSUME Resync, row' = row, Holds(S), job.leg = "close" PROVE belief'[S] = row'[S].side
  <2>1. row[S].side \in Sides /\ row[S].side # job.want
    BY <1>0, <1>4 DEF FlipInv, Rows, Holds
  <2>2. job.old \in {row[S].side, "flat"}
    BY <1>0, <2>1 DEF Sides, Stances
  <2>3. belief' = [belief EXCEPT ![S] = row[S].side]
    BY <1>4, <2>2 DEF Resync, Believe
  <2> QED
    BY <1>0, <1>4, <2>3
<1>5. CASE ResolveClose
  <2>1. row' = row /\ LegSide = row[S].side
    BY <1>0, <1>5 DEF ResolveClose, NoTrade, account, LegSide, AskInv
  <2>2. \A n : job' # [job EXCEPT !.pc = "send", !.asked = n]
    BY <1>15 DEF Jobs
  <2>3. ~Holds(S) /\ Believe("flat")
    BY <1>5, <2>1, <2>2 DEF ResolveClose, DbFails
  <2> QED
    BY <1>0, <1>3, <2>1, <2>3
<1>6. CASE VerifyParity
  <2>1. row' = row /\ job.pc = "verify" /\ (LegFailed \/ (Remaining = 0 /\ LegSucceeded))
    BY <1>6 DEF VerifyParity
  <2>2. CASE job.leg = "open"
    <3>1. belief' = belief
      BY <1>2, <2>1, <2>2 DEF LegSucceeded, KeepBelief
    <3> QED
      BY <1>0, <2>1, <2>2, <3>1 DEF FlipInv
  <2>3. CASE job.leg = "close"
    <3>1. Remaining = 0 /\ LegSucceeded
      BY <1>2, <2>1, <2>3
    <3>2. \A n : job' # [job EXCEPT !.pc = "send", !.leg = "open", !.asked = OrderLots,
                                    !.got = 0, !.why = "none"]
      BY <1>15 DEF Jobs
    <3>3. Believe("flat")
      BY <2>3, <3>1, <3>2 DEF LegSucceeded
    <3>4. ~Holds(S)
      BY <2>1, <2>3, <3>1 DEF LegInv
    <3> QED
      BY <1>0, <1>3, <2>1, <3>3, <3>4
  <2> QED
    BY <1>0, <2>2, <2>3 DEF Legs
<1>7. CASE OpenNotFilled
  BY <1>0, <1>3, <1>7 DEF OpenNotFilled, NoTrade, account, FlipInv
<1>8. ~CloseDropped
  BY <1>2 DEF CloseDropped
<1>9. CASE ConfirmClose
  <2>1. row' = row /\ job.pc \in {"confirm", "recheck"} /\ job.leg = "close" /\ Holds(S)
    BY <1>9 DEF ConfirmClose, LegInv
  <2>2. ~Goto(IF job.pc = "confirm" THEN "recheck" ELSE "settle")
    BY <1>1 DEF PCs
  <2>3. StillHeld
    BY <1>9, <2>2 DEF ConfirmClose
  <2>4. Resync
    BY <1>2, <2>1, <2>3 DEF StillHeld
  <2> QED
    BY <1>0, <1>4, <2>1, <2>4
<1>10. CASE SettleExternal
  <2>1. job.leg = "close"
    BY <1>10 DEF SettleExternal, LegInv
  <2>2. row' = [row EXCEPT ![S] = NoRow] /\ Believe("flat")
    BY <1>2, <1>10, <2>1 DEF SettleExternal
  <2> QED
    BY <1>0, <1>3, <2>2
<1>11. CASE Align
  <2>1. row' = row /\ job.leg = "close" /\ job.pc = "align"
    BY <1>0, <1>11 DEF Align, NoTrade, account, FlipInv, Legs
  <2>2. IF Holds(S) THEN Resync ELSE Believe("flat")
    BY <1>11 DEF Align, DbFails
  <2> QED
    BY <1>0, <1>3, <1>4, <2>1, <2>2
<1>12. ~(OrderRefused \/ OrderTimesOutUnread \/ PollGivesUp \/ BookFill \/ CloseNotFilled)
  BY <1>1 DEF OrderRefused, OrderTimesOutUnread, PollGivesUp, BookFill, CloseNotFilled, PCs
<1>13. ~(OrderFills \/ OrderTimesOut \/ PollSeesFill)
  BY <1>15 DEF OrderFills, OrderTimesOut, PollSeesFill, Jobs
<1>14. ~(BeginOpen \/ BookFails \/ PnlReadFails \/ RaiseHandled)
  BY <1>0 DEF BeginOpen, BookFails, PnlReadFails, RaiseHandled, DbFails
<1> QED
  BY <1>0, <1>5, <1>6, <1>7, <1>8, <1>9, <1>10, <1>11, <1>12, <1>13, <1>14
     DEF ExecuteSignal, SignalStep, PlaceOrder

LEMMA LegsSafe == Spec => []LegInv
<1>1. Init => LegInv
  BY DEF Init, IdleJob, LegInv, Sending
<1>2. TypeInv /\ AskInv /\ LegInv /\ [Next]_vars => LegInv'
  BY NextLegInv
<1> QED
  BY <1>1, <1>2, Typed, LoadSafe, PTL DEF Spec

(* While the database answers, every way a flip ends without an exception  *)
(* - refused, filled short, dropped, settled by hand, its second order not *)
(* filled - leaves the strategy on the side of its row.                    *)
THEOREM FlipEndsRight ==
  ASSUME "db" \notin Faults PROVE Spec => FlipEndsOnRow
<1>1. Init => FlipInv
  BY DEF Init, IdleJob, FlipInv
<1>2. TypeInv /\ AskInv /\ LegInv /\ FlipInv /\ [Next]_vars => FlipInv'
  BY NextFlipInv
<1>3. TypeInv /\ AskInv /\ LegInv /\ FlipInv /\ [Next]_vars
         => [job.flip /\ job.pc # "raised" /\ job'.pc = "idle" /\ phase' # "down"
             => belief'[job.strat] = row'[job.strat].side]_vars
  <2> SUFFICES ASSUME TypeInv, AskInv, LegInv, FlipInv, Next, job.flip, job.pc # "raised",
                      job'.pc = "idle", phase' # "down"
               PROVE  belief'[job.strat] = row'[job.strat].side
    BY DEF vars
  <2>1. job.pc # "idle"
    BY DEF FlipInv
  <2>2. ~Crash /\ ~Environment
    BY <2>1, EnvironmentKeeps DEF Crash
  <2>3. ExecuteSignal
    BY <2>1, <2>2, JobRunsAlone DEF Next
  <2> QED
    BY <2>3, FlipEnds
<1> QED
  BY <1>1, <1>2, <1>3, Typed, LoadSafe, LegsSafe, PTL DEF Spec, FlipEndsOnRow

-----------------------------------------------------------------------------
(* What a check in progress knows of the rows that were backed throughout  *)
(* it, when at most one answer is partial: an answer that made one of them *)
(* a candidate was that one, so the confirming read is true.               *)
NoMoreLies == ~(lies < MaxLies)

BackedInv ==
    /\ steady # {} => Checking
    /\ steady \subseteq BackedRows
    /\ pass.pc = "confirm" => steady = {} \/ NoMoreLies
    /\ pass.pc = "apply" => pass.closing \intersect steady = {}
    /\ job.pc = "recheck" => S \notin steady \/ NoMoreLies
    /\ job.pc = "settle" => S \notin steady

LEMMA TrueOrOneOff ==
  ASSUME MaxLies <= 1, TypeInv, NEW answer \in Answers, lies' = LiesIn(answer)
  PROVE  /\ answer = pos \/ NoMoreLies'
         /\ NoMoreLies => answer = pos
  BY BookAssumption DEF TypeInv, TypeOK, BookTypeOK, Answers, LiesIn, NoMoreLies

(* On the bot's one coin a row that is not backed means none is. *)
LEMMA UnbackedAlike ==
  ASSUME RowInv, \A c, d \in Coins : c = d, Closable(pos) # {} PROVE BackedRows = {}
<1>1. row \in [Strategies -> Rows] /\ NoOppositeRows
  BY DEF RowInv, TypeInv, TypeOK, BookTypeOK
<1>2. PICK t \in Holders : HeldOnSide(pos[CoinOf[t]], row[t].side) = 0
  BY DEF Closable
<1>3. SUFFICES ASSUME NEW s \in BackedRows PROVE FALSE
  OBVIOUS
<1>4. s \in Holders /\ HeldOnSide(pos[CoinOf[s]], row[s].side) > 0
  BY <1>3 DEF BackedRows, Holders, Backed
<1>5. CoinOf[s] = CoinOf[t]
  BY <1>2, <1>4, BookAssumption DEF Holders
<1>6. row[s].side = row[t].side
  BY <1>1, <1>2, <1>4, <1>5 DEF NoOppositeRows
<1> QED
  BY <1>2, <1>4, <1>5, <1>6

LEMMA ReadSparesBacked ==
  ASSUME MaxLies <= 1, MaxLies = 0 \/ \A c, d \in Coins : c = d, RowInv, BackedInv,
         ReadExchange \/ ConfirmRead, steady' \subseteq steady \intersect BackedRows'
  PROVE  /\ pass'.pc = "confirm" => steady' = {} \/ NoMoreLies'
         /\ pass'.pc = "apply" => pass'.closing \intersect steady' = {}
<1>0. /\ pass \in Passes /\ TypeInv /\ UNCHANGED <<row, pos>> /\ lies \in Nat
      /\ pass.pc \in {"read", "confirm"}
  BY DEF RowInv, TypeInv, TypeOK, BookTypeOK, ReadExchange, ConfirmRead, SamePosition
<1>1. BackedRows' = BackedRows
  BY <1>0 DEF BackedRows, Holds, Backed
<1>2. CASE Skip \/ Abandon
  <2>1. Skip => pass'.pc = "end"
    BY <1>0 DEF Skip, Passes
  <2>2. Abandon => pass'.pc = "idle"
    BY DEF Abandon, IdlePass
  <2> QED
    BY <1>2, <2>1, <2>2
<1>3. ASSUME NEW answer \in Answers, lies' = LiesIn(answer),
             pass' = [pass EXCEPT !.seen = answer, !.closing = Closable(answer),
                                  !.pc = AfterRead(answer)]
      PROVE  /\ pass'.pc = "confirm" => steady' = {} \/ NoMoreLies'
             /\ pass'.pc # "apply"
  <2>1. pass'.pc = AfterRead(answer)
    BY <1>0, <1>3 DEF Passes
  <2>2. pass'.pc # "apply"
    BY <2>1 DEF AfterRead
  <2>3. ASSUME pass'.pc = "confirm" PROVE steady' = {} \/ NoMoreLies'
    <3>1. Closable(answer) # {}
      BY <2>1, <2>3 DEF AfterRead
    <3>2. answer = pos \/ NoMoreLies'
      BY <1>0, <1>3, TrueOrOneOff
    <3>3. MaxLies = 0 => NoMoreLies'
      <4>1. lies' \in Nat
        BY <1>0, <1>3, LiesNat
      <4> QED
        BY <4>1 DEF NoMoreLies
    <3>4. answer = pos /\ MaxLies # 0 => BackedRows = {}
      BY <3>1, UnbackedAlike
    <3> QED
      BY <1>1, <3>2, <3>3, <3>4
  <2> QED
    BY <2>2, <2>3
<1>4. ASSUME pass.pc = "confirm",
             NEW answer \in Answers, lies' = LiesIn(answer),
             pass' = [pass EXCEPT
                !.seen = answer,
                !.closing = IF pass.dry THEN {} ELSE Closable(answer),
                !.pc = IF pass.dry THEN "end"
                       ELSE IF Closable(answer) # {} THEN "apply" ELSE "orphans"],
             steady' = {} \/ NoMoreLies
      PROVE  /\ pass'.pc # "confirm"
             /\ pass'.closing \intersect steady' = {}
  <2>1. /\ pass'.pc \in {"end", "apply", "orphans"}
        /\ pass'.closing = {} \/ pass'.closing = Closable(answer)
    BY <1>0, <1>4 DEF Passes
  <2>2. NoMoreLies => answer = pos
    BY <1>0, <1>4, TrueOrOneOff
  <2>3. Closable(pos) \intersect BackedRows = {}
    BY DEF Closable, BackedRows, Backed
  <2> QED
    BY <1>1, <1>4, <2>1, <2>2, <2>3
<1>5. CASE ReadExchange
  BY <1>2, <1>3, <1>5 DEF ReadExchange
<1>6. CASE ConfirmRead
  <2>1. pass.pc = "confirm" /\ (steady' = {} \/ NoMoreLies)
    BY <1>6 DEF ConfirmRead, BackedInv
  <2> QED
    BY <1>2, <1>4, <1>6, <2>1 DEF ConfirmRead
<1> QED
  BY <1>5, <1>6

LEMMA ChecksKeepBacked ==
  ASSUME MaxLies <= 1, TypeInv, BackedInv, ExecuteSignal,
         steady' \subseteq steady \intersect BackedRows' \/ ~Checking
  PROVE  /\ job'.pc = "recheck" => S' \notin steady' \/ NoMoreLies'
         /\ job'.pc = "settle" => S' \notin steady'
<1>0. job \in Jobs
  BY DEF TypeInv, TypeOK
<1>1. SUFFICES ASSUME job'.pc \in {"recheck", "settle"}
               PROVE  S' \notin steady' \/ (job'.pc = "recheck" /\ NoMoreLies')
  OBVIOUS
<1>2. ASSUME NEW pc \in PCs \ {"recheck", "settle"}, Goto(pc) \/ \E why : GotoBecause(pc, why)
      PROVE  FALSE
  BY <1>0, <1>1, <1>2 DEF Goto, GotoBecause, Jobs
<1>3. ~Done
  BY <1>1 DEF Done, IdleJob
<1>4. ~LegFailed /\ ~Raise /\ ~StillHeld
  BY <1>2, <1>3 DEF LegFailed, Raise, StillHeld, PCs
<1>5. ~LegSucceeded
  BY <1>0, <1>1, <1>3 DEF LegSucceeded, Jobs
<1>6. ~OrderFills /\ ~OrderTimesOut /\ ~PollSeesFill
  BY <1>0, <1>1 DEF OrderFills, OrderTimesOut, PollSeesFill, Jobs
<1>7. ~OrderRefused /\ ~OrderTimesOutUnread /\ ~PollGivesUp /\ ~BookFill /\ ~CloseNotFilled /\ ~BookFails
  BY <1>2 DEF OrderRefused, OrderTimesOutUnread, PollGivesUp, BookFill, CloseNotFilled, BookFails, PCs
<1>8. ~BeginOpen
  BY <1>0, <1>1, <1>3, <1>4 DEF BeginOpen, Jobs
<1>9. ~ResolveClose
  <2>1. \A n : job' # [job EXCEPT !.pc = "send", !.asked = n]
    BY <1>0, <1>1 DEF Jobs
  <2> QED
    BY <1>3, <1>4, <2>1 DEF ResolveClose
<1>10. ~PnlReadFails /\ ~VerifyParity /\ ~CloseDropped /\ ~SettleExternal
  BY <1>3, <1>4, <1>5 DEF PnlReadFails, VerifyParity, CloseDropped, SettleExternal
<1>11. ~OpenNotFilled /\ ~RaiseHandled
  BY <1>3 DEF OpenNotFilled, RaiseHandled
<1>12. ~Align
  <2>1. ~Goto("raised")
    BY <1>2 DEF PCs
  <2> QED
    BY <1>3, <2>1 DEF Align
<1>13. ConfirmClose
  BY <1>6, <1>7, <1>8, <1>9, <1>10, <1>11, <1>12 DEF ExecuteSignal, SignalStep, PlaceOrder
<1>14. PICK answer \in Answers :
          /\ lies' = LiesIn(answer)
          /\ ~(HeldOnSide(answer[C], row[S].side) > 0)
          /\ Goto(IF job.pc = "confirm" THEN "recheck" ELSE "settle")
  BY <1>4, <1>13 DEF ConfirmClose
<1>15. /\ S' = S /\ C = CoinOf[S] /\ job.pc \in {"confirm", "recheck"} /\ UNCHANGED <<row, pos>>
       /\ job'.pc = IF job.pc = "confirm" THEN "recheck" ELSE "settle"
  BY <1>0, <1>13, <1>14 DEF Goto, Jobs, S, C, ConfirmClose
<1>16. steady' \subseteq steady \intersect BackedRows'
  BY <1>15 DEF Checking
<1>17. answer = pos => S \notin steady'
  BY <1>14, <1>15, <1>16 DEF BackedRows, Backed
<1>18. answer = pos \/ NoMoreLies'
  BY <1>14, TrueOrOneOff
<1>19. NoMoreLies => answer = pos
  BY <1>14, TrueOrOneOff
<1> QED
  BY <1>15, <1>16, <1>17, <1>18, <1>19 DEF BackedInv

LEMMA NextBackedInv ==
  ASSUME MaxLies <= 1, MaxLies = 0 \/ \A c, d \in Coins : c = d, RowInv, BackedInv, [Next]_vars
  PROVE  BackedInv'
<1>0. TypeInv /\ pass \in Passes /\ job \in Jobs
  BY DEF RowInv, TypeInv, TypeOK
<1>1. CASE UNCHANGED vars
  <2>1. UNCHANGED <<row, pos, pass, job, steady, lies>>
    BY <1>1 DEF vars, bookVars
  <2> QED
    BY <2>1 DEF BackedInv, Checking, BackedRows, Holds, Backed, NoMoreLies, S
<1>2. CASE Next
  <2>1. steady' = IF ~Checking' THEN {}
                  ELSE IF Checking THEN steady \intersect BackedRows' ELSE BackedRows'
    BY <1>2 DEF Next, History
  <2>2. /\ steady' # {} => Checking'
        /\ steady' \subseteq BackedRows'
        /\ Checking => steady' \subseteq steady \intersect BackedRows'
    BY <2>1
  <2>3. /\ pass'.pc = "confirm" => steady' = {} \/ NoMoreLies'
        /\ pass'.pc = "apply" => pass'.closing \intersect steady' = {}
    <3>1. CASE ReadExchange \/ ConfirmRead
      <4>1. Checking
        BY <3>1 DEF ReadExchange, ConfirmRead, Checking
      <4> QED
        BY <2>2, <3>1, <4>1, ReadSparesBacked
    <3>2. CASE UNCHANGED <<pass, lies>>
      <4>1. pass.pc # "idle" => Checking
        BY DEF Checking
      <4> QED
        BY <2>2, <3>2, <4>1 DEF BackedInv, NoMoreLies
    <3>3. CASE Boot \/ TickWithPass \/ Crash
      <4>1. \A found : BeginPass(found) => pass'.pc = "read"
        BY DEF BeginPass, IdlePass
      <4>2. Crash => pass'.pc = "idle"
        BY DEF Crash, IdlePass
      <4>3. pass'.pc \in {"idle", "read"}
        BY <3>3, <4>1, <4>2 DEF Boot, TickWithPass
      <4> QED
        BY <4>3
    <3>4. CASE CloseRows \/ FindOrphans \/ ReadAgain \/ CloseOrphan \/ PollOrphan \/ EndPass
      <4>1. Abandon => pass'.pc = "idle"
        BY DEF Abandon, IdlePass
      <4>2. CASE CloseRows
        BY <1>0, <4>1, <4>2 DEF CloseRows, Passes
      <4>3. CASE FindOrphans
        BY <1>0, <4>1, <4>3 DEF FindOrphans, Passes
      <4>4. CASE ReadAgain
        BY <1>0, <4>4 DEF ReadAgain, PassGoto, Passes
      <4>5. CASE CloseOrphan
        BY <1>0, <4>5 DEF CloseOrphan, PassGoto, Passes
      <4>6. CASE EndPass
        BY <4>1, <4>6 DEF EndPass
      <4>7. CASE PollOrphan
        BY <1>0, <4>7 DEF PollOrphan, PassGoto, Passes
      <4> QED
        BY <3>4, <4>2, <4>3, <4>4, <4>5, <4>6, <4>7
    <3>5. CASE UNCHANGED pass /\ pass.pc \notin {"confirm", "apply"}
      BY <3>5
    <3>6. CASE Environment
      BY <3>2, <3>6, EnvironmentKeeps
    <3>7. CASE ~ReconcilePass /\ ~Environment /\ ~Boot /\ ~TickWithPass /\ ~Crash
      <4>1. pass' = pass /\ pass.pc = "idle"
        BY <1>0, <1>2, <3>7, PassRunsAlone DEF Next, Step, Restore, TickWithoutPass,
           ReadPaused, StartFlatAll, RunFlatAll, RunStrategy, EndTick, ExecuteSignal
      <4> QED
        BY <3>5, <4>1
    <3> QED
      BY <3>1, <3>3, <3>4, <3>6, <3>7 DEF ReconcilePass, PassStep
  <2>4. /\ job'.pc = "recheck" => S' \notin steady' \/ NoMoreLies'
        /\ job'.pc = "settle" => S' \notin steady'
    <3>1. CASE ExecuteSignal
      BY <1>0, <2>2, <3>1, ChecksKeepBacked
    <3>2. CASE UNCHANGED <<job, lies>>
      <4>1. job.pc \in {"recheck", "settle"} => Checking
        BY DEF Checking
      <4> QED
        BY <2>2, <3>2, <4>1 DEF BackedInv, NoMoreLies, S
    <3>3. CASE Environment
      BY <3>2, <3>3, EnvironmentKeeps
    <3>4. CASE Crash \/ RunStrategy
      <4>1. Crash => job'.pc = "idle"
        BY DEF Crash, IdleJob
      <4>2. \A s, want : Signal(s, want) => job'.pc \in {"resolve", "begin"}
        BY DEF Signal, IdleJob
      <4> QED
        BY <3>4, <4>1, <4>2 DEF RunStrategy
    <3>5. CASE ~ExecuteSignal /\ ~Environment /\ ~Crash /\ ~RunStrategy
      <4>1. job.pc = "idle"
        BY <1>0, <1>2, <3>5, JobRunsAlone DEF Next
      <4>2. job' = job
        BY <1>2, <3>5 DEF Next, Step, Boot, Restore, TickWithPass, TickWithoutPass, ReadPaused,
           StartFlatAll, RunFlatAll, EndTick, ReconcilePass
      <4> QED
        BY <4>1, <4>2
    <3> QED
      BY <3>1, <3>3, <3>4, <3>5
  <2> QED
    BY <2>2, <2>3, <2>4 DEF BackedInv
<1> QED
  BY <1>1, <1>2

(* While a check runs, rows go only where it says they may. *)
LEMMA ChecksSpare ==
  ASSUME RowInv, BackedInv, Next, NEW s \in steady PROVE row'[s] # NoRow
<1>0. /\ TypeInv /\ row \in [Strategies -> Rows] /\ s \in Strategies /\ row[s] # NoRow
      /\ Checking
  BY DEF RowInv, TypeInv, TypeOK, BookTypeOK, BackedInv, BackedRows, Holds
<1>1. CASE Crash \/ Environment
  BY <1>0, <1>1, EnvironmentKeeps DEF Crash
<1>2. CASE pass.pc # "idle" /\ ReconcilePass
  <2>1. CASE CloseRows
    <3>1. pass.pc = "apply" /\ pass.closing \intersect steady = {}
      BY <2>1 DEF CloseRows, BackedInv
    <3>2. row'[s] = row[s]
      BY <1>0, <2>1, <3>1 DEF CloseRows
    <3> QED
      BY <1>0, <3>2
  <2>2. CASE ~CloseRows
    <3>1. row' = row
      BY <1>2, <2>2 DEF ReconcilePass, PassStep, ReadExchange, ConfirmRead, FindOrphans, ReadAgain,
         CloseOrphan, PollOrphan, EndPass, SamePosition, account
    <3> QED
      BY <1>0, <3>1
  <2> QED
    BY <2>1, <2>2
<1>3. CASE job.pc \in {"confirm", "recheck", "settle"} /\ ExecuteSignal
  <2>1. ConfirmClose \/ SettleExternal
    BY <1>3 DEF ExecuteSignal, SignalStep, BeginOpen, ResolveClose, PlaceOrder, OrderFills,
       OrderRefused, OrderTimesOut, OrderTimesOutUnread, PollSeesFill,
     PollGivesUp, BookFill, BookFails, PnlReadFails,
       VerifyParity, OpenNotFilled, CloseDropped, CloseNotFilled, Align, RaiseHandled
  <2>2. CASE ConfirmClose
    BY <1>0, <2>2 DEF ConfirmClose
  <2>3. CASE SettleExternal
    <3>1. S # s
      BY <2>3 DEF SettleExternal, BackedInv
    <3> QED
      BY <1>0, <2>3, <3>1 DEF SettleExternal
  <2> QED
    BY <2>1, <2>2, <2>3
<1> QED
  BY <1>0, <1>1, <1>2, <1>3, PassRunsAlone, JobRunsAlone DEF Next, Checking

(* One partial answer never closes a row that stayed backed, on the one    *)
(* coin where the first read's candidates are all there are; with true     *)
(* answers, on any number of coins.  The other case is a finding.          *)
THEOREM BackedStayOpen ==
  ASSUME MaxLies <= 1, MaxLies = 0 \/ \A c, d \in Coins : c = d
  PROVE  Spec => BackedRowsStayOpen
<1>1. Init => BackedInv
  BY DEF Init, BackedInv, IdlePass, IdleJob
<1>2. RowInv /\ BackedInv /\ [Next]_vars => BackedInv'
  BY NextBackedInv
<1>3. RowInv /\ BackedInv /\ [Next]_vars => [\A s \in steady : row'[s] # NoRow]_vars
  BY ChecksSpare
<1> QED
  BY <1>1, <1>2, <1>3, RowsSafe, PTL DEF Spec, BackedRowsStayOpen
=============================================================================
