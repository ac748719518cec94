-------------------------- MODULE DailyLossProofs --------------------------
(***************************************************************************)
(* What the daily-loss counter guarantees for every limit, set of results  *)
(* and number of trades and days: it implements LossCounter, and an open   *)
(* past the limit is allowed only while the day's total is not loaded.     *)
(***************************************************************************)
EXTENDS DailyLoss, TLAPS

(* TypeOK, with each variable on its own, and a counter that is never      *)
(* dated in the future.                                                    *)
Typed ==
    /\ today \in 0..MaxDays /\ date \in 0..MaxDays /\ date <= today
    /\ stored \in Int /\ daily \in Int
    /\ loaded \in BOOLEAN /\ pending \in BOOLEAN /\ persistAlerted \in BOOLEAN
    /\ verdict \in {"none", "close", "refused", "allowed"}
    /\ trades \in 0..MaxTrades

Books == [daily : Int, loaded : BOOLEAN, pending : BOOLEAN]

(* The day's total as a book says it. *)
TotalOf(b) == IF b.loaded THEN b.daily ELSE stored + b.daily

(* _ensure_loaded changes what the counter holds and never the total.      *)
LEMMA LoadKeepsTotal ==
  ASSUME Typed, NEW b \in EnsureLoaded PROVE b \in Books /\ TotalOf(b) = Total
<1>1. PICK readable \in BOOLEAN : b = AfterLoad(Noticed, readable)
  BY DEF EnsureLoaded
<1>2. Noticed \in Books /\ TotalOf(Noticed) = Total
  BY DEF Typed, Noticed, Book, Books, TotalOf, Total
<1>3. CASE Noticed.loaded \/ ~readable
  BY <1>1, <1>2, <1>3 DEF AfterLoad
<1>4. CASE ~Noticed.loaded /\ readable
  <2>1. b = [daily |-> stored + Noticed.daily, loaded |-> TRUE,
             pending |-> Noticed.pending \/ Noticed.daily # 0]
    BY <1>1, <1>4 DEF AfterLoad, Book
  <2> QED
    BY <1>2, <1>4, <2>1 DEF Typed, Books, TotalOf
<1> QED
  BY <1>3, <1>4

(* What becomes of a book that is persisted: its total is the counter's,   *)
(* and Redis keeps what it had or takes that total.                        *)
LEMMA PersistKeepsTotal ==
  ASSUME Typed, NEW b \in Books, Persist(b), UNCHANGED today
  PROVE  Total' = TotalOf(b) /\ stored' \in {stored, Total'}
<1>1. CASE b.loaded
  BY <1>1 DEF Persist, Written, NotWritten, Total, TotalOf
<1>2. CASE ~b.loaded
  BY <1>2 DEF Persist, Written, NotWritten, Total, TotalOf
<1> QED
  BY <1>1, <1>2

LEMMA KeepKeepsTotal ==
  ASSUME Typed, NEW b \in Books, Keep(b), UNCHANGED today
  PROVE  Total' = TotalOf(b) /\ stored' = stored
  BY DEF Keep, Total, TotalOf

(* A trade enters the book once.                                           *)
LEMMA RecordAdds ==
  ASSUME Typed, NEW b \in Books, NEW x \in Int
  PROVE  /\ [b EXCEPT !.daily = @ + x] \in Books
         /\ TotalOf([b EXCEPT !.daily = @ + x]) = TotalOf(b) + x
  BY DEF Typed, Books, TotalOf

-----------------------------------------------------------------------------
(* What is persisted or kept of a book is typed, and dated today.          *)
LEMMA PersistTyped ==
  ASSUME Typed, NEW b \in Books, Persist(b) \/ Keep(b)
  PROVE  /\ date' = today /\ stored' \in Int /\ daily' \in Int
         /\ loaded' \in BOOLEAN /\ pending' \in BOOLEAN /\ persistAlerted' \in BOOLEAN
<1>1. CASE Persist(b)
  BY <1>1 DEF Typed, Books, Persist, Written, NotWritten, Report
<1>2. CASE Keep(b)
  BY <1>2 DEF Typed, Books, Keep
<1> QED
  BY <1>1, <1>2

(* Every step keeps the types.                                             *)
LEMMA NextTyped ==
  ASSUME DailyLossConstants, Typed, [Next]_vars PROVE Typed'
<1>1. CASE Record
  <2>1. PICK b \in EnsureLoaded, x \in Pnls : Persist([b EXCEPT !.daily = @ + x])
    BY <1>1 DEF Record
  <2>2. [b EXCEPT !.daily = @ + x] \in Books
    BY <2>1, LoadKeepsTotal, RecordAdds DEF DailyLossConstants
  <2>3. trades' \in 0..MaxTrades /\ today' = today /\ verdict' = "none"
    BY <1>1 DEF Record, Typed, DailyLossConstants
  <2> QED
    BY <2>1, <2>2, <2>3, PersistTyped DEF Typed
<1>2. CASE Check
  <2>1. PICK b \in EnsureLoaded : IF b.pending THEN Persist(b) ELSE Keep(b)
    BY <1>2 DEF Check
  <2>2. Persist(b) \/ Keep(b)
    BY <2>1
  <2>3. verdict' \in {"close", "refused", "allowed"} /\ UNCHANGED <<today, trades>>
    BY <1>2 DEF Check
  <2> QED
    BY <2>2, <2>3, LoadKeepsTotal, PersistTyped DEF Typed
<1>3. CASE Restart
  <2>1. today' \in 0..MaxDays /\ date' = today' /\ trades' \in 0..MaxTrades
    BY <1>3 DEF Restart, Typed
  <2>2. loaded' \in BOOLEAN /\ pending' \in BOOLEAN /\ persistAlerted' \in BOOLEAN
    BY <1>3 DEF Restart
  <2>3. stored' \in Int /\ daily' \in Int /\ verdict' = "none"
    BY <1>3 DEF Restart, Typed
  <2> QED
    BY <2>1, <2>2, <2>3, DailyLossConstants DEF Typed, DailyLossConstants
<1>4. CASE Midnight
  BY <1>4 DEF Midnight, Typed, DailyLossConstants
<1>5. CASE UNCHANGED vars
  BY <1>5 DEF vars, counter, Typed
<1> QED
  BY <1>1, <1>2, <1>3, <1>4, <1>5 DEF Next

(* The counter's state keeps its types, and its date is never ahead.       *)
LEMMA TypeCorrect == ASSUME DailyLossConstants PROVE Spec => []Typed
<1>1. Init => Typed
  <2>1. 0 \in 0..MaxDays /\ 0 \in 0..MaxTrades
    BY DEF DailyLossConstants
  <2> SUFFICES ASSUME Init PROVE Typed
    OBVIOUS
  <2>2. loaded \in BOOLEAN /\ pending \in BOOLEAN /\ persistAlerted \in BOOLEAN
    BY DEF Init
  <2> QED
    BY <2>1, <2>2 DEF Init, Typed
<1>2. Typed /\ [Next]_vars => Typed'
  BY NextTyped
<1> QED
  BY <1>1, <1>2, PTL DEF Spec

THEOREM CounterTypes == ASSUME DailyLossConstants PROVE Spec => []TypeOK
<1>1. Typed => TypeOK
  BY DEF Typed, TypeOK
<1> QED
  BY <1>1, TypeCorrect, PTL

-----------------------------------------------------------------------------
(* An open is allowed past the day's limit only while the total could not  *)
(* be loaded, whichever loads and writes fail and whenever midnight comes. *)
THEOREM LimitGatesOpens == ASSUME DailyLossConstants PROVE Spec => []CapGatesOpens
<1>1. Init => CapGatesOpens
  BY DEF Init, CapGatesOpens
<1>2. Typed /\ CapGatesOpens /\ [Next]_vars => CapGatesOpens'
  <2> SUFFICES ASSUME Typed, CapGatesOpens, [Next]_vars, verdict' = "allowed", loaded'
               PROVE  Total' >= -Limit
    BY DEF CapGatesOpens
  <2>1. CASE Check
    <3>1. PICK b \in EnsureLoaded :
             /\ IF b.pending THEN Persist(b) ELSE Keep(b)
             /\ verdict' \in {"close", "refused"} \cup IF Limited(b) THEN {} ELSE {"allowed"}
      BY <2>1 DEF Check
    <3>2. b \in Books
      BY LoadKeepsTotal
    <3>3. ~(b.daily < -Limit)
      BY <3>1 DEF Limited
    <3>4. daily' = b.daily /\ date' = today /\ today' = today
      BY <2>1, <3>1 DEF Persist, Keep, Check
    <3> QED
      BY <3>2, <3>3, <3>4 DEF Total, Books, DailyLossConstants
  <2>2. CASE UNCHANGED vars
    BY <2>2 DEF vars, counter, CapGatesOpens, Total
  <2> QED
    BY <2>1, <2>2 DEF Next, Record, Restart, Midnight
<1> QED
  BY <1>1, <1>2, TypeCorrect, PTL DEF Spec

-----------------------------------------------------------------------------
(* The refinement, step by step: a recorded trade enters the total once, a *)
(* risk check at most saves it, a restart goes back to what is saved.      *)
LEMMA StepRefines ==
  ASSUME DailyLossConstants, Typed, [Next]_vars
  PROVE  [Counter!Next]_<<Total, stored>>
<1>1. CASE Record
  <2>1. PICK b \in EnsureLoaded, x \in Pnls : Persist([b EXCEPT !.daily = @ + x])
    BY <1>1 DEF Record
  <2>2. b \in Books /\ TotalOf(b) = Total /\ x \in Int
    BY LoadKeepsTotal DEF DailyLossConstants
  <2>3. Total' = Total + x /\ stored' \in {stored, Total'}
    BY <1>1, <2>1, <2>2, RecordAdds, PersistKeepsTotal DEF Record
  <2>4. Counter!Record
    BY <2>3 DEF Counter!Record
  <2> QED
    BY <2>4 DEF Counter!Next
<1>2. CASE Check
  <2>1. PICK b \in EnsureLoaded : IF b.pending THEN Persist(b) ELSE Keep(b)
    BY <1>2 DEF Check
  <2>2. b \in Books /\ TotalOf(b) = Total
    BY LoadKeepsTotal
  <2>3. Total' = Total /\ stored' \in {stored, Total}
    BY <1>2, <2>1, <2>2, PersistKeepsTotal, KeepKeepsTotal DEF Check
  <2> QED
    BY <2>3 DEF Counter!Next, Counter!Save
<1>3. CASE Restart
  BY <1>3 DEF Restart, Typed, Total, Counter!Next, Counter!Crash
<1>4. CASE Midnight
  BY <1>4 DEF Midnight, Typed, Total, Counter!Next, Counter!NewDay
<1>5. CASE UNCHANGED vars
  BY <1>5 DEF vars, counter, Total
<1> QED
  BY <1>1, <1>2, <1>3, <1>4, <1>5 DEF Next

(* PortfolioManager implements LossCounter: every trade counts once, and a *)
(* restart finds a total that was once true.                               *)
THEOREM CountsEachTradeOnce == ASSUME DailyLossConstants PROVE Spec => IsLossCounter
<1>1. Init => Counter!Init
  BY DEF Init, Total, Counter!Init
<1>2. Typed /\ [Next]_vars => [Counter!Next]_<<Total, stored>>
  BY StepRefines
<1> QED
  BY <1>1, <1>2, TypeCorrect, PTL DEF Spec, IsLossCounter, Counter!Spec
=============================================================================
