----------------------------- MODULE FillLedger -----------------------------
(***************************************************************************)
(* How the exchange's fills become trade rows. The closes of one coin and   *)
(* side: the runner books its own order under the order's id; a reconcile   *)
(* pass prices rows whose position is gone from fills no trade has booked,  *)
(* spending each once; the operator's backfill inserts the orders no trade  *)
(* has. The backfill runs in the API beside the pass. Sizes are lots, and a *)
(* fill is one lot; an order may have several.                              *)
(***************************************************************************)
EXTENDS Integers, FiniteSets, Sequences, FiniteSetsExt

CONSTANTS Orders, None,         \* order ids, and no order
          Rows, SizeOf,         \* row ids, in the order they are read; their lots
          MaxFills              \* bound

LedgerConstants == /\ IsFiniteSet(Orders) /\ None \notin Orders
                   /\ Rows \subseteq Nat /\ SizeOf \in [Rows -> Nat \ {0}]
                   /\ MaxFills \in Nat

VARIABLES fills,        \* the exchange's fills, oldest first: their orders
          booked,       \* the order ids of the trades
          rows,         \* open rows: how many fills came before
          ownOrder,     \* the runner's close that is filled and not booked
          pass,         \* a reconcile pass: fetched, ledger, rows to do, plan
          backfill,     \* a backfill: fills fetched, order ids found
          spent,        \* history: how often a fill is part of a trade
          loose         \* history: orders spent, or booked, by two hands

ledgerVars == <<fills, booked, rows, ownOrder, pass, backfill, spent, loose>>

NoPass == [pc |-> "idle", fetched |-> 0, ledger |-> {}, todo |-> {}, plan |-> << >>]
NoBackfill == [pc |-> "idle", fetched |-> 0, known |-> {}]

Init == /\ fills = << >> /\ booked = {} /\ ownOrder = None /\ loose = {}
        /\ spent = [i \in 1..MaxFills |-> 0]
        /\ rows = [r \in Rows |-> 0]
        /\ pass = NoPass /\ backfill = NoBackfill

Open == DOMAIN rows
FillsOf(o) == {i \in DOMAIN fills : fills[i] = o}
Without(done) == [r \in Open \ done |-> rows[r]]
Spend(lots) == spent' = [i \in 1..MaxFills |->
                            spent[i] + IF i \in lots THEN 1 ELSE 0]

(* A close by hand, or a liquidation. *)
FillOutside == /\ Len(fills) < MaxFills
               /\ \E o \in Orders \ {ownOrder} : fills' = Append(fills, o)
               /\ UNCHANGED <<booked, rows, ownOrder, pass, backfill, spent, loose>>

(* The runner's close of a row fills, and then is booked; an id a trade has  *)
(* already fails the booking.                                              *)
OwnFill == /\ ownOrder = None /\ pass.pc = "idle"
           /\ \E r \in Open, o \in Orders :
                 /\ FillsOf(o) = {} /\ Len(fills) + SizeOf[r] <= MaxFills
                 /\ fills' = fills \o [i \in 1..SizeOf[r] |-> o]
                 /\ ownOrder' = o
           /\ UNCHANGED <<booked, rows, pass, backfill, spent, loose>>

OwnBooked == /\ ownOrder # None /\ ownOrder' = None
             /\ IF ownOrder \in booked
                THEN UNCHANGED <<booked, rows, spent>>
                ELSE /\ booked' = booked \cup {ownOrder}
                     /\ Spend(FillsOf(ownOrder))
                     /\ \E r \in Open :
                           /\ SizeOf[r] = Cardinality(FillsOf(ownOrder))
                           /\ rows' = Without({r})
             /\ UNCHANGED <<fills, pass, backfill, loose>>

Opened == /\ ownOrder = None /\ pass.pc = "idle"
          /\ \E r \in Rows \ Open :
                rows' = [s \in Open \cup {r} |->
                            IF s = r THEN Len(fills) ELSE rows[s]]
          /\ UNCHANGED <<fills, booked, ownOrder, pass, backfill, spent, loose>>

----------------------------------------------------------------------------
(* A pass that finds the coin flat: the fills, or none when the read fails,  *)
(* and then the ids of the trades.                                         *)
PassFetches == /\ ownOrder = None /\ pass.pc = "idle" /\ Open # {}
               /\ \E n \in {0, Len(fills)} :
                     pass' = [NoPass EXCEPT !.pc = "fetched", !.fetched = n, !.todo = Open]
               /\ UNCHANGED <<fills, booked, rows, ownOrder, backfill, spent, loose>>

(* Mutant: fills that a trade has booked are spendable. *)
SpendableAll(n) == 1..n

Spendable(n) == {i \in 1..n : fills[i] \notin booked}

PassLedger == /\ pass.pc = "fetched"
              /\ pass' = [pass EXCEPT !.pc = "price", !.ledger = Spendable(pass.fetched)]
              /\ UNCHANGED <<fills, booked, rows, ownOrder, backfill, spent, loose>>

(* FillLedger.take: the oldest fills since the row opened, all of its size   *)
(* or none.                                                                *)
Candidates(r) == {i \in pass.ledger : i > rows[r]}
Covers(r, lots) == /\ lots \subseteq Candidates(r)
                   /\ Cardinality(lots) = SizeOf[r]
                   /\ \A i \in lots, j \in Candidates(r) \ lots : i < j

Planned(r, lots) == [s \in DOMAIN pass.plan \cup {r} |->
                        IF s = r THEN lots ELSE pass.plan[s]]

(* Priced from its fills, else at the mid, else left open. *)
PriceRow(r) ==
    /\ pass.pc = "price" /\ pass.todo # {} /\ r = Min(pass.todo)
    /\ \/ \E lots \in SUBSET Candidates(r) :
             /\ Covers(r, lots)
             /\ pass' = [pass EXCEPT !.todo = @ \ {r}, !.ledger = @ \ lots,
                                     !.plan = Planned(r, lots)]
       \/ /\ Cardinality(Candidates(r)) < SizeOf[r]
          /\ \E plan \in {Planned(r, {}), pass.plan} :
                pass' = [pass EXCEPT !.todo = @ \ {r}, !.plan = plan]
    /\ UNCHANGED <<fills, booked, rows, ownOrder, backfill, spent, loose>>

(* The rows close with their trades in one transaction. A trade carries the  *)
(* order of its first fill, or an id of its own when that one is taken.     *)
TradesOf(i) == {r \in DOMAIN pass.plan : i \in pass.plan[r]}
Lots == UNION {pass.plan[r] : r \in DOMAIN pass.plan}
Named == {fills[Min(pass.plan[r])] : r \in {s \in DOMAIN pass.plan : pass.plan[s] # {}}}

PassApplies ==
    /\ pass.pc = "price" /\ pass.todo = {}
    /\ spent' = [i \in 1..MaxFills |-> spent[i] + Cardinality(TradesOf(i))]
    /\ booked' = booked \cup Named
    /\ loose' = loose \cup ({fills[i] : i \in Lots} \ Named)
    /\ rows' = Without(DOMAIN pass.plan) /\ pass' = NoPass
    /\ UNCHANGED <<fills, ownOrder, backfill>>

----------------------------------------------------------------------------
(* reconcile_fills_from_hl: the fills, the ids of the trades, and then each  *)
(* order that has no trade is inserted with the first of its fills.         *)
BackfillFetches == /\ backfill.pc \in {"idle", "done"}
                   /\ backfill' = [NoBackfill EXCEPT !.pc = "fetched",
                                                     !.fetched = Len(fills)]
                   /\ UNCHANGED <<fills, booked, rows, ownOrder, pass, spent, loose>>

BackfillReads == /\ backfill.pc = "fetched"
                 /\ backfill' = [backfill EXCEPT !.pc = "insert", !.known = booked]
                 /\ UNCHANGED <<fills, booked, rows, ownOrder, pass, spent, loose>>

Insertable == {fills[i] : i \in 1..backfill.fetched} \ (backfill.known \cup booked)

BackfillCommits ==
    /\ backfill.pc = "insert" /\ backfill' = [backfill EXCEPT !.pc = "done", !.known = {}]
    /\ Spend({Min(FillsOf(o)) : o \in Insertable})
    /\ booked' = booked \cup Insertable
    /\ loose' = loose \cup IF pass.pc = "price" THEN Insertable ELSE {}
    /\ UNCHANGED <<fills, rows, ownOrder, pass>>

Next == \/ FillOutside \/ OwnFill \/ OwnBooked \/ Opened
        \/ PassFetches \/ PassLedger \/ PassApplies \/ \E r \in Rows : PriceRow(r)
        \/ BackfillFetches \/ BackfillReads \/ BackfillCommits

Spec == Init /\ [][Next]_ledgerVars

----------------------------------------------------------------------------

TypeOK ==
    /\ fills \in Seq(Orders) /\ booked \subseteq Orders /\ loose \subseteq Orders
    /\ Open \subseteq Rows /\ \A r \in Open : rows[r] \in 0..MaxFills
    /\ ownOrder \in Orders \cup {None}
    /\ pass.todo \subseteq Open /\ DOMAIN pass.plan \subseteq Open
    /\ pass.ledger \subseteq 1..Len(fills) /\ backfill.known \subseteq Orders
    /\ spent \in [1..MaxFills -> Nat]

(* A fill is part of at most one trade, whichever of the runner, a pass and  *)
(* the backfill book it, unless its order was the second one of a close      *)
(* (only the first one's id is kept), or was booked by the backfill while a  *)
(* pass was pricing.                                                        *)
SpentOnceUnderItsId == \A i \in DOMAIN fills : spent[i] > 1 => fills[i] \in loose
=============================================================================
