--------------------------- MODULE FundingIngest ---------------------------
(***************************************************************************)
(* Funding payments are read from the exchange page by page, oldest first,  *)
(* and stored under a key that makes a second insert of one a no-op. Two   *)
(* actors read: the runner's poll, from just before the newest payment that *)
(* is stored, and the operator's backfill, from a day of his choice. Each  *)
(* page is fetched and committed apart; a fetch fails, or the actor dies.   *)
(* A payment is its place in the exchange's list.                          *)
(***************************************************************************)
EXTENDS Integers, Sequences, FiniteSets, FiniteSetsExt

CONSTANTS AtOnce,               \* coins: payments of one time, at most
          PageCap,              \* events of one answer
          PollPages,            \* POLL_MAX_PAGES
          Lookback, Overlap,    \* how far back a poll starts
          MaxTime               \* bound

FundingConstants ==
    /\ {AtOnce, PageCap, PollPages} \subseteq Nat \ {0}
    /\ {Lookback, Overlap, MaxTime} \subseteq Nat
    /\ AtOnce < PageCap

Actors == {"poll", "backfill"}

VARIABLES now,
          paid,         \* the times of the payments the exchange lists
          inTable,      \* the payments in funding_payments
          reader,       \* per actor: cursor, pages read, the page in hand
          floor         \* history: where an actor last began behind a gap

fundingVars == <<now, paid, inTable, reader, floor>>

Idle == [pc |-> "idle", cursor |-> 0, pages |-> 0, page |-> {}]

(* Bound: one backfill. *)
Ended(a) == IF a = "poll" THEN Idle ELSE [Idle EXCEPT !.pc = "done"]

Init == /\ now = 0 /\ paid = << >> /\ inTable = {} /\ floor = 0
        /\ reader = [a \in Actors |-> Idle]

Newest(payments) == Max({paid[i] : i \in payments})

(* Payments of one time may reach the list apart. *)
Pay == /\ Cardinality({i \in DOMAIN paid : paid[i] = now}) < AtOnce
       /\ paid' = Append(paid, now)
       /\ UNCHANGED <<now, inTable, reader, floor>>

TimePasses == /\ now < MaxTime /\ now' = now + 1
              /\ UNCHANGED <<paid, inTable, reader, floor>>

(* An actor that begins later than what is stored leaves the time between. *)
Behind(start) == inTable = {} \/ start > Newest(inTable)

Begin(a, start) ==
    /\ reader[a].pc = "idle"
    /\ reader' = [reader EXCEPT ![a] = [Idle EXCEPT !.pc = "fetch", !.cursor = start]]
    /\ floor' = IF Behind(start) THEN Max({floor, start}) ELSE floor
    /\ UNCHANGED <<now, paid, inTable>>

(* _poll_funding. *)
PollStart == IF inTable = {} THEN now - Lookback ELSE Newest(inTable) - Overlap

BeginPoll == Begin("poll", PollStart)
BeginBackfill == \E day \in 0..now : Begin("backfill", day)

(* The exchange answers with the oldest payments, cut off at the cap.      *)
Due(a) == {i \in DOMAIN paid : paid[i] >= reader[a].cursor}
Page(a) == {i \in Due(a) : i < Min(Due(a)) + PageCap}

Fetch(a) == /\ reader[a].pc = "fetch" /\ Due(a) # {}
            /\ reader' = [reader EXCEPT ![a].pc = "insert", ![a].page = Page(a),
                                        ![a].pages = @ + 1]
            /\ UNCHANGED <<now, paid, inTable, floor>>

(* The read or the insert fails, and the rest is left to the next poll. *)
Stop(a) == /\ reader[a].pc \in {"fetch", "insert"}
           /\ reader' = [reader EXCEPT ![a] = Ended(a)]
           /\ UNCHANGED <<now, paid, inTable, floor>>

NothingDue(a) == reader[a].pc = "fetch" /\ Due(a) = {} /\ Stop(a)

(* Mutant: the next page starts behind the newest payment of this one. *)
NextCursorBehind(page) == Newest(page) + 1

NextCursor(page) == Newest(page)

(* Mutant: a payment that is already stored fails its page.                *)
MergedStrictly(page) == IF page \cap inTable = {} THEN inTable \cup page ELSE inTable

(* ON CONFLICT DO NOTHING. *)
Merged(page) == inTable \cup page

(* A full page has a next one, unless it lies in one time or the poll has   *)
(* read enough.                                                            *)
GoesOn(a) == /\ Cardinality(reader[a].page) = PageCap
             /\ Newest(reader[a].page) > reader[a].cursor
             /\ a = "poll" => reader[a].pages < PollPages

Insert(a) ==
    /\ reader[a].pc = "insert" /\ inTable' = Merged(reader[a].page)
    /\ reader' = [reader EXCEPT ![a] =
          IF GoesOn(a) THEN [@ EXCEPT !.pc = "fetch", !.page = {},
                                      !.cursor = NextCursor(reader[a].page)]
                       ELSE Ended(a)]
    /\ UNCHANGED <<now, paid, floor>>

Next == \/ Pay \/ TimePasses \/ BeginPoll \/ BeginBackfill
        \/ \E a \in Actors : Fetch(a) \/ NothingDue(a) \/ Insert(a) \/ Stop(a)

Spec == Init /\ [][Next]_fundingVars

(* A poll every half hour, once there is anything to read; again and again  *)
(* each of its pages is answered and committed.                            *)
AtPage(k) == reader["poll"].pages = k

Fairness == /\ WF_fundingVars(paid # << >> /\ BeginPoll) /\ WF_fundingVars(NothingDue("poll"))
            /\ \A k \in 1..PollPages : /\ SF_fundingVars(Fetch("poll") /\ AtPage(k - 1))
                                       /\ SF_fundingVars(Insert("poll") /\ AtPage(k))

----------------------------------------------------------------------------

TypeOK == /\ now \in 0..MaxTime /\ floor \in 0..MaxTime
          /\ paid \in Seq(0..MaxTime) /\ inTable \subseteq DOMAIN paid
          /\ reader \in [Actors -> [pc : {"idle", "fetch", "insert", "done"},
                                    cursor : -(Lookback + Overlap)..MaxTime,
                                    pages : Nat, page : SUBSET DOMAIN paid]]

(* What is stored has no hole from where an actor last began: since the    *)
(* poll resumes behind the newest stored payment, one that was skipped would*)
(* be lost. Pages that end inside one time, failed reads, and a backfill     *)
(* beside the poll leave none.                                              *)
NoHole == \A i \in DOMAIN paid, j \in inTable :
             floor <= paid[i] /\ paid[i] < paid[j] => i \in inTable

(* Every payment is stored in the end, although a poll stops after a few   *)
(* pages and reads again what the last one has stored.                     *)
Missing(time) == \E i \in DOMAIN paid \ inTable : floor <= paid[i] /\ paid[i] <= time

AllStored == \A time \in 0..MaxTime : Missing(time) ~> ~Missing(time)
=============================================================================
