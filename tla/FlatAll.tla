------------------------------ MODULE FlatAll ------------------------------
(***************************************************************************)
(* The operator's flat-all: a token requested in Redis, and                *)
(* EngineRunner._flat_all_positions, which market-closes what the exchange *)
(* shows coin by coin and books every open row of the coin.  The token is  *)
(* acknowledged only on full success; else it is pending again next tick.  *)
(***************************************************************************)
EXTENDS Book

CONSTANT MaxRequests   \* bound: flat-all requests the operator makes

ASSUME FlatAllAssumption == MaxRequests \in Nat

VARIABLES
    asked,  \* Redis: the newest request token
    done,   \* Redis: the token acknowledged last
    flat    \* the flat-all in progress

flatVars == <<asked, done, flat>>

FlatPCs == {"idle", "read", "close", "poll", "book", "end", "ack"}

IdleFlat == [pc |-> "idle", token |-> 0, seen |-> [c \in Coins |-> 0], left |-> {},
             rows |-> {}, used |-> FALSE, failed |-> FALSE,
             polling |-> {}, base |-> 0, taken |-> {}]

Flats == [pc : FlatPCs, token : Nat,
          seen : [Coins -> Int],      \* positions, as read
          left : SUBSET Coins,        \* positions not closed yet
          rows : SUBSET Strategies,   \* rows of the closed coin not booked yet
          used : BOOLEAN,             \* a Trade with the order's id exists
          failed : BOOLEAN,
          polling : SUBSET Coins,     \* the coin whose close timed out
          base : Int,                 \* its position, read before the close
          taken : SUBSET Coins]       \* history: closes the poll called filled

FlatGoto(pc) == flat' = [flat EXCEPT !.pc = pc]
FlatInit == asked = 0 /\ done = 0 /\ flat = IdleFlat

(* request_flat_all: every request brings its own token. *)
RequestFlatAll ==
    /\ asked < MaxRequests
    /\ asked' = asked + 1
    /\ UNCHANGED <<done, flat, account, belief, control>>

Pending == asked # done

BeginFlatAll ==
    /\ flat.pc = "idle" /\ Pending
    /\ flat' = [IdleFlat EXCEPT !.pc = "read", !.token = asked]
    /\ UNCHANGED <<asked, done>>

FlatReadForgiven ==                    \* mutant: a failed read leaves nothing to close
    [flat EXCEPT !.pc = "close"]

FlatUnreadable == [flat EXCEPT !.pc = "end", !.failed = TRUE]

(* An exchange that cannot be read is not flat; one that shows nothing is. *)
FlatRead ==
    /\ flat.pc = "read"
    /\ UNCHANGED <<row, pos, inflight, clean, belief, control, asked, done>>
    /\ \/ /\ "exchange" \in Faults
          /\ flat' = FlatUnreadable
          /\ UNCHANGED lies
       \/ \E answer \in Answers :
          /\ lies' = LiesIn(answer)
          /\ flat' = [flat EXCEPT !.pc = "close", !.seen = answer,
                                  !.left = {c \in Coins : answer[c] # 0}]

FlatOrder(c) ==
    [coin |-> c, side |-> IF flat.seen[c] > 0 THEN "long" ELSE "short",
     lots |-> IF flat.seen[c] > 0 THEN flat.seen[c] ELSE -flat.seen[c], leg |-> "close"]

(* One reduce-only close per coin, after its rows are read.  Filled means  *)
(* closed, however much of it filled.                                      *)
FlatClose ==
    /\ flat.pc = "close"
    /\ UNCHANGED <<row, belief, control, asked, done>>
    /\ \E c \in flat.left :
       LET next == [flat EXCEPT !.left = @ \ {c}] IN
       \/ \E k \in Fills(FlatOrder(c)) :
          /\ pos' = AfterFill(FlatOrder(c), k)
          /\ flat' = [next EXCEPT !.pc = "book", !.rows = HoldersOn(c), !.used = FALSE]
          /\ UNCHANGED <<inflight, lies, clean>>
       \/ /\ flat' = [next EXCEPT !.failed = TRUE]    \* refused, or rows unreadable
          /\ UNCHANGED <<pos, inflight, lies, clean>>
       \/ /\ "outcome" \in Faults /\ inflight = {}
          /\ inflight' = {FlatOrder(c)} /\ clean' = FALSE
          /\ UNCHANGED pos
          /\ \/ \E answer \in Answers :
                /\ lies' = LiesIn(answer)
                /\ flat' = [next EXCEPT !.pc = "poll", !.polling = {c},
                                        !.base = answer[c]]
             \/ /\ "exchange" \in Faults
                /\ flat' = [next EXCEPT !.failed = TRUE]
                /\ UNCHANGED lies

(* The close timed out and is polled for; a match is booked as a fill. *)
FlatPoll ==
    /\ flat.pc = "poll"
    /\ UNCHANGED <<row, pos, inflight, clean, belief, control, asked, done>>
    /\ \E c \in flat.polling :
       LET next == [flat EXCEPT !.polling = {}, !.base = 0] IN
       \/ /\ \E answer \in Answers :
                /\ PollMatches(FlatOrder(c), flat.base, answer)
                /\ lies' = LiesIn(answer)
          /\ flat' = [next EXCEPT !.pc = "book", !.rows = HoldersOn(c), !.used = FALSE,
                                  !.taken = @ \union {c}]
       \/ /\ PollMisses(FlatOrder(c), flat.base)
          /\ flat' = [next EXCEPT !.pc = "close", !.failed = TRUE]
          /\ UNCHANGED lies

(* Every row of the coin gets a Trade with the one order's id and is       *)
(* closed in full; trades.order_id is unique, so the second raises.        *)
FlatBookRow ==
    /\ flat.pc = "book" /\ flat.rows # {} /\ ~flat.used
    /\ \E s \in flat.rows :
          /\ row' = [row EXCEPT ![s] = NoRow]
          /\ belief' = [belief EXCEPT ![s] = "flat"]
          /\ flat' = [flat EXCEPT !.rows = @ \ {s}, !.used = TRUE]
    /\ UNCHANGED <<pos, inflight, lies, clean, control, asked, done>>

FlatBookFails ==
    /\ flat.pc = "book"
    /\ \/ flat.used /\ flat.rows # {}
       \/ "db" \in Faults
    /\ flat' = [flat EXCEPT !.pc = "close", !.rows = {}, !.failed = TRUE]
    /\ clean' = FALSE
    /\ UNCHANGED <<row, pos, inflight, lies, belief, control, asked, done>>

FlatBooked ==
    /\ flat.pc = "book" /\ flat.rows = {}
    /\ FlatGoto("close")
    /\ UNCHANGED <<account, belief, control, asked, done>>

FlatSettleUnpaused ==                  \* mutant: the pause is forgotten
    /\ flat.pc = "close" /\ flat.left = {}
    /\ FlatGoto(IF flat.failed THEN "end" ELSE "ack")
    /\ UNCHANGED <<account, belief, control, asked, done>>

(* Full success pauses the bot, then acknowledges the token it read. *)
FlatSettle ==
    /\ flat.pc = "close" /\ flat.left = {}
    /\ IF flat.failed
       THEN FlatGoto("end") /\ UNCHANGED paused
       ELSE /\ FlatGoto("ack")
            /\ paused' \in IF "redis" \in Faults THEN {paused, TRUE} ELSE {TRUE}
    /\ UNCHANGED <<account, belief, holdKey, ctl, awaiting, asked, done>>

FlatAck ==
    /\ flat.pc = "ack"
    /\ done' \in IF "redis" \in Faults THEN {done, flat.token} ELSE {flat.token}
    /\ flat' = IdleFlat
    /\ UNCHANGED <<account, belief, control, asked>>

FlatGivenUp ==
    /\ flat.pc = "end"
    /\ flat' = IdleFlat
    /\ UNCHANGED <<account, belief, control, asked, done>>

FlatStep == FlatRead \/ FlatClose \/ FlatPoll \/ FlatBookRow \/ FlatBookFails \/ FlatBooked
            \/ FlatSettle \/ FlatAck \/ FlatGivenUp

FlatTypeOK == asked \in Nat /\ done \in Nat /\ flat \in Flats
=============================================================================
