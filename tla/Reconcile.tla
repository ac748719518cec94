----------------------------- MODULE Reconcile -----------------------------
(***************************************************************************)
(* One reconcile pass: EngineRunner._run_reconcile around                  *)
(* PositionRepository.reconcile_positions.  It compares the open rows with *)
(* two reads of the exchange, closes the rows the exchange no longer       *)
(* backs, and market-closes a lone exchange position without a row; and it *)
(* decides whether opens may resume.  Every read, write and order is a     *)
(* step of its own, and the account may move between any two.              *)
(***************************************************************************)
EXTENDS Book

VARIABLE pass   \* the pass in progress

PassPCs == {"idle", "read", "confirm", "apply", "orphans", "again", "close", "poll", "end"}

IdlePass == [pc |-> "idle", dry |-> FALSE, hold |-> FALSE,
             seen |-> [c \in Coins |-> 0], closing |-> {}, orphans |-> {},
             closable |-> {}, unresolved |-> {}, held |-> {}, skipped |-> FALSE,
             base |-> 0, taken |-> {}]

Passes == [pc : PassPCs,
           dry : BOOLEAN,                \* paused: report, write nothing
           hold : BOOLEAN,               \* hold_orphans gives a reason
           seen : [Coins -> Int],        \* the last answer of get_positions
           closing : SUBSET Strategies,  \* to_close
           orphans : SUBSET Coins,       \* exchange positions without a row
           closable : SUBSET Coins,      \* those with no reason to hold
           unresolved : SUBSET Coins, held : SUBSET Coins,
           skipped : BOOLEAN,
           base : Int,                   \* position read before the close
           taken : SUBSET Coins]         \* history: closes the poll called filled

PassGoto(pc) == pass' = [pass EXCEPT !.pc = pc]
Skip == pass' = [pass EXCEPT !.pc = "end", !.skipped = TRUE]
Abandon == pass' = IdlePass
SamePosition == UNCHANGED <<row, pos, inflight, clean>>

ClosableWhenFlat(answer) ==            \* mutant: a position on the other side backs a row
    {s \in Holders : answer[CoinOf[s]] = 0}

(* _classify_closes: an orphan row, or one on the other side. *)
Closable(answer) == {s \in Holders : HeldOnSide(answer[CoinOf[s]], row[s].side) = 0}

-----------------------------------------------------------------------------
(* A paused flag that cannot be read counts as paused. *)
BeginPass(found) ==
    /\ pass.pc = "idle"
    /\ \E dry \in IF "redis" \in Faults THEN {paused, TRUE} ELSE {paused} :
          pass' = [IdlePass EXCEPT !.pc = "read", !.dry = dry,
                                   !.hold = found # "none" \/ awaiting = "first"]

UnconfirmedRead(answer) ==             \* mutant: one read is enough
    IF Closable(answer) # {} /\ ~pass.dry THEN "apply"
    ELSE IF pass.dry THEN "end" ELSE "orphans"

(* A candidate for closing needs a second read. *)
AfterRead(answer) ==
    IF Closable(answer) # {} THEN "confirm"
    ELSE IF pass.dry THEN "end" ELSE "orphans"

(* The first read, and the candidates it makes. *)
ReadExchange ==
    /\ pass.pc = "read"
    /\ SamePosition /\ UNCHANGED <<belief, control>>
    /\ \/ "exchange" \in Faults /\ Skip /\ UNCHANGED lies
       \/ "db" \in Faults /\ Abandon /\ UNCHANGED lies
       \/ \E answer \in Answers :
          /\ lies' = LiesIn(answer)
          /\ pass' = [pass EXCEPT
                !.seen = answer,
                !.closing = Closable(answer),
                !.pc = AfterRead(answer)]

(* The confirming read: every row is classified afresh against it. *)
ConfirmRead ==
    /\ pass.pc = "confirm"
    /\ SamePosition /\ UNCHANGED <<belief, control>>
    /\ \/ "exchange" \in Faults /\ Skip /\ UNCHANGED lies
       \/ \E answer \in Answers :
          /\ lies' = LiesIn(answer)
          /\ pass' = [pass EXCEPT
                !.seen = answer,
                !.closing = IF pass.dry THEN {} ELSE Closable(answer),
                !.pc = IF pass.dry THEN "end"
                       ELSE IF Closable(answer) # {} THEN "apply" ELSE "orphans"]

(* Rows that can be priced are closed in one transaction; then each        *)
(* strategy is reset.                                                      *)
CloseRows ==
    /\ pass.pc = "apply"
    /\ UNCHANGED <<pos, inflight, lies, clean, control>>
    /\ \/ \E priced \in IF "exchange" \in Faults THEN SUBSET pass.closing
                                                 ELSE {pass.closing} :
          /\ row' = [s \in Strategies |-> IF s \in priced THEN NoRow ELSE row[s]]
          /\ belief' = [s \in Strategies |-> IF s \in priced THEN "flat" ELSE belief[s]]
          /\ pass' = [pass EXCEPT !.pc = "orphans", !.closing = priced]
       \/ /\ "db" \in Faults
          /\ Abandon /\ UNCHANGED <<row, belief>>

(* Exchange positions no row covers.  Several on traded coins, one on a    *)
(* coin nobody trades, or any under a hold are left alone.                 *)
FindOrphans ==
    /\ pass.pc = "orphans"
    /\ SamePosition /\ UNCHANGED <<belief, lies, control>>
    /\ LET orphans == {c \in Coins : pass.seen[c] # 0 /\ HoldersOn(c) = {}}
           closable == IF pass.hold \/ Cardinality(orphans \intersect Traded) > 1
                       THEN {} ELSE orphans \intersect Traded
       IN
       \/ pass' = [pass EXCEPT !.orphans = orphans, !.closable = closable,
                               !.unresolved = closable, !.held = orphans \ closable,
                               !.pc = IF closable = {} THEN "end" ELSE "again"]
       \/ "db" \in Faults /\ pass.closing # {} /\ Abandon

(* _same_orphans: a third read must show the same ones. *)
ReadAgain ==
    /\ pass.pc = "again"
    /\ SamePosition /\ UNCHANGED <<belief, control>>
    /\ \/ "exchange" \in Faults /\ PassGoto("end") /\ UNCHANGED lies
       \/ \E answer \in Answers :
          /\ lies' = LiesIn(answer)
          /\ LET now == {c \in Coins : answer[c] # 0 /\ HoldersOn(c) = {}}
                 same == /\ now = pass.orphans
                         /\ \A c \in pass.closable : answer[c] = pass.seen[c]
             IN PassGoto(IF same THEN "close" ELSE "end")

(* The reduce-only close of an orphan.  Filled, whatever it took, is done. *)
OrphanOrder(c) ==
    [coin |-> c, side |-> IF pass.seen[c] > 0 THEN "long" ELSE "short",
     lots |-> IF pass.seen[c] > 0 THEN pass.seen[c] ELSE -pass.seen[c], leg |-> "close"]

CloseOrphan ==
    /\ pass.pc = "close"
    /\ UNCHANGED <<row, belief, control>>
    /\ \E c \in pass.closable :
       \/ \E k \in Fills(OrphanOrder(c)) :
          /\ pos' = AfterFill(OrphanOrder(c), k)
          /\ pass' = [pass EXCEPT !.pc = "end", !.unresolved = @ \ {c}]
          /\ UNCHANGED <<inflight, lies, clean>>
       \/ /\ PassGoto("end")
          /\ UNCHANGED <<pos, inflight, lies, clean>>
       \/ /\ "outcome" \in Faults /\ inflight = {}
          /\ inflight' = {OrphanOrder(c)}
          /\ clean' = FALSE
          /\ UNCHANGED pos
          /\ \/ \E answer \in Answers :
                /\ lies' = LiesIn(answer)
                /\ pass' = [pass EXCEPT !.pc = "poll", !.base = answer[c]]
             \/ "exchange" \in Faults /\ PassGoto("end") /\ UNCHANGED lies

(* The close timed out and is polled for; only a match resolves the orphan. *)
PollOrphan ==
    /\ pass.pc = "poll"
    /\ SamePosition /\ UNCHANGED <<belief, control>>
    /\ \E c \in pass.closable :
       \/ /\ \E answer \in Answers :
                /\ PollMatches(OrphanOrder(c), pass.base, answer)
                /\ lies' = LiesIn(answer)
          /\ pass' = [pass EXCEPT !.pc = "end", !.unresolved = @ \ {c},
                                  !.taken = {c}]
       \/ /\ PollMisses(OrphanOrder(c), pass.base)
          /\ PassGoto("end") /\ UNCHANGED lies

CountsUnresolved ==                    \* mutant: an orphan that stayed open is ignored
    ctl # "unreadable" /\ ~pass.dry /\ ~pass.skipped

(* A pass that counts lets opens resume; traded coins it had to hold set   *)
(* the reconcile hold (RestoreGuard: what happens when that write fails).  *)
Counts == ctl # "unreadable" /\ ~pass.dry /\ ~pass.skipped /\ pass.unresolved = {}
HeldTraded == ctl = "none" /\ pass.held \intersect Traded # {}

EndPass ==
    /\ pass.pc = "end"
    /\ Abandon
    /\ awaiting' = IF Counts THEN "no" ELSE awaiting
    /\ holdKey' = (holdKey \/ HeldTraded)
    /\ ctl' = IF HeldTraded THEN "set" ELSE ctl
    /\ UNCHANGED <<account, belief, paused>>

PassStep == ReadExchange \/ ConfirmRead \/ CloseRows \/ FindOrphans
            \/ ReadAgain \/ CloseOrphan \/ PollOrphan \/ EndPass
=============================================================================
