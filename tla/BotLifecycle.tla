---------------------------- MODULE BotLifecycle ----------------------------
(***************************************************************************)
(* The dashboard starts and stops a tenant's bots: a row per bot, a         *)
(* container per row, and a cap on the bots that run. A start claims its   *)
(* row in the transaction that counts the running ones, and then takes      *)
(* seconds to spawn the container; stops, deletions, status reads and other *)
(* starts run in between, each a few awaits long. The row says what it     *)
(* is told, Docker what is so.                                             *)
(***************************************************************************)
EXTENDS Integers, FiniteSets

CONSTANTS Bots, Cap,            \* the tenant's bots; max_active_bots
          Slots,                \* requests at a time
          None,
          MaxSpawns             \* bound: containers created

LifecycleConstants == /\ Cap \in Nat \ {0} /\ MaxSpawns \in Nat /\ None \notin Nat
                      /\ IsFiniteSet(Bots) /\ IsFiniteSet(Slots)

Claim == 0                      \* CLAIM_PLACEHOLDER; a container is 1, 2, ...
Absent == [state |-> "never", running |-> FALSE, handle |-> None, stale |-> FALSE]

(* Bound: a deleted row has no successor. *)
Gone == [Absent EXCEPT !.state = "gone"]

VARIABLES bots,         \* tenant_bots
          docker,       \* per name: the container, or None
          spawns,       \* containers created
          request,      \* per slot: what runs, where, the row it read, the
                        \* container it made and has not recorded
          crossed,      \* history: bots whose row changed under a request, or
                        \* whose container Docker did not stop or describe
          died          \* history: bots with a start a dead dashboard dropped

lifecycleVars == <<bots, docker, spawns, request, crossed, died>>

NoRequest == [kind |-> "none", bot |-> None, pc |-> "idle", row |-> Absent, made |-> None]

Init == /\ bots \in [Bots -> {Absent, [Absent EXCEPT !.state = "there"]}]
        /\ docker = [b \in Bots |-> None] /\ spawns = 0
        /\ request = [s \in Slots |-> NoRequest]
        /\ crossed = {} /\ died = {}

There(b) == bots[b].state = "there"
Running == {b \in Bots : bots[b].running}
Starting(b) == \E s \in Slots : request[s].bot = b /\ request[s].kind \in {"start", "create"}
IsClaim(row) == row.running /\ row.handle = Claim
Put(b, row) == bots' = [bots EXCEPT ![b] = row]
Off(row) == [row EXCEPT !.running = FALSE, !.handle = None, !.stale = FALSE]

Becomes(s, r) == request' = [request EXCEPT ![s] = r]
Ends(s) == Becomes(s, NoRequest)
Goes(s, pc) == Becomes(s, [request[s] EXCEPT !.pc = pc])
At(s, kinds, pc) == request[s].kind \in kinds /\ request[s].pc = pc

Bot(s) == request[s].bot
Row(s) == bots[Bot(s)]

(* The first read of a request decides whether it goes on. A stop of a bot  *)
(* that is stopped may go on or not: the container's name decides, which    *)
(* the row keeps when only its handle is cleared, and is left out here.     *)
Reads(s, kind, b) ==
    /\ request[s] = NoRequest
    /\ Becomes(s, IF kind \in {"start", "create"}
                  THEN [NoRequest EXCEPT !.kind = kind, !.bot = b, !.pc = "claim"]
                  ELSE [NoRequest EXCEPT !.kind = kind, !.bot = b, !.pc = "docker",
                                         !.row = bots[b]])
    /\ UNCHANGED <<bots, docker, spawns, crossed, died>>

LooksAt(b) == /\ There(b) /\ bots[b].handle # None
              /\ IsClaim(bots[b]) => bots[b].stale

(* Bound: nothing more is asked of a bot once it is in `crossed`, where the  *)
(* properties below say nothing of it.                                     *)
Arrives(s, b) ==
    /\ b \notin crossed
    /\ \/ There(b) /\ ~bots[b].running /\ Reads(s, "start", b)
       \/ bots[b] = Absent /\ Reads(s, "create", b)
       \/ There(b) /\ Reads(s, "stop", b)
       \/ There(b) /\ Reads(s, "delete", b)
       \/ LooksAt(b) /\ Reads(s, "get", b)

----------------------------------------------------------------------------
(* reserveBotStart: under the tenant's lock, stale claims are reaped, the   *)
(* running bots counted, and the row claimed.  A tenant without a cap       *)
(* (max_active_bots NULL), who is neither reaped nor counted, is left out.  *)
Reaped(b) == IF IsClaim(bots[b]) /\ bots[b].stale THEN Off(bots[b]) ELSE bots[b]

Free(s) == IF request[s].kind = "create" THEN Row(s) = Absent
           ELSE There(Bot(s)) /\ ~Reaped(Bot(s)).running

(* Mutant: the cap is checked without the claims. *)
UnderCapOfContainers(s) ==
    Cardinality({b \in Bots : Reaped(b).running /\ ~IsClaim(bots[b])}) < Cap

UnderCap(s) == Cardinality({b \in Bots : Reaped(b).running}) < Cap

Reserve(s) ==
    /\ At(s, {"start", "create"}, "claim")
    /\ \/ /\ UnderCap(s) /\ Free(s)
          /\ bots' = [b \in Bots |->
                IF b = Bot(s) THEN [state |-> "there", running |-> TRUE,
                                    handle |-> Claim, stale |-> FALSE]
                ELSE Reaped(b)]
          /\ Goes(s, "spawn")
       \/ /\ UnderCap(s) /\ ~Free(s) /\ request[s].kind = "start"
          /\ bots' = [b \in Bots |-> Reaped(b)]       \* no row to claim: committed
          /\ Ends(s)
       \/ /\ ~UnderCap(s) \/ (~Free(s) /\ request[s].kind = "create")
          /\ Ends(s) /\ UNCHANGED bots               \* raised: rolled back
    /\ UNCHANGED <<docker, spawns, crossed, died>>

(* decryptAndStart fails before it spawns anything, or Docker refuses: the  *)
(* name may be taken.                                                      *)
SpawnFails(s) ==
    /\ At(s, {"start", "create"}, "spawn") /\ Goes(s, "revert")
    /\ UNCHANGED <<bots, docker, spawns, crossed, died>>

(* The container is created; it may fail to start, and once it runs Docker  *)
(* may fail to describe it, which counts as a failed start.                *)
Spawn(s) ==
    /\ At(s, {"start", "create"}, "spawn") /\ docker[Bot(s)] = None
    /\ spawns < MaxSpawns /\ spawns' = spawns + 1
    /\ \E up, described \in BOOLEAN :
          /\ docker' = [docker EXCEPT ![Bot(s)] = [id |-> spawns + 1, up |-> up]]
          /\ IF up /\ described
             THEN Becomes(s, [request[s] EXCEPT !.pc = "record", !.made = spawns + 1])
             ELSE Goes(s, "revert")
          /\ crossed' = IF up /\ ~described THEN crossed \cup {Bot(s)} ELSE crossed
    /\ UNCHANGED <<bots, died>>

(* stopAndRemove, of a handle that may name nothing. *)
Removed(b, handle) ==
    [docker EXCEPT ![b] = IF @ # None /\ @.id = handle THEN None ELSE @]

(* It fails, perhaps between the stop and the removal. *)
Halted(b, handle) ==
    [docker EXCEPT ![b] = IF @ # None /\ @.id = handle THEN [@ EXCEPT !.up = FALSE] ELSE @]

(* Mutant: a start that cannot be recorded leaves its container. *)
NotUndone(s) == UNCHANGED <<docker, crossed>>

(* The container is stopped again, unless Docker refuses that too. *)
Undone(s) == \/ docker' = Removed(Bot(s), request[s].made) /\ UNCHANGED crossed
             \/ /\ docker' \in {docker, Halted(Bot(s), request[s].made)}
                /\ crossed' = crossed \cup {Bot(s)}

(* The container is recorded, unless the row is gone or the write fails.    *)
Record(s) ==
    /\ At(s, {"start", "create"}, "record")
    /\ \/ /\ There(Bot(s))
          /\ Put(Bot(s), [Row(s) EXCEPT !.running = TRUE, !.stale = FALSE,
                                        !.handle = request[s].made])
          /\ Ends(s) /\ UNCHANGED <<docker, crossed>>
       \/ UNCHANGED bots /\ Undone(s)
          /\ Becomes(s, [request[s] EXCEPT !.pc = "revert", !.made = None])
    /\ UNCHANGED <<spawns, died>>

(* The claim is taken back, whoever holds the row by now.                   *)
Revert(s) ==
    /\ At(s, {"start", "create"}, "revert") /\ Ends(s)
    /\ \/ /\ There(Bot(s))
          /\ Put(Bot(s), IF request[s].kind = "create" THEN Gone ELSE Off(Row(s)))
       \/ UNCHANGED bots
    /\ UNCHANGED <<docker, spawns, crossed, died>>

----------------------------------------------------------------------------
(* Stop, delete and the status read act on the handle they read at first.   *)
StopContainer(s) ==
    /\ At(s, {"stop", "delete"}, "docker") /\ Goes(s, "write")
    /\ docker' = Removed(Bot(s), request[s].row.handle)
    /\ UNCHANGED <<bots, spawns, crossed, died>>

DockerFails(s) ==
    /\ At(s, {"stop", "delete", "get"}, "docker") /\ Ends(s)
    /\ docker' \in IF request[s].kind = "get" THEN {docker}
                   ELSE {docker, Halted(Bot(s), request[s].row.handle)}
    /\ UNCHANGED <<bots, spawns, crossed, died>>

Inspect(s) ==
    /\ At(s, {"get"}, "docker")
    /\ LET c == docker[Bot(s)]
       IN  IF c # None /\ c.id = request[s].row.handle THEN Ends(s) ELSE Goes(s, "write")
    /\ UNCHANGED <<bots, docker, spawns, crossed, died>>

(* The row is not what was read, or it is the claim of a start that a stop  *)
(* takes away.                                                             *)
Crosses(s) == \/ Row(s) # request[s].row
              \/ request[s].kind = "stop" /\ IsClaim(Row(s)) /\ Starting(Bot(s))

Write(s) ==
    /\ At(s, {"stop", "delete", "get"}, "write") /\ Ends(s)
    /\ crossed' = IF Crosses(s) THEN crossed \cup {Bot(s)} ELSE crossed
    /\ Put(Bot(s), IF request[s].kind = "delete" \/ ~There(Bot(s)) THEN Gone
                   ELSE Off(Row(s)))
    /\ UNCHANGED <<docker, spawns, died>>

(* docker rm, by hand; ten minutes go by, longer than any request lives;   *)
(* the dashboard restarts.                                                 *)
RemovedByHand(b) == /\ docker[b] # None /\ docker' = [docker EXCEPT ![b] = None]
                    /\ UNCHANGED <<bots, spawns, request, crossed, died>>

ClaimAges(b) == /\ IsClaim(bots[b]) /\ ~bots[b].stale /\ ~Starting(b)
                /\ Put(b, [bots[b] EXCEPT !.stale = TRUE])
                /\ UNCHANGED <<docker, spawns, request, crossed, died>>

Restart == /\ request # [s \in Slots |-> NoRequest]
           /\ request' = [s \in Slots |-> NoRequest]
           /\ died' = died \cup {b \in Bots : Starting(b)}
           /\ UNCHANGED <<bots, docker, spawns, crossed>>

Next == \/ \E s \in Slots : \/ \E b \in Bots : Arrives(s, b)
                            \/ Reserve(s) \/ SpawnFails(s) \/ Spawn(s) \/ Record(s)
                            \/ Revert(s) \/ StopContainer(s) \/ DockerFails(s)
                            \/ Inspect(s) \/ Write(s)
        \/ \E b \in Bots : RemovedByHand(b) \/ ClaimAges(b)
        \/ Restart

Spec == Init /\ [][Next]_lifecycleVars

----------------------------------------------------------------------------
TypeOK ==
    /\ bots \in [Bots -> [state : {"never", "there", "gone"}, running : BOOLEAN, stale : BOOLEAN,
                          handle : {None} \cup 0..MaxSpawns]]
    /\ \A b \in Bots : docker[b] = None \/ docker[b].id \in 1..spawns
    /\ spawns \in 0..MaxSpawns /\ {crossed, died} \subseteq SUBSET Bots

(* The cap holds across starts of different bots, failed starts, status     *)
(* reads, deletions and restarts (reserveBotStart), unless a stop takes the *)
(* claim of a start that goes on, or a row changed under a request.        *)
CapHolds == crossed = {} => Cardinality(Running) <= Cap

(* Between requests no container runs that its row does not name, whatever  *)
(* fails, unless the dashboard died during the start, Docker did not answer *)
(* or a row changed under a request.                                       *)
NoStrayContainer ==
    \A b \in Bots : /\ docker[b] # None /\ docker[b].up
                    /\ b \notin crossed \cup died
                    /\ \A s \in Slots : Bot(s) # b
                    => bots[b].handle = docker[b].id

(* "Reconcile DB row regardless - container is either stopped or was        *)
(* already gone": when a stop writes the row, nothing of the bot runs but   *)
(* what a start in flight will record, or what Docker failed to answer for  *)
(* before.                                                                 *)
StoppedMeansStopped ==
    [][\A s \in Slots : At(s, {"stop"}, "write") /\ request'[s] = NoRequest /\ died' = died
          /\ Bot(s) \notin crossed
          => docker[Bot(s)] = None \/ ~docker[Bot(s)].up \/ Starting(Bot(s))]_lifecycleVars
=============================================================================
