------------------------- MODULE BotLifecycleProofs -------------------------
(***************************************************************************)
(* What the dashboard's starts and stops guarantee for every number of     *)
(* bots, of requests at a time and of containers, and for every cap: the   *)
(* cap holds over every interleaving, and between requests no container    *)
(* runs that its row does not name.                                        *)
(***************************************************************************)
EXTENDS BotLifecycle, TLAPS, FiniteSetTheorems

Rows(n) == [state : {"never", "there", "gone"}, running : BOOLEAN,
            handle : {None} \cup 0..n, stale : BOOLEAN]
Containers(n) == [id : 1..n, up : BOOLEAN]
Requests(n) == [kind : {"none", "start", "create", "stop", "delete", "get"},
                bot : Bots \cup {None},
                pc : {"idle", "claim", "spawn", "record", "revert", "docker", "write"},
                row : Rows(n), made : {None} \cup 1..n]

(* A handle names no container that was not created yet.                   *)
Typed ==
    /\ spawns \in 0..MaxSpawns
    /\ bots \in [Bots -> Rows(spawns)]
    /\ docker \in [Bots -> {None} \cup Containers(spawns)]
    /\ request \in [Slots -> Requests(spawns)]
    /\ \A s \in Slots : request[s].kind # "none" => Bot(s) \in Bots
    /\ crossed \subseteq Bots /\ died \subseteq Bots

(* A row that runs has a handle, and only one that is there runs.          *)
RowsFit == \A b \in Bots : /\ bots[b].running <=> bots[b].handle # None
                           /\ bots[b].running => There(b)

(* A start or a creation between its claim and its end.                    *)
Past(s) == request[s].kind \in {"start", "create"}
           /\ request[s].pc \in {"spawn", "record", "revert"}

(* The claim of a start in flight stands until the start ends it or the row *)
(* is deleted, and a bot has one such start.                               *)
FreshClaim(row) == row.state = "there" /\ IsClaim(row) /\ ~row.stale
ClaimStands == \A s \in Slots : Past(s) /\ Bot(s) \notin crossed
                                => Row(s).state = "gone" \/ FreshClaim(Row(s))
OneStart == \A s, t \in Slots : Past(s) /\ Past(t) /\ Bot(s) = Bot(t) /\ Bot(s) \notin crossed
                                => s = t

(* A status read does not act on the claim of a start in flight.           *)
ReadsNoClaim == \A s \in Slots : request[s].kind = "get" /\ IsClaim(request[s].row)
                                 => request[s].row.stale

(* A container that is to be recorded has been made.                       *)
MadeKnown == \A s \in Slots : request[s].pc = "record" => request[s].made # None

ClaimInv == RowsFit /\ ClaimStands /\ OneStart /\ ReadsNoClaim

(* A stop, deletion or status read that is about to write the row has seen  *)
(* the container that it read of leave.                                    *)
WriterSawItGo ==
    \A s \in Slots : At(s, {"stop", "delete", "get"}, "write")
       => docker[Bot(s)] = None \/ docker[Bot(s)].id # request[s].row.handle

(* A container that runs is the one its row names, or the one a start in   *)
(* flight is about to record.                                              *)
Accounted ==
    \A b \in Bots : docker[b] # None /\ docker[b].up /\ b \notin crossed \cup died
       => \/ bots[b].handle = docker[b].id
          \/ \E s \in Slots : /\ Past(s) /\ request[s].pc = "record"
                              /\ Bot(s) = b /\ request[s].made = docker[b].id
-----------------------------------------------------------------------------
(* What a step of a request does to the table of requests.                 *)
LEMMA OneRequestMoves ==
  ASSUME Typed, NEW s \in Slots, NEW r, Becomes(s, r)
  PROVE  /\ request'[s] = r
         /\ \A t \in Slots : t # s => request'[t] = request[t]
         /\ \A n : r \in Requests(n) /\ request \in [Slots -> Requests(n)]
                   => request' \in [Slots -> Requests(n)]
  BY DEF Typed, Becomes

LEMMA SmallTypes ==
  ASSUME LifecycleConstants, NEW n \in Nat
  PROVE  /\ Absent \in Rows(n) /\ Gone \in Rows(n)
         /\ \A row \in Rows(n) : Off(row) \in Rows(n)
         /\ NoRequest \in Requests(n)
<1>1. Absent \in Rows(n)
  BY DEF Absent, Rows
<1>2. Gone \in Rows(n)
  BY <1>1 DEF Gone, Rows
<1>3. ASSUME NEW row \in Rows(n) PROVE Off(row) \in Rows(n)
  BY <1>3 DEF Off, Rows
<1>4. NoRequest \in Requests(n)
  BY <1>1 DEF NoRequest, Requests
<1> QED
  BY <1>1, <1>2, <1>3, <1>4

LEMMA TypesGrow ==
  ASSUME NEW n \in Nat, NEW m \in Nat, n <= m
  PROVE  Rows(n) \subseteq Rows(m) /\ Containers(n) \subseteq Containers(m)
         /\ Requests(n) \subseteq Requests(m)
<1>1. 0..n \subseteq 0..m /\ 1..n \subseteq 1..m
  OBVIOUS
<1>2. Rows(n) \subseteq Rows(m) /\ Containers(n) \subseteq Containers(m)
  BY <1>1 DEF Rows, Containers
<1> QED
  BY <1>1, <1>2 DEF Requests

(* Moving a request on keeps its type.                                     *)
LEMMA MovedRequest ==
  ASSUME Typed, NEW s \in Slots,
         NEW pc \in {"idle", "claim", "spawn", "record", "revert", "docker", "write"}
  PROVE  /\ [request[s] EXCEPT !.pc = pc] \in Requests(spawns)
         /\ [request[s] EXCEPT !.pc = pc].kind = request[s].kind
         /\ [request[s] EXCEPT !.pc = pc].bot = request[s].bot
         /\ [request[s] EXCEPT !.pc = pc].row = request[s].row
         /\ [request[s] EXCEPT !.pc = pc].made = request[s].made
         /\ [request[s] EXCEPT !.pc = pc].pc = pc
<1> request[s] \in Requests(spawns)
  BY DEF Typed
<1> QED
  BY DEF Requests

(* What stays typed when a request moves and spawns does not change.       *)
LEMMA TypedStep ==
  ASSUME Typed, NEW s \in Slots, NEW r \in Requests(spawns), Becomes(s, r), spawns' = spawns,
         r.kind # "none" => r.bot \in Bots,
         bots' \in [Bots -> Rows(spawns)],
         docker' \in [Bots -> {None} \cup Containers(spawns)],
         crossed' \subseteq Bots, died' \subseteq Bots
  PROVE  Typed'
<1>1. /\ request' \in [Slots -> Requests(spawns)]
      /\ request'[s] = r /\ \A t \in Slots : t # s => request'[t] = request[t]
  BY OneRequestMoves DEF Typed
<1>2. \A t \in Slots : request'[t].kind # "none" => request'[t].bot \in Bots
  BY <1>1 DEF Typed, Bot
<1> QED
  BY <1>1, <1>2 DEF Typed, Bot

LEMMA KindsOf ==
  ASSUME Typed, NEW s \in Slots, NEW kinds, NEW pc, At(s, kinds, pc), "none" \notin kinds
  PROVE  Bot(s) \in Bots /\ request[s].kind \in kinds /\ request[s].pc = pc
  BY DEF Typed, At

(* Stopping and halting keep the types of the containers.                  *)
LEMMA DockerTyped ==
  ASSUME Typed, NEW b \in Bots, NEW handle
  PROVE  /\ Removed(b, handle) \in [Bots -> {None} \cup Containers(spawns)]
         /\ Halted(b, handle) \in [Bots -> {None} \cup Containers(spawns)]
<1> DEFINE C == {None} \cup Containers(spawns)
<1>1. docker \in [Bots -> C] /\ docker[b] \in C
  BY DEF Typed
<1>2. None \in C /\ (docker[b] # None => [docker[b] EXCEPT !.up = FALSE] \in C)
  <2> SUFFICES ASSUME docker[b] # None PROVE [docker[b] EXCEPT !.up = FALSE] \in Containers(spawns)
    OBVIOUS
  <2>1. docker[b] \in Containers(spawns)
    BY <1>1
  <2> QED
    BY <2>1 DEF Containers
<1> HIDE DEF C
<1> QED
  BY <1>1, <1>2 DEF Removed, Halted, C

LEMMA NextTyped ==
  ASSUME LifecycleConstants, Typed, [Next]_lifecycleVars PROVE Typed'
<1>0. spawns \in Nat /\ MaxSpawns \in Nat
  BY DEF LifecycleConstants, Typed
<1>1. /\ Absent \in Rows(spawns) /\ Gone \in Rows(spawns)
      /\ \A row \in Rows(spawns) : Off(row) \in Rows(spawns)
      /\ NoRequest \in Requests(spawns)
  BY <1>0, SmallTypes
<1>2. NoRequest.kind = "none" /\ NoRequest.bot = None
  BY DEF NoRequest
<1>3. \A b \in Bots, row \in Rows(spawns) : Put(b, row) => bots' \in [Bots -> Rows(spawns)]
  BY DEF Put, Typed
<1>4. \A b \in Bots : bots[b] \in Rows(spawns)
  BY DEF Typed
<1>5. ASSUME NEW s \in Slots, NEW b \in Bots, Arrives(s, b) PROVE Typed'
  <2>1. PICK kind \in {"start", "create", "stop", "delete", "get"} : Reads(s, kind, b)
    BY <1>5 DEF Arrives
  <2> DEFINE r == IF kind \in {"start", "create"}
                  THEN [NoRequest EXCEPT !.kind = kind, !.bot = b, !.pc = "claim"]
                  ELSE [NoRequest EXCEPT !.kind = kind, !.bot = b, !.pc = "docker",
                                         !.row = bots[b]]
  <2>2. Becomes(s, r) /\ UNCHANGED <<bots, docker, spawns, crossed, died>>
    BY <2>1 DEF Reads
  <2>3. r \in Requests(spawns) /\ r.bot \in Bots
    BY <1>1, <1>4 DEF Requests, NoRequest
  <2> HIDE DEF r
  <2> QED
    BY <2>2, <2>3, TypedStep DEF Typed
<1>6. ASSUME NEW s \in Slots, Reserve(s) PROVE Typed'
  <2>1. Bot(s) \in Bots
    BY <1>6, KindsOf DEF Reserve
  <2>2. CASE Ends(s) /\ UNCHANGED <<bots, docker, spawns, crossed, died>>
    BY <1>1, <1>2, <2>2, TypedStep DEF Ends, Typed
  <2>3. CASE /\ bots' = [b \in Bots |-> IF b = Bot(s) THEN [state |-> "there", running |-> TRUE,
                                                          handle |-> Claim, stale |-> FALSE]
                                       ELSE Reaped(b)]
             /\ Goes(s, "spawn") /\ UNCHANGED <<docker, spawns, crossed, died>>
    <3>1. [state |-> "there", running |-> TRUE, handle |-> Claim, stale |-> FALSE] \in Rows(spawns)
      BY <1>0 DEF Rows, Claim
    <3>2. \A b \in Bots : Reaped(b) \in Rows(spawns)
      BY <1>1, <1>4 DEF Reaped
    <3>3. bots' \in [Bots -> Rows(spawns)]
      BY <2>3, <3>1, <3>2
    <3> QED
      BY <2>1, <2>3, <3>3, TypedStep, MovedRequest DEF Goes, Typed, Bot
  <2>4. CASE Ends(s) /\ bots' = [b \in Bots |-> Reaped(b)]
             /\ UNCHANGED <<docker, spawns, crossed, died>>
    <3>1. bots' \in [Bots -> Rows(spawns)]
      BY <1>1, <1>4, <2>4 DEF Reaped
    <3> QED
      BY <1>1, <1>2, <2>4, <3>1, TypedStep DEF Ends, Typed
  <2> QED
    BY <1>6, <2>2, <2>3, <2>4 DEF Reserve
<1>7. ASSUME NEW s \in Slots, SpawnFails(s) PROVE Typed'
  <2>1. Bot(s) \in Bots
    BY <1>7, KindsOf DEF SpawnFails
  <2> QED
    BY <1>7, <2>1, TypedStep, MovedRequest DEF SpawnFails, Goes, Typed, Bot
<1>8. ASSUME NEW s \in Slots, Spawn(s) PROVE Typed'
  <2>1. /\ Bot(s) \in Bots /\ spawns < MaxSpawns /\ spawns' = spawns + 1
        /\ UNCHANGED <<bots, died>>
    BY <1>8, KindsOf DEF Spawn
  <2>2. PICK on, described \in BOOLEAN :
          /\ docker' = [docker EXCEPT ![Bot(s)] = [id |-> spawns + 1, up |-> on]]
          /\ IF on /\ described
             THEN Becomes(s, [request[s] EXCEPT !.pc = "record", !.made = spawns + 1])
             ELSE Goes(s, "revert")
          /\ crossed' = IF on /\ ~described THEN crossed \cup {Bot(s)} ELSE crossed
    BY <1>8 DEF Spawn
  <2> DEFINE N == spawns + 1
  <2>3. N \in 0..MaxSpawns /\ N \in Nat /\ spawns <= N
    BY <1>0, <2>1
  <2>4. /\ Rows(spawns) \subseteq Rows(N) /\ Containers(spawns) \subseteq Containers(N)
        /\ Requests(spawns) \subseteq Requests(N)
    BY <1>0, <2>3, TypesGrow
  <2>5. bots' \in [Bots -> Rows(N)]
    BY <2>1, <2>4 DEF Typed
  <2>6. docker' \in [Bots -> {None} \cup Containers(N)]
    <3>1. [id |-> spawns + 1, up |-> on] \in Containers(N)
      BY <1>0, <2>3 DEF Containers
    <3>2. docker \in [Bots -> {None} \cup Containers(N)]
      BY <2>4 DEF Typed
    <3> HIDE DEF N
    <3> QED
      BY <2>2, <3>1, <3>2
  <2>7. PICK r : /\ Becomes(s, r) /\ r \in Requests(N) /\ r.bot = Bot(s)
    <3>1. request[s] \in Requests(N) /\ request[s] \in Requests(spawns)
      BY <2>4 DEF Typed
    <3>2. /\ [request[s] EXCEPT !.pc = "record", !.made = spawns + 1] \in Requests(N)
          /\ [request[s] EXCEPT !.pc = "record", !.made = spawns + 1].bot = Bot(s)
      <4>1. N \in 1..N
        BY <1>0, <2>3
      <4> QED
        BY <3>1, <4>1 DEF Requests, Bot
    <3>3. /\ [request[s] EXCEPT !.pc = "revert"] \in Requests(N)
          /\ [request[s] EXCEPT !.pc = "revert"].bot = Bot(s)
      BY <3>1 DEF Requests, Bot
    <3> QED
      BY <2>2, <3>2, <3>3 DEF Goes
  <2>8. /\ request' \in [Slots -> Requests(N)]
        /\ request'[s] = r /\ \A t \in Slots : t # s => request'[t] = request[t]
    <3>1. request \in [Slots -> Requests(N)]
      BY <2>4 DEF Typed
    <3> QED
      BY <2>7, <3>1, OneRequestMoves
  <2>9. \A t \in Slots : request'[t].kind # "none" => request'[t].bot \in Bots
    BY <2>1, <2>7, <2>8 DEF Typed, Bot
  <2>10. crossed' \subseteq Bots
    BY <2>1, <2>2 DEF Typed
  <2> QED
    BY <2>1, <2>3, <2>5, <2>6, <2>8, <2>9, <2>10 DEF Typed, Bot
<1>9. ASSUME NEW s \in Slots, Record(s) PROVE Typed'
  <2>1. Bot(s) \in Bots /\ UNCHANGED <<spawns, died>> /\ request[s] \in Requests(spawns)
    BY <1>9, KindsOf DEF Record, Typed
  <2>2. CASE /\ There(Bot(s)) /\ Ends(s) /\ UNCHANGED <<docker, crossed>>
             /\ Put(Bot(s), [Row(s) EXCEPT !.running = TRUE, !.stale = FALSE,
                                          !.handle = request[s].made])
    <3>1. [Row(s) EXCEPT !.running = TRUE, !.stale = FALSE, !.handle = request[s].made]
          \in Rows(spawns)
      <4>1. Row(s) \in Rows(spawns) /\ request[s].made \in {None} \cup 1..spawns
        BY <1>4, <2>1 DEF Row, Requests
      <4>2. request[s].made \in {None} \cup 0..spawns
        BY <1>0, <4>1
      <4> QED
        BY <4>1, <4>2 DEF Rows
    <3>2. bots' \in [Bots -> Rows(spawns)]
      BY <1>3, <2>1, <2>2, <3>1
    <3> QED
      BY <1>1, <1>2, <2>1, <2>2, <3>2, TypedStep DEF Ends, Typed
  <2>3. CASE /\ UNCHANGED bots /\ Undone(s)
             /\ Becomes(s, [request[s] EXCEPT !.pc = "revert", !.made = None])
    <3>1. /\ [request[s] EXCEPT !.pc = "revert", !.made = None] \in Requests(spawns)
          /\ [request[s] EXCEPT !.pc = "revert", !.made = None].bot = Bot(s)
      BY <2>1 DEF Requests, Bot
    <3>2. docker' \in [Bots -> {None} \cup Containers(spawns)]
      BY <2>1, <2>3, DockerTyped DEF Undone, Typed
    <3>3. crossed' \subseteq Bots
      BY <2>1, <2>3 DEF Undone, Typed
    <3> QED
      BY <2>1, <2>3, <3>1, <3>2, <3>3, TypedStep DEF Typed
  <2> QED
    BY <1>9, <2>2, <2>3 DEF Record
<1>10. ASSUME NEW s \in Slots, Revert(s) PROVE Typed'
  <2>1. Bot(s) \in Bots
    BY <1>10, KindsOf DEF Revert
  <2>2. bots' \in [Bots -> Rows(spawns)]
    <3>1. CASE UNCHANGED bots
      BY <3>1 DEF Typed
    <3>2. CASE Put(Bot(s), IF request[s].kind = "create" THEN Gone ELSE Off(Row(s)))
      <4>1. (IF request[s].kind = "create" THEN Gone ELSE Off(Row(s))) \in Rows(spawns)
        BY <1>1, <1>4, <2>1 DEF Row
      <4> QED
        BY <1>3, <2>1, <3>2, <4>1
    <3> QED
      BY <1>10, <3>1, <3>2 DEF Revert
  <2> QED
    BY <1>1, <1>2, <1>10, <2>2, TypedStep DEF Revert, Ends, Typed
<1>11. ASSUME NEW s \in Slots, StopContainer(s) PROVE Typed'
  <2>1. Bot(s) \in Bots
    BY <1>11, KindsOf DEF StopContainer
  <2> QED
    BY <1>11, <2>1, TypedStep, MovedRequest, DockerTyped DEF StopContainer, Goes, Typed, Bot
<1>12. ASSUME NEW s \in Slots, DockerFails(s) PROVE Typed'
  <2>1. Bot(s) \in Bots
    BY <1>12, KindsOf DEF DockerFails
  <2>2. docker' \in [Bots -> {None} \cup Containers(spawns)]
    BY <1>12, <2>1, DockerTyped DEF DockerFails, Typed
  <2> QED
    BY <1>1, <1>2, <1>12, <2>2, TypedStep DEF DockerFails, Ends, Typed
<1>13. ASSUME NEW s \in Slots, Inspect(s) PROVE Typed'
  <2>1. Bot(s) \in Bots
    BY <1>13, KindsOf DEF Inspect
  <2>2. Ends(s) \/ Goes(s, "write")
    BY <1>13 DEF Inspect
  <2> QED
    BY <1>1, <1>2, <1>13, <2>1, <2>2, TypedStep, MovedRequest DEF Inspect, Ends, Goes, Typed, Bot
<1>14. ASSUME NEW s \in Slots, Write(s) PROVE Typed'
  <2>1. Bot(s) \in Bots
    BY <1>14, KindsOf DEF Write
  <2>2. bots' \in [Bots -> Rows(spawns)]
    <3>1. (IF request[s].kind = "delete" \/ ~There(Bot(s)) THEN Gone ELSE Off(Row(s)))
          \in Rows(spawns)
      BY <1>1, <1>4, <2>1 DEF Row
    <3> QED
      BY <1>3, <1>14, <2>1, <3>1 DEF Write
  <2>3. crossed' \subseteq Bots
    BY <1>14, <2>1 DEF Write, Typed
  <2> QED
    BY <1>1, <1>2, <1>14, <2>2, <2>3, TypedStep DEF Write, Ends, Typed
<1>15. ASSUME NEW b \in Bots, RemovedByHand(b) PROVE Typed'
  <2>1. docker' \in [Bots -> {None} \cup Containers(spawns)]
    BY <1>15 DEF RemovedByHand, Typed
  <2> QED
    BY <1>15, <2>1 DEF RemovedByHand, Typed, Bot
<1>16. ASSUME NEW b \in Bots, ClaimAges(b) PROVE Typed'
  <2>1. [bots[b] EXCEPT !.stale = TRUE] \in Rows(spawns)
    BY <1>4 DEF Rows
  <2>2. bots' \in [Bots -> Rows(spawns)]
    BY <1>3, <1>16, <2>1 DEF ClaimAges
  <2> QED
    BY <1>16, <2>2 DEF ClaimAges, Typed, Bot
<1>17. CASE Restart
  BY <1>1, <1>2, <1>17 DEF Restart, Typed, Bot
<1>18. CASE UNCHANGED lifecycleVars
  BY <1>18 DEF lifecycleVars, Typed, Bot
<1> QED
  BY <1>5, <1>6, <1>7, <1>8, <1>9, <1>10, <1>11, <1>12, <1>13, <1>14, <1>15, <1>16, <1>17,
     <1>18 DEF Next

LEMMA TypesKept == ASSUME LifecycleConstants PROVE Spec => []Typed
<1>1. Init => Typed
  <2> SUFFICES ASSUME Init PROVE Typed
    OBVIOUS
  <2>1. 0 \in 0..MaxSpawns /\ 0 \in Nat
    BY DEF LifecycleConstants
  <2>2. Absent \in Rows(0) /\ NoRequest \in Requests(0)
    BY <2>1, SmallTypes
  <2>3. [Absent EXCEPT !.state = "there"] \in Rows(0)
    BY <2>2 DEF Rows
  <2>4. bots \in [Bots -> Rows(0)] /\ request \in [Slots -> Requests(0)]
    BY <2>2, <2>3 DEF Init
  <2>5. \A s \in Slots : request[s].kind = "none"
    BY DEF Init, NoRequest
  <2> QED
    BY <2>1, <2>4, <2>5 DEF Init, Typed, Bot
<1>2. Typed /\ [Next]_lifecycleVars => Typed'
  BY NextTyped
<1> QED
  BY <1>1, <1>2, PTL DEF Spec

(* The rows, the containers and the requests keep their types, and no      *)
(* handle names a container that was not created.                          *)
THEOREM LifecycleTypes == ASSUME LifecycleConstants PROVE Spec => []TypeOK
<1>1. Typed => TypeOK
  <2> SUFFICES ASSUME Typed PROVE TypeOK
    OBVIOUS
  <2>1. spawns \in Nat /\ spawns <= MaxSpawns /\ MaxSpawns \in Nat
    BY DEF Typed, LifecycleConstants
  <2>2. Rows(spawns) \subseteq Rows(MaxSpawns)
    BY <2>1, TypesGrow
  <2>3. bots \in [Bots -> Rows(MaxSpawns)]
    BY <2>2 DEF Typed
  <2>4. \A b \in Bots : docker[b] = None \/ docker[b].id \in 1..spawns
    BY DEF Typed, Containers
  <2> QED
    BY <2>3, <2>4 DEF Typed, TypeOK, Rows
<1> QED
  BY <1>1, TypesKept, PTL

-----------------------------------------------------------------------------
(* What it takes for a step of one request to keep what the claims are      *)
(* worth: the rows of the other starts stand, and a start that goes on is  *)
(* one that had its claim.                                                 *)
LEMMA ClaimsKept ==
  ASSUME Typed, ClaimInv, NEW s \in Slots, crossed \subseteq crossed', RowsFit',
         \A t \in Slots : t # s => request'[t] = request[t],
         Past(s)' => Past(s) /\ Bot(s)' = Bot(s),
         \A t \in Slots : t # s /\ Past(t) /\ Bot(t) \notin crossed'
                         => Row(t)'.state = "gone" \/ FreshClaim(Row(t)'),
         Past(s)' /\ Bot(s) \notin crossed' => Row(s)'.state = "gone" \/ FreshClaim(Row(s)'),
         request'[s].kind = "get" /\ IsClaim(request'[s].row) => request'[s].row.stale
  PROVE  ClaimInv'
<1>1. \A t \in Slots : t # s => Bot(t)' = Bot(t) /\ (Past(t)' <=> Past(t))
  BY DEF Bot, Past
<1>2. ClaimStands'
  <2> SUFFICES ASSUME NEW t \in Slots, Past(t)', Bot(t)' \notin crossed'
               PROVE  Row(t)'.state = "gone" \/ FreshClaim(Row(t)')
    BY DEF ClaimStands, FreshClaim, IsClaim
  <2> QED
    BY <1>1
<1>3. OneStart'
  <2> SUFFICES ASSUME NEW t \in Slots, NEW u \in Slots, Past(t)', Past(u)', Bot(t)' = Bot(u)',
                      Bot(t)' \notin crossed'
               PROVE  t = u
    BY DEF OneStart
  <2>1. Past(t) /\ Past(u) /\ Bot(t) = Bot(u) /\ Bot(t) \notin crossed
    BY <1>1
  <2> QED
    BY <2>1 DEF ClaimInv, OneStart
<1>4. ReadsNoClaim'
  BY DEF ClaimInv, ReadsNoClaim, IsClaim
<1> QED
  BY <1>2, <1>3, <1>4 DEF ClaimInv

(* A step that leaves the rows alone, or changes that of its own bot only, *)
(* by a start in flight or so that nothing but a deletion is left.          *)
LEMMA OwnRowOnly ==
  ASSUME Typed, ClaimInv, NEW s \in Slots, crossed \subseteq crossed', RowsFit', Bot(s) \in Bots,
         \A t \in Slots : t # s => request'[t] = request[t],
         \A b \in Bots : b # Bot(s) => bots'[b] = bots[b],
         \/ bots'[Bot(s)] = bots[Bot(s)]
         \/ Past(s)
         \/ bots'[Bot(s)].state = "gone"
         \/ Bot(s) \in crossed'
         \/ \A t \in Slots : Past(t) => Bot(t) # Bot(s),
         Past(s)' => Past(s) /\ Bot(s)' = Bot(s) /\ bots'[Bot(s)] = bots[Bot(s)],
         request'[s].kind = "get" /\ IsClaim(request'[s].row) => request'[s].row.stale
  PROVE  ClaimInv'
<1>1. \A t \in Slots : t # s => Row(t)' = bots'[Bot(t)]
  BY DEF Row, Bot
<1>2. ASSUME NEW t \in Slots, t # s, Past(t), Bot(t) \notin crossed'
      PROVE  Row(t)'.state = "gone" \/ FreshClaim(Row(t)')
  <2>1. Row(t).state = "gone" \/ FreshClaim(Row(t))
    BY <1>2 DEF ClaimInv, ClaimStands
  <2>2. Bot(t) \in Bots
    BY <1>2 DEF Typed, Past
  <2>3. CASE Bot(t) # Bot(s) \/ bots'[Bot(s)] = bots[Bot(s)]
    <3>1. bots'[Bot(t)] = bots[Bot(t)]
      BY <2>2, <2>3
    <3> QED
      BY <1>1, <1>2, <2>1, <3>1 DEF Row
  <2>4. CASE Bot(t) = Bot(s) /\ bots'[Bot(s)].state = "gone"
    BY <1>1, <1>2, <2>4
  <2>5. CASE Bot(t) = Bot(s) /\ Past(s)
    BY <1>2, <2>5 DEF ClaimInv, OneStart
  <2> QED
    BY <1>2, <2>3, <2>4, <2>5
<1>3. ASSUME Past(s)', Bot(s) \notin crossed'
      PROVE  Row(s)'.state = "gone" \/ FreshClaim(Row(s)')
  <2>1. Past(s) /\ Row(s)' = bots[Bot(s)]
    BY <1>3 DEF Row
  <2> QED
    BY <1>3, <2>1 DEF ClaimInv, ClaimStands, Row
<1> QED
  BY <1>2, <1>3, ClaimsKept, Zenon

LEMMA FittingRows ==
  ASSUME LifecycleConstants, NEW n \in Nat
  PROVE  /\ \A row \in Rows(n) : /\ Off(row).running = FALSE /\ Off(row).handle = None
                                /\ Off(row).state = row.state
         /\ Gone.state = "gone" /\ Gone.running = FALSE /\ Gone.handle = None
         /\ None # Claim
<1>1. Gone.state = "gone" /\ Gone.running = FALSE /\ Gone.handle = None
  BY DEF Gone, Absent
<1>2. None # Claim
  BY DEF LifecycleConstants, Claim
<1>3. ASSUME NEW row \in Rows(n)
      PROVE  Off(row).running = FALSE /\ Off(row).handle = None /\ Off(row).state = row.state
  BY <1>3 DEF Off, Rows
<1> QED
  BY <1>1, <1>2, <1>3

(* A row put in place of one of the others.                                *)
LEMMA PutRow ==
  ASSUME Typed, NEW b \in Bots, NEW row, Put(b, row)
  PROVE  bots'[b] = row /\ \A c \in Bots : c # b => bots'[c] = bots[c]
  BY DEF Typed, Put

LEMMA RowsStillFit ==
  ASSUME RowsFit, NEW b \in Bots, \A c \in Bots : c # b => bots'[c] = bots[c],
         bots'[b].running <=> bots'[b].handle # None,
         bots'[b].running => bots'[b].state = "there"
  PROVE  RowsFit'
<1> SUFFICES ASSUME NEW c \in Bots
             PROVE  /\ bots'[c].running <=> bots'[c].handle # None
                    /\ bots'[c].running => bots'[c].state = "there"
  BY DEF RowsFit, There
<1>1. CASE c = b
  BY <1>1
<1>2. CASE c # b
  BY <1>2 DEF RowsFit, There
<1> QED
  BY <1>1, <1>2

(* A request that arrives has no claim yet.                                *)
LEMMA ArrivesKeepsClaims ==
  ASSUME LifecycleConstants, Typed, ClaimInv, NEW s \in Slots, NEW b \in Bots, Arrives(s, b)
  PROVE  ClaimInv'
<1>1. PICK kind \in {"start", "create", "stop", "delete", "get"} :
         Reads(s, kind, b) /\ (kind = "get" => LooksAt(b))
  BY DEF Arrives
<1> DEFINE r == IF kind \in {"start", "create"}
                THEN [NoRequest EXCEPT !.kind = kind, !.bot = b, !.pc = "claim"]
                ELSE [NoRequest EXCEPT !.kind = kind, !.bot = b, !.pc = "docker",
                                       !.row = bots[b]]
<1>2. Becomes(s, r) /\ UNCHANGED <<bots, docker, spawns, crossed, died>> /\ request[s] = NoRequest
  BY <1>1 DEF Reads
<1>3. request'[s] = r /\ \A t \in Slots : t # s => request'[t] = request[t]
  BY <1>2, OneRequestMoves
<1>4. r.kind = kind /\ r.pc \in {"claim", "docker"} /\ (kind = "get" => r.row = bots[b])
  BY DEF NoRequest
<1> HIDE DEF r
<1>5. ~Past(s)'
  BY <1>3, <1>4 DEF Past
<1>6. kind = "get" /\ IsClaim(r.row) => r.row.stale
  BY <1>1, <1>4 DEF LooksAt, IsClaim
<1>7. RowsFit'
  BY <1>2 DEF ClaimInv, RowsFit, There
<1>8. \A t \in Slots : t # s => Row(t)' = Row(t)
  BY <1>2, <1>3 DEF Row, Bot
<1> QED
  BY <1>2, <1>3, <1>4, <1>5, <1>6, <1>7, <1>8, ClaimsKept DEF ClaimInv, ClaimStands

(* The claim is taken where no start in flight has one: that of another is *)
(* fresh and not reaped.                                                   *)
LEMMA ReserveKeepsClaims ==
  ASSUME LifecycleConstants, Typed, ClaimInv, NEW s \in Slots, Reserve(s)
  PROVE  ClaimInv'
<1>0. Bot(s) \in Bots /\ request[s].kind \in {"start", "create"} /\ request[s].pc = "claim"
  BY KindsOf DEF Reserve
<1>1. CASE Ends(s) /\ UNCHANGED <<bots, docker, spawns, crossed, died>>
  <2>1. request'[s] = NoRequest /\ \A t \in Slots : t # s => request'[t] = request[t]
    BY <1>1, OneRequestMoves DEF Ends
  <2>2. ~Past(s)' /\ request'[s].kind # "get"
    BY <2>1 DEF Past, NoRequest
  <2>3. RowsFit'
    BY <1>1 DEF ClaimInv, RowsFit, There
  <2> QED
    BY <1>0, <1>1, <2>1, <2>2, <2>3, OwnRowOnly
<1>2. CASE /\ Free(s) /\ Goes(s, "spawn") /\ UNCHANGED <<docker, spawns, crossed, died>>
           /\ bots' = [b \in Bots |-> IF b = Bot(s) THEN [state |-> "there", running |-> TRUE,
                                                        handle |-> Claim, stale |-> FALSE]
                                     ELSE Reaped(b)]
  <2> DEFINE r == [request[s] EXCEPT !.pc = "spawn"]
  <2>1. request'[s] = r /\ \A t \in Slots : t # s => request'[t] = request[t]
    BY <1>2, OneRequestMoves DEF Goes
  <2>2. r.kind = request[s].kind /\ r.bot = Bot(s) /\ r.pc = "spawn"
    BY MovedRequest DEF Bot
  <2> HIDE DEF r
  <2>3. ASSUME NEW t \in Slots, Past(t), Bot(t) \notin crossed PROVE Bot(t) # Bot(s) /\ t # s
    <3>1. Row(t).state = "gone" \/ FreshClaim(Row(t))
      BY <2>3 DEF ClaimInv, ClaimStands
    <3>2. Bot(t) = Bot(s) => ~(Row(t).state = "gone")
      BY <1>2 DEF Free, There, Row, Absent
    <3>3. Bot(t) = Bot(s) => ~FreshClaim(Row(t))
      BY <1>2 DEF Free, Reaped, FreshClaim, IsClaim, Row, Absent
    <3> QED
      BY <1>0, <2>3, <3>1, <3>2, <3>3 DEF Past
  <2>4. FreshClaim(bots'[Bot(s)]) /\ bots'[Bot(s)].running /\ bots'[Bot(s)].handle = Claim
    BY <1>0, <1>2 DEF FreshClaim, IsClaim
  <2>5. RowsFit'
    <3> SUFFICES ASSUME NEW b \in Bots
                 PROVE  /\ bots'[b].running <=> bots'[b].handle # None
                        /\ bots'[b].running => bots'[b].state = "there"
      BY DEF RowsFit, There
    <3>1. CASE b = Bot(s)
      BY <2>4, <3>1 DEF FreshClaim, LifecycleConstants, Claim
    <3>2. CASE b # Bot(s) /\ bots'[b] = bots[b]
      BY <3>2 DEF ClaimInv, RowsFit, There
    <3>3. CASE b # Bot(s) /\ bots'[b] = Off(bots[b])
      <4>1. bots[b] \in Rows(spawns) /\ spawns \in Nat
        BY DEF Typed
      <4> QED
        BY <3>3, <4>1, FittingRows
    <3> QED
      BY <1>2, <3>1, <3>2, <3>3 DEF Reaped
  <2>6. ClaimStands'
    <3> SUFFICES ASSUME NEW t \in Slots, Past(t)', Bot(t)' \notin crossed'
                 PROVE  bots'[Bot(t)'].state = "gone" \/ FreshClaim(bots'[Bot(t)'])
      BY DEF ClaimStands, FreshClaim, IsClaim, Row
    <3>1. CASE t = s
      BY <2>1, <2>2, <2>4, <3>1 DEF Bot
    <3>2. CASE t # s
      <4>1. Past(t) /\ Bot(t)' = Bot(t) /\ Bot(t) \notin crossed
        BY <1>2, <2>1, <3>2 DEF Past, Bot
      <4>2. Bot(t) # Bot(s) /\ Bot(t) \in Bots
        BY <2>3, <4>1 DEF Typed, Past
      <4>3. Row(t).state = "gone" \/ FreshClaim(Row(t))
        BY <4>1 DEF ClaimInv, ClaimStands
      <4>4. bots'[Bot(t)] = Reaped(Bot(t))
        BY <1>2, <4>2
      <4>5. Reaped(Bot(t)) = bots[Bot(t)]
        <5>1. CASE FreshClaim(Row(t))
          BY <5>1 DEF Reaped, FreshClaim, Row
        <5>2. CASE Row(t).state = "gone"
          BY <4>2, <5>2 DEF Reaped, IsClaim, ClaimInv, RowsFit, There, Row
        <5> QED
          BY <4>3, <5>1, <5>2
      <4> QED
        BY <4>1, <4>3, <4>4, <4>5 DEF Row
    <3> QED
      BY <3>1, <3>2
  <2>7. OneStart'
    <3> SUFFICES ASSUME NEW t \in Slots, NEW u \in Slots, Past(t)', Past(u)', Bot(t)' = Bot(u)',
                        Bot(t)' \notin crossed'
                 PROVE  t = u
      BY DEF OneStart
    <3>1. \A v \in Slots : v # s => Bot(v)' = Bot(v) /\ (Past(v)' <=> Past(v))
      BY <2>1 DEF Bot, Past
    <3>2. Bot(s)' = Bot(s) /\ crossed' = crossed
      BY <1>2, <2>1, <2>2 DEF Bot
    <3>3. CASE t # s /\ u # s
      BY <3>1, <3>2, <3>3 DEF ClaimInv, OneStart
    <3>4. CASE t = s \/ u = s
      BY <2>3, <3>1, <3>2, <3>4
    <3> QED
      BY <3>3, <3>4
  <2>8. ReadsNoClaim'
    <3> SUFFICES ASSUME NEW t \in Slots, request'[t].kind = "get", IsClaim(request'[t].row)
                 PROVE  request'[t].row.stale
      BY DEF ReadsNoClaim, IsClaim
    <3>1. t # s
      BY <1>0, <2>1, <2>2
    <3> QED
      BY <2>1, <3>1 DEF ClaimInv, ReadsNoClaim
  <2> QED
    BY <2>5, <2>6, <2>7, <2>8 DEF ClaimInv
<1>3. CASE Ends(s) /\ UNCHANGED <<docker, spawns, crossed, died>>
           /\ bots' = [b \in Bots |-> Reaped(b)]
  <2>1. request'[s] = NoRequest /\ \A t \in Slots : t # s => request'[t] = request[t]
    BY <1>3, OneRequestMoves DEF Ends
  <2>2. ~Past(s)' /\ request'[s].kind # "get"
    BY <2>1 DEF Past, NoRequest
  <2>3. RowsFit'
    <3> SUFFICES ASSUME NEW b \in Bots
                 PROVE  /\ bots'[b].running <=> bots'[b].handle # None
                        /\ bots'[b].running => bots'[b].state = "there"
      BY DEF RowsFit, There
    <3>1. CASE bots'[b] = bots[b]
      BY <3>1 DEF ClaimInv, RowsFit, There
    <3>2. CASE bots'[b] = Off(bots[b])
      <4>1. bots[b] \in Rows(spawns) /\ spawns \in Nat
        BY DEF Typed
      <4> QED
        BY <3>2, <4>1, FittingRows
    <3> QED
      BY <1>3, <3>1, <3>2 DEF Reaped
  <2>4. ASSUME NEW t \in Slots, t # s, Past(t), Bot(t) \notin crossed'
        PROVE  Row(t)'.state = "gone" \/ FreshClaim(Row(t)')
    <3>1. /\ Row(t)' = Reaped(Bot(t)) /\ Bot(t) \in Bots
          /\ Row(t).state = "gone" \/ FreshClaim(Row(t))
      BY <1>3, <2>1, <2>4 DEF Row, Bot, Typed, Past, ClaimInv, ClaimStands
    <3>2. Reaped(Bot(t)) = bots[Bot(t)]
      <4>1. CASE FreshClaim(Row(t))
        BY <4>1 DEF Reaped, FreshClaim, Row
      <4>2. CASE Row(t).state = "gone"
        BY <3>1, <4>2 DEF Reaped, IsClaim, ClaimInv, RowsFit, There, Row
      <4> QED
        BY <3>1, <4>1, <4>2
    <3> QED
      BY <3>1, <3>2 DEF Row
  <2> QED
    BY <1>3, <2>1, <2>2, <2>3, <2>4, ClaimsKept
<1> QED
  BY <1>1, <1>2, <1>3 DEF Reserve

(* A start in flight moves on, records its container or gives its claim    *)
(* back; its bot has no other.                                             *)
LEMMA SpawnKeepsClaims ==
  ASSUME Typed, ClaimInv, NEW s \in Slots, SpawnFails(s) \/ Spawn(s)
  PROVE  ClaimInv'
<1>0. Bot(s) \in Bots /\ request[s].kind \in {"start", "create"} /\ request[s].pc = "spawn"
  BY KindsOf DEF SpawnFails, Spawn
<1>1. bots' = bots /\ crossed \subseteq crossed'
  BY DEF SpawnFails, Spawn
<1>2. PICK r : /\ Becomes(s, r) /\ r.kind = request[s].kind /\ r.bot = request[s].bot
               /\ r.pc \in {"record", "revert"}
  <2>1. request[s] \in Requests(spawns)
    BY DEF Typed
  <2> DEFINE r1 == [request[s] EXCEPT !.pc = "revert"]
             r2 == [request[s] EXCEPT !.pc = "record", !.made = spawns + 1]
  <2>2. Becomes(s, r1) \/ Becomes(s, r2)
    BY DEF SpawnFails, Spawn, Goes
  <2>3. r1.kind = request[s].kind /\ r1.bot = request[s].bot /\ r1.pc = "revert"
    BY <2>1 DEF Requests
  <2>4. r2.kind = request[s].kind /\ r2.bot = request[s].bot /\ r2.pc = "record"
    BY <2>1 DEF Requests
  <2> HIDE DEF r1, r2
  <2> QED
    BY <2>2, <2>3, <2>4
<1>3. request'[s] = r /\ \A t \in Slots : t # s => request'[t] = request[t]
  BY <1>2, OneRequestMoves
<1>4. Past(s) /\ Bot(s)' = Bot(s) /\ request'[s].kind # "get"
  BY <1>0, <1>2, <1>3 DEF Past, Bot
<1>5. RowsFit'
  BY <1>1 DEF ClaimInv, RowsFit, There
<1> QED
  BY <1>0, <1>1, <1>3, <1>4, <1>5, OwnRowOnly

LEMMA RecordKeepsClaims ==
  ASSUME LifecycleConstants, Typed, ClaimInv, MadeKnown, NEW s \in Slots, Record(s)
  PROVE  ClaimInv'
<1>0. /\ Bot(s) \in Bots /\ request[s].kind \in {"start", "create"} /\ request[s].pc = "record"
      /\ Past(s) /\ request[s] \in Requests(spawns)
  BY KindsOf DEF Record, Past, Typed
<1>1. CASE /\ There(Bot(s)) /\ Ends(s) /\ UNCHANGED <<docker, crossed>>
           /\ request[s].made # None
           /\ Put(Bot(s), [Row(s) EXCEPT !.running = TRUE, !.stale = FALSE,
                                        !.handle = request[s].made])
  <2>1. request'[s] = NoRequest /\ \A t \in Slots : t # s => request'[t] = request[t]
    BY <1>1, OneRequestMoves DEF Ends
  <2>2. ~Past(s)' /\ request'[s].kind # "get"
    BY <2>1 DEF Past, NoRequest
  <2> DEFINE row == [Row(s) EXCEPT !.running = TRUE, !.stale = FALSE, !.handle = request[s].made]
  <2>3. row.running = TRUE /\ row.handle = request[s].made /\ row.state = "there"
    <3>1. Row(s) \in Rows(spawns) /\ Row(s).state = "there"
      BY <1>0, <1>1 DEF Typed, Row, There
    <3> QED
      BY <3>1 DEF Rows
  <2> HIDE DEF row
  <2>4. bots'[Bot(s)] = row /\ \A c \in Bots : c # Bot(s) => bots'[c] = bots[c]
    BY <1>0, <1>1, PutRow DEF row
  <2>5. RowsFit'
    BY <1>0, <1>1, <2>3, <2>4, RowsStillFit DEF ClaimInv
  <2> QED
    BY <1>0, <1>1, <2>1, <2>2, <2>4, <2>5, OwnRowOnly
<1>2. CASE /\ UNCHANGED bots /\ Undone(s)
           /\ Becomes(s, [request[s] EXCEPT !.pc = "revert", !.made = None])
  <2> DEFINE r == [request[s] EXCEPT !.pc = "revert", !.made = None]
  <2>1. request'[s] = r /\ \A t \in Slots : t # s => request'[t] = request[t]
    BY <1>2, OneRequestMoves
  <2>2. r.kind = request[s].kind /\ r.bot = request[s].bot
    BY <1>0 DEF Requests
  <2> HIDE DEF r
  <2>3. Bot(s)' = Bot(s) /\ request'[s].kind # "get" /\ crossed \subseteq crossed'
    BY <1>0, <1>2, <2>1, <2>2 DEF Bot, Undone
  <2>4. RowsFit'
    BY <1>2 DEF ClaimInv, RowsFit, There
  <2> QED
    BY <1>0, <1>2, <2>1, <2>3, <2>4, OwnRowOnly
<1> QED
  BY <1>0, <1>1, <1>2 DEF Record, MadeKnown

(* A claim is given back, or a creation undone.                            *)
LEMMA RevertKeepsClaims ==
  ASSUME LifecycleConstants, Typed, ClaimInv, NEW s \in Slots, Revert(s)
  PROVE  ClaimInv'
<1>0. /\ Bot(s) \in Bots /\ Past(s) /\ spawns \in Nat
      /\ Row(s) \in Rows(spawns)
  BY KindsOf DEF Revert, Past, Typed, Row
<1>1. request'[s] = NoRequest /\ \A t \in Slots : t # s => request'[t] = request[t]
  BY OneRequestMoves DEF Revert, Ends
<1>2. ~Past(s)' /\ request'[s].kind # "get" /\ crossed' = crossed
  BY <1>1 DEF Past, NoRequest, Revert
<1>3. CASE bots' = bots
  BY <1>0, <1>1, <1>2, <1>3, OwnRowOnly DEF ClaimInv, RowsFit, There
<1>4. CASE Put(Bot(s), IF request[s].kind = "create" THEN Gone ELSE Off(Row(s)))
  <2> DEFINE row == IF request[s].kind = "create" THEN Gone ELSE Off(Row(s))
  <2>1. bots'[Bot(s)] = row /\ \A c \in Bots : c # Bot(s) => bots'[c] = bots[c]
    BY <1>0, <1>4, PutRow
  <2>2. row.running = FALSE /\ row.handle = None
    BY <1>0, FittingRows
  <2> HIDE DEF row
  <2>3. RowsFit'
    BY <1>0, <2>1, <2>2, RowsStillFit DEF ClaimInv
  <2> QED
    BY <1>0, <1>1, <1>2, <2>1, <2>3, OwnRowOnly
<1> QED
  BY <1>3, <1>4 DEF Revert

(* A stop, a deletion or a status read moves on without touching a row.    *)
LEMMA LooksKeepClaims ==
  ASSUME Typed, ClaimInv, NEW s \in Slots, StopContainer(s) \/ DockerFails(s) \/ Inspect(s)
  PROVE  ClaimInv'
<1>0. Bot(s) \in Bots /\ request[s].kind \in {"stop", "delete", "get"} /\ UNCHANGED <<bots, crossed>>
  BY KindsOf DEF StopContainer, DockerFails, Inspect
<1>1. Ends(s) \/ Goes(s, "write")
  BY DEF StopContainer, DockerFails, Inspect
<1>2. RowsFit'
  BY <1>0 DEF ClaimInv, RowsFit, There
<1>3. CASE Ends(s)
  <2>1. request'[s] = NoRequest /\ \A t \in Slots : t # s => request'[t] = request[t]
    BY <1>3, OneRequestMoves DEF Ends
  <2>2. ~Past(s)' /\ request'[s].kind # "get"
    BY <2>1 DEF Past, NoRequest
  <2> QED
    BY <1>0, <1>2, <2>1, <2>2, OwnRowOnly
<1>4. CASE Goes(s, "write")
  <2> DEFINE r == [request[s] EXCEPT !.pc = "write"]
  <2>1. request'[s] = r /\ \A t \in Slots : t # s => request'[t] = request[t]
    BY <1>4, OneRequestMoves DEF Goes
  <2>2. r.kind = request[s].kind /\ r.row = request[s].row
    BY MovedRequest
  <2> HIDE DEF r
  <2>3. ~Past(s)'
    BY <1>0, <2>1, <2>2 DEF Past
  <2>4. request'[s].kind = "get" /\ IsClaim(request'[s].row) => request'[s].row.stale
    BY <2>1, <2>2 DEF ClaimInv, ReadsNoClaim
  <2> QED
    BY <1>0, <1>2, <2>1, <2>3, <2>4, OwnRowOnly
<1> QED
  BY <1>1, <1>3, <1>4

(* A row is written where nothing crossed it: then it is not the claim of a *)
(* start in flight, unless it is deleted.                                  *)
LEMMA WriteKeepsClaims ==
  ASSUME LifecycleConstants, Typed, ClaimInv, NEW s \in Slots, Write(s)
  PROVE  ClaimInv'
<1>0. /\ Bot(s) \in Bots /\ request[s].kind \in {"stop", "delete", "get"}
      /\ spawns \in Nat /\ Row(s) \in Rows(spawns)
  BY KindsOf DEF Write, Typed, Row
<1>1. request'[s] = NoRequest /\ \A t \in Slots : t # s => request'[t] = request[t]
  BY OneRequestMoves DEF Write, Ends
<1>2. ~Past(s)' /\ request'[s].kind # "get"
  BY <1>1 DEF Past, NoRequest
<1> DEFINE row == IF request[s].kind = "delete" \/ ~There(Bot(s)) THEN Gone ELSE Off(Row(s))
<1>3. bots'[Bot(s)] = row /\ \A c \in Bots : c # Bot(s) => bots'[c] = bots[c]
  BY <1>0, PutRow DEF Write
<1>4. row.running = FALSE /\ row.handle = None
  BY <1>0, FittingRows
<1>5. request[s].kind = "delete" \/ ~There(Bot(s)) => row.state = "gone"
  BY <1>0, FittingRows
<1> HIDE DEF row
<1>6. RowsFit'
  BY <1>0, <1>3, <1>4, RowsStillFit DEF ClaimInv
<1>7. crossed \subseteq crossed' /\ (Crosses(s) => Bot(s) \in crossed')
  BY DEF Write
<1>8. ASSUME Bot(s) \notin crossed', row.state # "gone", NEW t \in Slots, Past(t), Bot(t) = Bot(s)
      PROVE  FALSE
  <2>1. /\ request[s].kind \in {"stop", "get"} /\ There(Bot(s)) /\ Row(s) = request[s].row
        /\ request[s].kind = "stop" => ~(IsClaim(Row(s)) /\ Starting(Bot(s)))
    BY <1>0, <1>5, <1>7, <1>8 DEF Crosses
  <2>2. FreshClaim(Row(s))
    BY <1>7, <1>8, <2>1 DEF ClaimInv, ClaimStands, Row, There
  <2>3. Starting(Bot(s))
    BY <1>8 DEF Starting, Past, Bot
  <2>4. request[s].kind = "get"
    BY <2>1, <2>2, <2>3 DEF FreshClaim
  <2> QED
    BY <2>1, <2>2, <2>4 DEF ClaimInv, ReadsNoClaim, FreshClaim
<1> QED
  BY <1>0, <1>1, <1>2, <1>3, <1>6, <1>7, <1>8, OwnRowOnly

(* What was made is known when it is recorded.                             *)
LEMMA NextMadeKnown ==
  ASSUME LifecycleConstants, Typed, MadeKnown, [Next]_lifecycleVars PROVE MadeKnown'
<1>1. ASSUME NEW s \in Slots, NEW r, Becomes(s, r), r.pc = "record" => r.made # None
      PROVE  MadeKnown'
  BY <1>1, OneRequestMoves DEF MadeKnown
<1>2. ASSUME NEW s \in Slots, Ends(s) PROVE MadeKnown'
  BY <1>1, <1>2 DEF Ends, NoRequest
<1>3. ASSUME NEW s \in Slots, NEW pc \in {"spawn", "revert", "write"}, Goes(s, pc) PROVE MadeKnown'
  BY <1>1, <1>3, MovedRequest DEF Goes
<1>4. ASSUME NEW s \in Slots, NEW b \in Bots, Arrives(s, b) PROVE MadeKnown'
  <2>1. PICK kind \in {"start", "create", "stop", "delete", "get"} : Reads(s, kind, b)
    BY <1>4 DEF Arrives
  <2> DEFINE r == IF kind \in {"start", "create"}
                  THEN [NoRequest EXCEPT !.kind = kind, !.bot = b, !.pc = "claim"]
                  ELSE [NoRequest EXCEPT !.kind = kind, !.bot = b, !.pc = "docker",
                                         !.row = bots[b]]
  <2>2. Becomes(s, r)
    BY <2>1 DEF Reads
  <2>3. r.pc # "record"
    BY DEF NoRequest
  <2> HIDE DEF r
  <2> QED
    BY <1>1, <2>2, <2>3
<1>5. ASSUME NEW s \in Slots, Spawn(s) PROVE MadeKnown'
  <2> DEFINE r == [request[s] EXCEPT !.pc = "record", !.made = spawns + 1]
  <2>1. Becomes(s, r) \/ Goes(s, "revert")
    BY <1>5 DEF Spawn
  <2>2. r.made # None
    <3>1. request[s] \in Requests(spawns) /\ spawns + 1 \in Nat
      BY DEF Typed
    <3>2. r.made = spawns + 1
      BY <3>1 DEF Requests
    <3> QED
      BY <3>1, <3>2 DEF LifecycleConstants
  <2> HIDE DEF r
  <2> QED
    BY <1>1, <1>3, <2>1, <2>2
<1>6. ASSUME NEW s \in Slots, Record(s) PROVE MadeKnown'
  <2> DEFINE r == [request[s] EXCEPT !.pc = "revert", !.made = None]
  <2>1. Ends(s) \/ Becomes(s, r)
    BY <1>6 DEF Record
  <2>2. r.pc # "record"
    <3>1. request[s] \in Requests(spawns)
      BY DEF Typed
    <3> QED
      BY <3>1 DEF Requests
  <2> HIDE DEF r
  <2> QED
    BY <1>1, <1>2, <2>1, <2>2
<1>7. ASSUME NEW s \in Slots, \/ Reserve(s) \/ SpawnFails(s) \/ Revert(s) \/ StopContainer(s)
                              \/ DockerFails(s) \/ Inspect(s) \/ Write(s)
      PROVE  MadeKnown'
  <2>1. Ends(s) \/ Goes(s, "spawn") \/ Goes(s, "revert") \/ Goes(s, "write")
    BY <1>7 DEF Reserve, SpawnFails, Revert, StopContainer, DockerFails, Inspect, Write
  <2> QED
    BY <1>2, <1>3, <2>1
<1>8. CASE Restart
  BY <1>8 DEF Restart, MadeKnown, NoRequest
<1>9. ASSUME request' = request PROVE MadeKnown'
  BY <1>9 DEF MadeKnown
<1> QED
  BY <1>4, <1>5, <1>6, <1>7, <1>8, <1>9
     DEF Next, RemovedByHand, ClaimAges, lifecycleVars

LEMMA NextKeepsClaims ==
  ASSUME LifecycleConstants, Typed, MadeKnown, ClaimInv, [Next]_lifecycleVars PROVE ClaimInv'
<1>1. ASSUME NEW b \in Bots, RemovedByHand(b) PROVE ClaimInv'
  BY <1>1 DEF RemovedByHand, ClaimInv, RowsFit, There, ClaimStands, OneStart, ReadsNoClaim, Past,
              Bot, Row, FreshClaim, IsClaim
<1>2. ASSUME NEW b \in Bots, ClaimAges(b) PROVE ClaimInv'
  <2> DEFINE row == [bots[b] EXCEPT !.stale = TRUE]
  <2>1. bots'[b] = row /\ \A c \in Bots : c # b => bots'[c] = bots[c]
    BY <1>2, PutRow DEF ClaimAges
  <2>2. /\ row.running = bots[b].running /\ row.handle = bots[b].handle
        /\ row.state = bots[b].state
    <3>1. bots[b] \in Rows(spawns)
      BY DEF Typed
    <3> QED
      BY <3>1 DEF Rows
  <2> HIDE DEF row
  <2>3. RowsFit'
    BY <2>1, <2>2, RowsStillFit DEF ClaimInv, RowsFit, There
  <2>4. \A s \in Slots : Past(s) => Bot(s) # b /\ Bot(s) \in Bots
    BY <1>2 DEF ClaimAges, Starting, Past, Bot, Typed
  <2>5. UNCHANGED <<request, crossed>>
    BY <1>2 DEF ClaimAges
  <2>6. ClaimStands'
    <3> SUFFICES ASSUME NEW s \in Slots, Past(s), Bot(s) \notin crossed
                 PROVE  bots'[Bot(s)].state = "gone" \/ FreshClaim(bots'[Bot(s)])
      BY <2>5 DEF ClaimStands, FreshClaim, IsClaim, Row, Past, Bot
    <3> QED
      BY <2>1, <2>4 DEF ClaimInv, ClaimStands, Row
  <2> QED
    BY <2>3, <2>5, <2>6 DEF ClaimInv, OneStart, ReadsNoClaim, Past, Bot, IsClaim
<1>3. CASE Restart
  <2>1. \A s \in Slots : request'[s] = NoRequest
    BY <1>3 DEF Restart
  <2>2. \A s \in Slots : ~Past(s)' /\ request'[s].kind # "get"
    BY <2>1 DEF Past, NoRequest
  <2>3. RowsFit'
    BY <1>3 DEF Restart, ClaimInv, RowsFit, There
  <2> QED
    BY <2>2, <2>3 DEF ClaimInv, ClaimStands, OneStart, ReadsNoClaim
<1>4. CASE UNCHANGED lifecycleVars
  BY <1>4 DEF lifecycleVars, ClaimInv, RowsFit, There, ClaimStands, OneStart, ReadsNoClaim, Past,
              Bot, Row, FreshClaim, IsClaim
<1> QED
  BY <1>1, <1>2, <1>3, <1>4, ArrivesKeepsClaims, ReserveKeepsClaims, SpawnKeepsClaims,
     RecordKeepsClaims, RevertKeepsClaims, LooksKeepClaims, WriteKeepsClaims DEF Next

(* At the start nothing is claimed and nothing is asked.                   *)
LEMMA ClaimsHold ==
  ASSUME LifecycleConstants PROVE Spec => [](Typed /\ MadeKnown /\ ClaimInv)
<1>1. Init => MadeKnown /\ ClaimInv
  <2> SUFFICES ASSUME Init PROVE MadeKnown /\ ClaimInv
    OBVIOUS
  <2>1. \A s \in Slots : request[s].pc = "idle" /\ request[s].kind = "none"
    BY DEF Init, NoRequest
  <2>2. \A b \in Bots : bots[b].running = FALSE /\ bots[b].handle = None
    <3> DEFINE there == [Absent EXCEPT !.state = "there"]
    <3>1. \A b \in Bots : bots[b] \in {Absent, there}
      BY DEF Init
    <3>2. /\ Absent.running = FALSE /\ Absent.handle = None
          /\ there.running = FALSE /\ there.handle = None
      BY DEF Absent
    <3> HIDE DEF there
    <3> QED
      BY <3>1, <3>2
  <2> QED
    BY <2>1, <2>2 DEF MadeKnown, ClaimInv, RowsFit, ClaimStands, OneStart, ReadsNoClaim, Past
<1>2. Typed /\ MadeKnown /\ ClaimInv /\ [Next]_lifecycleVars => MadeKnown' /\ ClaimInv'
  BY NextMadeKnown, NextKeepsClaims
<1> QED
  BY <1>1, <1>2, TypesKept, PTL DEF Spec

-----------------------------------------------------------------------------
(* But for a claim that is taken, no step makes a row run that did not: what *)
(* is recorded is the container of a start whose claim stands.             *)
LEMMA OnlyClaimsRun ==
  ASSUME LifecycleConstants, Typed, MadeKnown, ClaimInv, [Next]_lifecycleVars,
         ~(\E s \in Slots : Reserve(s)), crossed' = {},
         NEW b \in Bots, bots'[b].running
  PROVE  bots[b].running
<1>0. spawns \in Nat /\ \A c \in Bots : bots[c] \in Rows(spawns)
  BY DEF Typed
<1>1. ASSUME NEW c \in Bots, NEW row, Put(c, row), row.running => bots[c].running
      PROVE  bots[b].running
  BY <1>1, PutRow
<1>2. ASSUME UNCHANGED bots PROVE bots[b].running
  BY <1>2
<1>3. ASSUME NEW s \in Slots, Record(s) PROVE bots[b].running
  <2>1. Bot(s) \in Bots /\ Past(s)
    BY <1>3, KindsOf DEF Record, Past
  <2>2. CASE There(Bot(s)) /\ UNCHANGED crossed
             /\ Put(Bot(s), [Row(s) EXCEPT !.running = TRUE, !.stale = FALSE,
                                          !.handle = request[s].made])
    <3>1. FreshClaim(Row(s))
      BY <2>1, <2>2 DEF ClaimInv, ClaimStands, There, Row
    <3> QED
      BY <1>1, <2>1, <2>2, <3>1 DEF FreshClaim, IsClaim, Row
  <2> QED
    BY <1>2, <1>3, <2>2 DEF Record
<1>4. ASSUME NEW s \in Slots, Revert(s) PROVE bots[b].running
  <2>1. Bot(s) \in Bots
    BY <1>4, KindsOf DEF Revert
  <2> DEFINE row == IF request[s].kind = "create" THEN Gone ELSE Off(Row(s))
  <2>2. row.running = FALSE
    BY <1>0, <2>1, FittingRows DEF Row
  <2>3. Put(Bot(s), row) \/ UNCHANGED bots
    BY <1>4 DEF Revert
  <2> HIDE DEF row
  <2> QED
    BY <1>1, <1>2, <2>1, <2>2, <2>3
<1>5. ASSUME NEW s \in Slots, Write(s) PROVE bots[b].running
  <2>1. Bot(s) \in Bots
    BY <1>5, KindsOf DEF Write
  <2> DEFINE row == IF request[s].kind = "delete" \/ ~There(Bot(s)) THEN Gone ELSE Off(Row(s))
  <2>2. row.running = FALSE
    BY <1>0, <2>1, FittingRows DEF Row
  <2>3. Put(Bot(s), row)
    BY <1>5 DEF Write
  <2> HIDE DEF row
  <2> QED
    BY <1>1, <2>1, <2>2, <2>3
<1>6. ASSUME NEW c \in Bots, ClaimAges(c) PROVE bots[b].running
  BY <1>1, <1>6 DEF ClaimAges, IsClaim
<1>7. ASSUME NEW s \in Slots,
             \/ \E c \in Bots : Arrives(s, c)
             \/ SpawnFails(s) \/ Spawn(s) \/ StopContainer(s) \/ DockerFails(s) \/ Inspect(s)
      PROVE  bots[b].running
  BY <1>2, <1>7 DEF Arrives, Reads, SpawnFails, Spawn, StopContainer, DockerFails, Inspect
<1> QED
  BY <1>2, <1>3, <1>4, <1>5, <1>6, <1>7 DEF Next, RemovedByHand, Restart, lifecycleVars

(* `crossed` only grows.                                                   *)
LEMMA CrossedGrows ==
  ASSUME Typed, [Next]_lifecycleVars PROVE crossed \subseteq crossed' /\ died \subseteq died'
<1>1. ASSUME NEW s \in Slots, \/ \E b \in Bots : Arrives(s, b)
                              \/ Reserve(s) \/ SpawnFails(s) \/ Spawn(s) \/ Record(s)
                              \/ Revert(s) \/ StopContainer(s) \/ DockerFails(s)
                              \/ Inspect(s) \/ Write(s)
      PROVE  crossed \subseteq crossed' /\ died \subseteq died'
  BY <1>1 DEF Arrives, Reads, Reserve, SpawnFails, Spawn, Record, Undone, Revert, StopContainer,
              DockerFails, Inspect, Write
<1> QED
  BY <1>1 DEF Next, RemovedByHand, ClaimAges, Restart, lifecycleVars

(* The rows that run after a claim are those the lock counted and the one  *)
(* that is claimed: one more than were counted below the cap.              *)
LEMMA CapKept ==
  ASSUME LifecycleConstants, Typed, MadeKnown, ClaimInv, CapHolds, [Next]_lifecycleVars
  PROVE  CapHolds'
<1> SUFFICES ASSUME crossed' = {} PROVE Cardinality({b \in Bots : bots'[b].running}) <= Cap
  BY DEF CapHolds, Running
<1> DEFINE runs == {b \in Bots : bots'[b].running}
           ran == {b \in Bots : bots[b].running}
<1>1. IsFiniteSet(Bots) /\ Cap \in Nat
  BY DEF LifecycleConstants
<1>2. Cardinality(ran) <= Cap
  BY CrossedGrows DEF CapHolds, Running
<1>3. IsFiniteSet(runs) /\ IsFiniteSet(ran)
  BY <1>1, FS_Subset
<1>4. CASE runs \subseteq ran
  <2>1. Cardinality(runs) <= Cardinality(ran)
    BY <1>3, <1>4, FS_Subset
  <2>2. Cardinality(runs) \in Nat /\ Cardinality(ran) \in Nat
    BY <1>3, FS_CardinalityType
  <2> QED
    BY <1>1, <1>2, <2>1, <2>2
<1>5. CASE \E s \in Slots : Reserve(s)
  <2>1. PICK s \in Slots : Reserve(s)
    BY <1>5
  <2>2. CASE UNCHANGED bots
    BY <1>4, <2>2
  <2>3. CASE /\ UnderCap(s)
             /\ bots' = [b \in Bots |->
                  IF b = Bot(s) THEN [state |-> "there", running |-> TRUE,
                                      handle |-> Claim, stale |-> FALSE]
                  ELSE Reaped(b)]
    <3> DEFINE counted == {b \in Bots : Reaped(b).running}
    <3>1. IsFiniteSet(counted) /\ Cardinality(counted) < Cap
      BY <1>1, <2>3, FS_Subset DEF UnderCap
    <3>2. runs \subseteq counted \cup {Bot(s)}
      BY <2>3
    <3>3. /\ IsFiniteSet(counted \cup {Bot(s)})
          /\ Cardinality(counted \cup {Bot(s)}) \in {Cardinality(counted), Cardinality(counted) + 1}
      BY <3>1, FS_AddElement, Zenon
    <3>4. Cardinality(runs) <= Cardinality(counted \cup {Bot(s)})
      BY <3>2, <3>3, FS_Subset
    <3>5. Cardinality(runs) \in Nat /\ Cardinality(counted) \in Nat
      BY <1>3, <3>1, FS_CardinalityType
    <3> HIDE DEF counted
    <3> QED
      BY <1>1, <3>1, <3>3, <3>4, <3>5, SMTT(30)
  <2>4. CASE bots' = [b \in Bots |-> Reaped(b)]
    <3>1. \A b \in Bots : Reaped(b).running => bots[b].running
      BY DEF Reaped, Off, Typed, Rows
    <3> QED
      BY <1>4, <2>4, <3>1
  <2> QED
    BY <2>1, <2>2, <2>3, <2>4 DEF Reserve
<1>6. CASE ~(\E s \in Slots : Reserve(s))
  BY <1>4, <1>6, OnlyClaimsRun
<1> QED
  BY <1>5, <1>6

(* The cap holds across starts of different bots, failed starts, status     *)
(* reads, deletions and restarts (reserveBotStart), for any number of bots  *)
(* and of requests at a time.                                              *)
THEOREM CapHeld == ASSUME LifecycleConstants PROVE Spec => []CapHolds
<1>1. Init => CapHolds
  <2> SUFFICES ASSUME Init PROVE Cardinality(Running) <= Cap
    BY DEF CapHolds
  <2> DEFINE there == [Absent EXCEPT !.state = "there"]
  <2>1. \A b \in Bots : bots[b] \in {Absent, there}
    BY DEF Init
  <2>2. Absent.running = FALSE /\ there.running = FALSE
    BY DEF Absent
  <2> HIDE DEF there
  <2>3. Running = {}
    BY <2>1, <2>2 DEF Running
  <2> QED
    BY <2>3, FS_EmptySet DEF LifecycleConstants
<1>2. Typed /\ MadeKnown /\ ClaimInv /\ CapHolds /\ [Next]_lifecycleVars => CapHolds'
  BY CapKept
<1> QED
  BY <1>1, <1>2, ClaimsHold, PTL DEF Spec

-----------------------------------------------------------------------------
LEMMA Stopped ==
  ASSUME Typed, NEW b \in Bots, NEW handle, NEW c \in Bots
  PROVE  /\ Removed(b, handle)[c] \in {None, docker[c]}
         /\ docker[b] # None /\ docker[b].id = handle => Removed(b, handle)[b] = None
         /\ \/ Halted(b, handle)[c] = docker[c]
            \/ /\ docker[c] # None /\ Halted(b, handle)[c].id = docker[c].id
               /\ Halted(b, handle)[c].up = FALSE
<1> DEFINE down == [docker[b] EXCEPT !.up = FALSE]
<1>1. docker[b] # None => down.id = docker[b].id /\ down.up = FALSE
  <2> SUFFICES ASSUME docker[b] # None PROVE down.id = docker[b].id /\ down.up = FALSE
    OBVIOUS
  <2>1. docker[b] \in Containers(spawns)
    BY DEF Typed
  <2> QED
    BY <2>1 DEF Containers
<1>2. DOMAIN docker = Bots
  BY DEF Typed
<1>3. Removed(b, handle)[c] = IF c = b /\ docker[b] # None /\ docker[b].id = handle THEN None
                              ELSE docker[c]
  BY <1>2 DEF Removed
<1>4. Halted(b, handle)[c] = IF c = b /\ docker[b] # None /\ docker[b].id = handle THEN down
                             ELSE docker[c]
  BY <1>2 DEF Halted
<1>5. docker[b] # None /\ docker[b].id = handle => Removed(b, handle)[b] = None
  BY <1>2 DEF Removed
<1> HIDE DEF down
<1> QED
  BY <1>1, <1>3, <1>4, <1>5

(* A container goes, is stopped, or is created under an id of its own.     *)
LEMMA ContainersMove ==
  ASSUME Typed, [Next]_lifecycleVars, NEW b \in Bots
  PROVE  \/ docker'[b] \in {None, docker[b]}
         \/ docker[b] # None /\ docker'[b].id = docker[b].id /\ docker'[b].up = FALSE
         \/ docker'[b].id = spawns + 1 /\ \E s \in Slots : Spawn(s) /\ Bot(s) = b
<1> DEFINE Moved == \/ docker'[b] \in {None, docker[b]}
                    \/ docker[b] # None /\ docker'[b].id = docker[b].id /\ docker'[b].up = FALSE
<1>1. ASSUME NEW c \in Bots, NEW handle,
             docker' = docker \/ docker' = Removed(c, handle) \/ docker' = Halted(c, handle)
      PROVE  Moved
  <2>1. CASE docker' = docker
    BY <2>1
  <2>2. CASE docker' = Removed(c, handle)
    BY <2>2, Stopped
  <2>3. CASE docker' = Halted(c, handle)
    BY <2>3, Stopped
  <2> QED
    BY <1>1, <2>1, <2>2, <2>3
<1>2. ASSUME NEW s \in Slots, Spawn(s)
      PROVE  Moved \/ (docker'[b].id = spawns + 1 /\ Bot(s) = b)
  <2>1. PICK on \in BOOLEAN : docker' = [docker EXCEPT ![Bot(s)] = [id |-> spawns + 1, up |-> on]]
    BY <1>2 DEF Spawn
  <2> DEFINE new == [id |-> spawns + 1, up |-> on]
  <2>2. new.id = spawns + 1
    OBVIOUS
  <2> HIDE DEF new
  <2>3. CASE Bot(s) = b
    <3>1. docker'[b] = new
      BY <2>1, <2>3 DEF Typed, new
    <3> QED
      BY <2>2, <2>3, <3>1
  <2>4. CASE Bot(s) # b
    BY <2>1, <2>4 DEF Typed
  <2> QED
    BY <2>3, <2>4
<1>3. ASSUME NEW s \in Slots, Record(s) PROVE Moved
  <2>1. Bot(s) \in Bots
    BY <1>3, KindsOf DEF Record
  <2> QED
    BY <1>1, <1>3, <2>1 DEF Record, Undone
<1>4. ASSUME NEW s \in Slots, StopContainer(s) PROVE Moved
  <2>1. Bot(s) \in Bots
    BY <1>4, KindsOf DEF StopContainer
  <2> QED
    BY <1>1, <1>4, <2>1 DEF StopContainer
<1>5. ASSUME NEW s \in Slots, DockerFails(s) PROVE Moved
  <2>1. Bot(s) \in Bots
    BY <1>5, KindsOf DEF DockerFails
  <2> QED
    BY <1>1, <1>5, <2>1 DEF DockerFails
<1>6. ASSUME NEW c \in Bots, RemovedByHand(c) PROVE Moved
  BY <1>6 DEF RemovedByHand, Typed
<1>7. ASSUME docker' = docker PROVE Moved
  BY <1>7
<1>8. ASSUME NEW s \in Slots, \/ \E c \in Bots : Arrives(s, c)
                              \/ Reserve(s) \/ SpawnFails(s) \/ Revert(s) \/ Inspect(s) \/ Write(s)
      PROVE  docker' = docker
  BY <1>8 DEF Arrives, Reads, Reserve, SpawnFails, Revert, Inspect, Write
<1>9. ASSUME Restart \/ UNCHANGED lifecycleVars \/ \E c \in Bots : ClaimAges(c)
      PROVE  docker' = docker
  BY <1>9 DEF Restart, ClaimAges, lifecycleVars
<1> HIDE DEF Moved
<1>10. Moved \/ (docker'[b].id = spawns + 1 /\ \E s \in Slots : Spawn(s) /\ Bot(s) = b)
  BY <1>2, <1>3, <1>4, <1>5, <1>6, <1>7, <1>8, <1>9 DEF Next
<1> QED
  BY <1>10 DEF Moved

(* Who is about to write a row was so before, or has just seen the container *)
(* go.                                                                     *)
LEMMA WritersCome ==
  ASSUME Typed, [Next]_lifecycleVars, NEW t \in Slots, request'[t].pc = "write"
  PROVE  request'[t] = request[t] \/ StopContainer(t) \/ Inspect(t)
<1>1. ASSUME NEW s \in Slots, NEW r, Becomes(s, r), r.pc # "write" PROVE request'[t] = request[t]
  BY <1>1, OneRequestMoves
<1>2. ASSUME NEW s \in Slots, Ends(s) PROVE request'[t] = request[t]
  BY <1>1, <1>2 DEF Ends, NoRequest
<1>3. ASSUME NEW s \in Slots, NEW pc \in {"spawn", "revert"}, Goes(s, pc)
      PROVE  request'[t] = request[t]
  BY <1>1, <1>3, MovedRequest DEF Goes
<1>4. ASSUME NEW s \in Slots, NEW b \in Bots, Arrives(s, b) PROVE request'[t] = request[t]
  <2>1. PICK kind \in {"start", "create", "stop", "delete", "get"} : Reads(s, kind, b)
    BY <1>4 DEF Arrives
  <2> DEFINE r == IF kind \in {"start", "create"}
                  THEN [NoRequest EXCEPT !.kind = kind, !.bot = b, !.pc = "claim"]
                  ELSE [NoRequest EXCEPT !.kind = kind, !.bot = b, !.pc = "docker",
                                         !.row = bots[b]]
  <2>2. Becomes(s, r)
    BY <2>1 DEF Reads
  <2>3. r.pc # "write"
    BY DEF NoRequest
  <2> HIDE DEF r
  <2> QED
    BY <1>1, <2>2, <2>3
<1>5. ASSUME NEW s \in Slots, Spawn(s) \/ Record(s) PROVE request'[t] = request[t]
  <2>0. request[s] \in Requests(spawns)
    BY DEF Typed
  <2> DEFINE r1 == [request[s] EXCEPT !.pc = "record", !.made = spawns + 1]
             r2 == [request[s] EXCEPT !.pc = "revert", !.made = None]
  <2>1. Becomes(s, r1) \/ Becomes(s, r2) \/ Goes(s, "revert") \/ Ends(s)
    BY <1>5 DEF Spawn, Record
  <2>2. r1.pc # "write" /\ r2.pc # "write"
    BY <2>0 DEF Requests
  <2> HIDE DEF r1, r2
  <2> QED
    BY <1>1, <1>2, <1>3, <2>1, <2>2
<1>6. ASSUME NEW s \in Slots, Reserve(s) \/ SpawnFails(s) \/ Revert(s) \/ DockerFails(s) \/ Write(s)
      PROVE  request'[t] = request[t]
  <2>1. Ends(s) \/ Goes(s, "spawn") \/ Goes(s, "revert")
    BY <1>6 DEF Reserve, SpawnFails, Revert, DockerFails, Write
  <2> QED
    BY <1>2, <1>3, <2>1
<1>7. ASSUME NEW s \in Slots, StopContainer(s) \/ Inspect(s)
      PROVE  request'[t] = request[t] \/ s = t
  <2>1. Ends(s) \/ Goes(s, "write")
    BY <1>7 DEF StopContainer, Inspect
  <2> QED
    BY <2>1, OneRequestMoves DEF Ends, Goes
<1>8. CASE Restart
  BY <1>8 DEF Restart, NoRequest
<1>9. ASSUME (\E b \in Bots : RemovedByHand(b) \/ ClaimAges(b)) \/ UNCHANGED lifecycleVars
      PROVE  request' = request
  BY <1>9 DEF RemovedByHand, ClaimAges, lifecycleVars
<1> QED
  BY <1>4, <1>5, <1>6, <1>7, <1>8, <1>9 DEF Next

LEMMA NextWriterSaw ==
  ASSUME LifecycleConstants, Typed, WriterSawItGo, [Next]_lifecycleVars PROVE WriterSawItGo'
<1> SUFFICES ASSUME NEW t \in Slots, request'[t].kind \in {"stop", "delete", "get"},
                    request'[t].pc = "write"
             PROVE  \/ docker'[request'[t].bot] = None
                    \/ docker'[request'[t].bot].id # request'[t].row.handle
  BY DEF WriterSawItGo, At, Bot
<1>0. spawns \in Nat /\ spawns + 1 \notin {None} \cup 0..spawns /\ request[t] \in Requests(spawns)
  BY DEF Typed, LifecycleConstants
<1>1. CASE request'[t] = request[t]
  <2>1. Bot(t) \in Bots /\ request[t].row.handle \in {None} \cup 0..spawns
    BY <1>0, <1>1 DEF Typed, Requests, Rows
  <2>2. docker[Bot(t)] = None \/ docker[Bot(t)].id # request[t].row.handle
    BY <1>1 DEF WriterSawItGo, At
  <2>3. \/ docker'[Bot(t)] = None \/ docker'[Bot(t)].id = spawns + 1
        \/ docker[Bot(t)] # None /\ docker'[Bot(t)].id = docker[Bot(t)].id
    BY <2>1, ContainersMove
  <2>4. request'[t].bot = Bot(t) /\ request'[t].row.handle = request[t].row.handle
    BY <1>1 DEF Bot
  <2> QED
    BY <1>0, <2>1, <2>2, <2>3, <2>4
<1>2. CASE StopContainer(t)
  <2>1. Bot(t) \in Bots
    BY <1>2, KindsOf DEF StopContainer
  <2> DEFINE r == [request[t] EXCEPT !.pc = "write"]
  <2>2. request'[t] = r /\ docker' = Removed(Bot(t), request[t].row.handle)
    BY <1>2, OneRequestMoves DEF StopContainer, Goes
  <2>3. r.bot = Bot(t) /\ r.row = request[t].row
    BY MovedRequest DEF Bot
  <2> HIDE DEF r
  <2>4. docker'[Bot(t)] \in {None, docker[Bot(t)]}
    BY <2>1, <2>2, Stopped
  <2>5. docker[Bot(t)] # None /\ docker[Bot(t)].id = request[t].row.handle
        => docker'[Bot(t)] = None
    BY <2>1, <2>2, Stopped
  <2>6. request'[t].bot = Bot(t) /\ request'[t].row.handle = request[t].row.handle
    BY <2>2, <2>3
  <2> QED
    BY <2>4, <2>5, <2>6
<1>3. CASE Inspect(t)
  <2>1. Bot(t) \in Bots
    BY <1>3, KindsOf DEF Inspect
  <2>2. CASE Ends(t)
    BY <2>2, OneRequestMoves DEF Ends, NoRequest
  <2>3. CASE Goes(t, "write") /\ ~(docker[Bot(t)] # None /\ docker[Bot(t)].id = request[t].row.handle)
    <3> DEFINE r == [request[t] EXCEPT !.pc = "write"]
    <3>1. request'[t] = r /\ docker' = docker
      BY <1>3, <2>3, OneRequestMoves DEF Inspect, Goes
    <3>2. r.bot = Bot(t) /\ r.row = request[t].row
      BY MovedRequest DEF Bot
    <3> HIDE DEF r
    <3> QED
      BY <2>3, <3>1, <3>2
  <2> QED
    BY <1>3, <2>2, <2>3 DEF Inspect
<1> QED
  BY <1>1, <1>2, <1>3, WritersCome

-----------------------------------------------------------------------------
(* A start that is about to record goes on to it, or dies with the dashboard. *)
LEMMA RecordingStays ==
  ASSUME Typed, [Next]_lifecycleVars, NEW t \in Slots, Past(t), request[t].pc = "record"
  PROVE  request'[t] = request[t] \/ Record(t) \/ Restart
<1>1. ASSUME NEW s \in Slots, NEW r, Becomes(s, r), s # t PROVE request'[t] = request[t]
  BY <1>1, OneRequestMoves
<1>2. ASSUME NEW s \in Slots, NEW b \in Bots, Arrives(s, b) PROVE request'[t] = request[t]
  <2>1. PICK r : Becomes(s, r) /\ request[s] = NoRequest
    BY <1>2 DEF Arrives, Reads
  <2> QED
    BY <1>1, <2>1 DEF Past, NoRequest
<1>3. ASSUME NEW s \in Slots, \/ Reserve(s) \/ SpawnFails(s) \/ Spawn(s)
                              \/ Revert(s) \/ StopContainer(s) \/ DockerFails(s)
                              \/ Inspect(s) \/ Write(s)
      PROVE  request'[t] = request[t]
  <2>1. request[s].pc # "record"
    BY <1>3 DEF Reserve, SpawnFails, Spawn, Revert, StopContainer, DockerFails, Inspect, Write, At
  <2>2. \E r : Becomes(s, r)
    BY <1>3 DEF Reserve, SpawnFails, Spawn, Revert, StopContainer, DockerFails, Inspect, Write,
                Ends, Goes
  <2> QED
    BY <1>1, <2>1, <2>2
<1>4. ASSUME NEW s \in Slots, Record(s) PROVE request'[t] = request[t] \/ Record(t)
  <2>1. \E r : Becomes(s, r)
    BY <1>4 DEF Record, Ends
  <2> QED
    BY <1>1, <1>4, <2>1
<1>5. ASSUME (\E b \in Bots : RemovedByHand(b) \/ ClaimAges(b)) \/ UNCHANGED lifecycleVars
      PROVE  request'[t] = request[t]
  BY <1>5 DEF RemovedByHand, ClaimAges, lifecycleVars
<1> QED
  BY <1>2, <1>3, <1>4, <1>5 DEF Next

(* A row that names its container goes on naming it while it is there: a    *)
(* claim is taken or given back, or a container recorded, only where no    *)
(* handle was, and the handle is cleared by who saw the container go.      *)
LEMMA NamedStays ==
  ASSUME LifecycleConstants, Typed, ClaimInv, WriterSawItGo, [Next]_lifecycleVars,
         NEW b \in Bots, b \notin crossed', docker[b] # None, bots[b].handle = docker[b].id
  PROVE  bots'[b].handle = bots[b].handle
<1>0. /\ spawns \in Nat /\ bots[b] \in Rows(spawns) /\ docker[b] \in Containers(spawns)
      /\ bots[b].handle # None /\ bots[b].handle # Claim /\ bots[b].running /\ There(b)
  <2>1. spawns \in Nat /\ bots[b] \in Rows(spawns) /\ docker[b] \in Containers(spawns)
    BY DEF Typed
  <2>2. docker[b].id \in 1..spawns
    BY <2>1 DEF Containers
  <2>3. bots[b].handle # None /\ bots[b].handle # Claim
    BY <2>1, <2>2 DEF LifecycleConstants, Claim
  <2> QED
    BY <2>1, <2>3 DEF ClaimInv, RowsFit
<1>1. ~IsClaim(bots[b]) /\ Reaped(b) = bots[b] /\ ~FreshClaim(bots[b]) /\ bots[b].state # "gone"
  BY <1>0 DEF IsClaim, Reaped, FreshClaim, There
<1>2. \A s \in Slots : Past(s) => Bot(s) # b
  BY <1>1, CrossedGrows DEF ClaimInv, ClaimStands, Row
<1>3. ASSUME NEW c \in Bots, NEW row, Put(c, row), c # b PROVE bots'[b] = bots[b]
  BY <1>3, PutRow
<1>4. ASSUME NEW s \in Slots, Reserve(s) PROVE bots'[b] = bots[b]
  <2>1. CASE UNCHANGED bots
    BY <2>1
  <2>2. CASE /\ Free(s)
             /\ bots' = [c \in Bots |->
                  IF c = Bot(s) THEN [state |-> "there", running |-> TRUE,
                                      handle |-> Claim, stale |-> FALSE]
                  ELSE Reaped(c)]
    <3>1. Bot(s) # b
      BY <1>0, <1>1, <2>2 DEF Free, Row, Absent, There
    <3> QED
      BY <1>1, <2>2, <3>1
  <2>3. CASE bots' = [c \in Bots |-> Reaped(c)]
    BY <1>1, <2>3
  <2> QED
    BY <1>4, <2>1, <2>2, <2>3 DEF Reserve
<1>5. ASSUME NEW s \in Slots, Record(s) \/ Revert(s) PROVE bots'[b] = bots[b]
  <2>1. Past(s) /\ Bot(s) \in Bots
    BY <1>5, KindsOf DEF Record, Revert, Past
  <2>2. UNCHANGED bots \/ \E row : Put(Bot(s), row)
    BY <1>5 DEF Record, Revert
  <2> QED
    BY <1>2, <1>3, <2>1, <2>2
<1>6. ASSUME NEW s \in Slots, Write(s) PROVE bots'[b] = bots[b]
  <2>1. Bot(s) \in Bots /\ \E row : Put(Bot(s), row)
    BY <1>6, KindsOf DEF Write
  <2>2. Bot(s) # b
    <3> SUFFICES ASSUME Bot(s) = b PROVE FALSE
      OBVIOUS
    <3>1. Row(s) = request[s].row
      BY <1>6 DEF Write, Crosses
    <3>2. docker[b].id # request[s].row.handle
      BY <1>6 DEF WriterSawItGo, Write
    <3> QED
      BY <3>1, <3>2 DEF Row
  <2> QED
    BY <1>3, <2>1, <2>2
<1>7. ASSUME NEW c \in Bots, ClaimAges(c) PROVE bots'[b] = bots[b]
  BY <1>1, <1>3, <1>7 DEF ClaimAges
<1>8. ASSUME NEW s \in Slots, \/ \E c \in Bots : Arrives(s, c)
                              \/ SpawnFails(s) \/ Spawn(s) \/ StopContainer(s) \/ DockerFails(s)
                              \/ Inspect(s)
      PROVE  bots' = bots
  BY <1>8 DEF Arrives, Reads, SpawnFails, Spawn, StopContainer, DockerFails, Inspect
<1>9. ASSUME (\E c \in Bots : RemovedByHand(c)) \/ Restart \/ UNCHANGED lifecycleVars
      PROVE  bots' = bots
  BY <1>9 DEF RemovedByHand, Restart, lifecycleVars
<1> QED
  BY <1>4, <1>5, <1>6, <1>7, <1>8, <1>9 DEF Next

LEMMA NextAccounted ==
  ASSUME LifecycleConstants, Typed, ClaimInv, WriterSawItGo, Accounted, [Next]_lifecycleVars
  PROVE  Accounted'
<1> SUFFICES ASSUME NEW b \in Bots, docker'[b] # None, docker'[b].up, b \notin crossed' \cup died'
             PROVE  \/ bots'[b].handle = docker'[b].id
                    \/ \E s \in Slots : /\ request'[s].kind \in {"start", "create"}
                                        /\ request'[s].pc = "record" /\ request'[s].bot = b
                                        /\ request'[s].made = docker'[b].id
  BY DEF Accounted, Past, Bot
<1>1. CASE docker'[b] = docker[b] /\ bots[b].handle = docker[b].id
  BY <1>1, NamedStays
<1>2. ASSUME docker'[b] = docker[b], NEW s \in Slots, Past(s), request[s].pc = "record", Bot(s) = b,
             request[s].made = docker[b].id
      PROVE  \/ bots'[b].handle = docker'[b].id
             \/ /\ request'[s].kind \in {"start", "create"} /\ request'[s].pc = "record"
                /\ request'[s].bot = b /\ request'[s].made = docker'[b].id
  <2>1. CASE request'[s] = request[s]
    BY <1>2, <2>1 DEF Past, Bot
  <2>2. CASE Record(s)
    <3>1. CASE There(b) /\ Put(b, [bots[b] EXCEPT !.running = TRUE, !.stale = FALSE,
                                                 !.handle = request[s].made])
      <4> DEFINE row == [bots[b] EXCEPT !.running = TRUE, !.stale = FALSE,
                                        !.handle = request[s].made]
      <4>1. row.handle = request[s].made
        <5>1. bots[b] \in Rows(spawns)
          BY DEF Typed
        <5> QED
          BY <5>1 DEF Rows
      <4> HIDE DEF row
      <4>2. bots'[b] = row
        BY <3>1, PutRow DEF row
      <4> QED
        BY <1>2, <4>1, <4>2
    <3>2. CASE Undone(s)
      <4>1. docker' = Removed(b, request[s].made)
        BY <1>2, <3>2 DEF Undone
      <4>2. docker'[b] = None
        BY <1>2, <4>1, Stopped, ZenonT(60)
      <4> QED
        BY <4>2
    <3> QED
      BY <1>2, <2>2, <3>1, <3>2 DEF Record, Row
  <2>3. CASE Restart
    BY <1>2, <2>3 DEF Restart, Starting, Past, Bot
  <2> QED
    BY <1>2, <2>1, <2>2, <2>3, RecordingStays
<1>3. ASSUME NEW s \in Slots, Spawn(s), Bot(s) = b, docker'[b].id = spawns + 1
      PROVE  /\ request'[s].kind \in {"start", "create"} /\ request'[s].pc = "record"
             /\ request'[s].bot = b /\ request'[s].made = docker'[b].id
  <2>1. PICK on, described \in BOOLEAN :
          /\ docker' = [docker EXCEPT ![Bot(s)] = [id |-> spawns + 1, up |-> on]]
          /\ IF on /\ described
             THEN Becomes(s, [request[s] EXCEPT !.pc = "record", !.made = spawns + 1])
             ELSE Goes(s, "revert")
          /\ crossed' = IF on /\ ~described THEN crossed \cup {Bot(s)} ELSE crossed
    BY <1>3 DEF Spawn
  <2>2. docker'[b].up = on
    BY <1>3, <2>1 DEF Typed
  <2> DEFINE r == [request[s] EXCEPT !.pc = "record", !.made = spawns + 1]
  <2>3. Becomes(s, r)
    BY <1>3, <2>1, <2>2
  <2>4. r.kind = request[s].kind /\ r.bot = b /\ r.pc = "record" /\ r.made = spawns + 1
    <3>1. request[s] \in Requests(spawns) /\ request[s].bot = b
      BY <1>3 DEF Typed, Bot
    <3> QED
      BY <3>1 DEF Requests
  <2> HIDE DEF r
  <2>5. request'[s] = r
    BY <2>3, OneRequestMoves
  <2>6. request[s].kind \in {"start", "create"}
    BY <1>3 DEF Spawn, At
  <2> QED
    BY <1>3, <2>4, <2>5, <2>6
<1>4. docker'[b] = docker[b] => \/ bots[b].handle = docker[b].id
                               \/ \E s \in Slots : /\ Past(s) /\ request[s].pc = "record"
                                                   /\ Bot(s) = b /\ request[s].made = docker[b].id
  BY CrossedGrows DEF Accounted
<1>5. docker'[b] = docker[b] \/ (docker'[b].id = spawns + 1 /\ \E s \in Slots : Spawn(s) /\ Bot(s) = b)
  BY ContainersMove
<1> QED
  BY <1>1, <1>2, <1>3, <1>4, <1>5

LEMMA ContainersAccounted ==
  ASSUME LifecycleConstants PROVE Spec => []Accounted
<1>1. Init => WriterSawItGo /\ Accounted
  BY DEF Init, WriterSawItGo, Accounted, At, NoRequest
<1>2. Typed /\ MadeKnown /\ ClaimInv /\ WriterSawItGo /\ Accounted /\ [Next]_lifecycleVars
      => WriterSawItGo' /\ Accounted'
  BY NextWriterSaw, NextAccounted
<1> QED
  BY <1>1, <1>2, ClaimsHold, PTL DEF Spec

(* Between requests no container runs that its row does not name, whatever  *)
(* fails, unless the dashboard died during the start, Docker did not answer *)
(* or a row changed under a request (spawn, record and undo in             *)
(* decryptAndStart).                                                       *)
THEOREM NoContainerStrays == ASSUME LifecycleConstants PROVE Spec => []NoStrayContainer
<1>1. Accounted => NoStrayContainer
  BY DEF Accounted, NoStrayContainer
<1> QED
  BY <1>1, ContainersAccounted, PTL

=============================================================================
