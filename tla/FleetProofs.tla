----------------------------- MODULE FleetProofs -----------------------------
(***************************************************************************)
(* The directory of selected homes keeps its promises for every number of  *)
(* phones, homes, tokens, gateway processes and deliveries and for every   *)
(* limit of the constants (FleetAssumption).                               *)
(*                                                                         *)
(* The argument has three parts.  What queue_route_update holds for a home *)
(* is always true of the route, and nothing is taken out of the queue      *)
(* before the home has heard it or is gone, so what a home heard last,     *)
(* with what is queued for it, is the truth (Reports, Told, Agrees).  The  *)
(* token of a proof is remembered for longer than a poll of it can be      *)
(* awaited, so finish may tell proofs apart by their token (Asked).  And   *)
(* every selection uses up a revision of its route (Numbered).  One lemma  *)
(* per function says what it does to one route, DirectoryStep turns that   *)
(* into a step of the whole directory.                                     *)
(***************************************************************************)
EXTENDS NaviFleetProperties, FiniteSetTheorems, FunctionTheorems, SequenceTheorems, TLAPS

(* The inductive invariant, part by part. The first parts are about one    *)
(* route alone: its queue of updates and its remembered proofs are within  *)
(* their limits, ...                                                       *)
UpdatesFit(R) == IsFiniteSet(R.updates) /\ Cardinality(R.updates) <= UpdateLimit

SeenFit(R) == IsFiniteSet(R.seen) /\ Cardinality(R.seen) <= SeenLimit

(* ... no update is numbered above the route's revision and none names the *)
(* same generation twice, ...                                              *)
Ordered(R) ==
  /\ \A u \in R.updates : u.revision <= R.revision
  /\ \A u, v \in R.updates : u.sel.gen = v.sel.gen => u = v

(* ... while a proof is open its end can still be queued, twice if it ends *)
(* in a new selection, ...                                                 *)
Room(R) ==
  /\ R.revision <= MaxRevision
  /\ R.pending # None => R.revision + 2 <= MaxRevision /\ ~QueueFails(R)

(* ... and the open proof is the newest one, not older than the one that   *)
(* made the selection, and still pinned by its first answer.               *)
Times(R) ==
  /\ R.active # None => R.active.proved <= R.newest
  /\ R.pending # None => /\ R.pending.occurred = R.newest
                         /\ R.pending.until <= R.pending.occurred + ProofLife
                         /\ R.pending.first = R.pending.identity

RouteInv(R) ==
  R \in Route /\ UpdatesFit(R) /\ SeenFit(R) /\ Ordered(R) /\ Room(R) /\ Times(R)

(* What the home of sel should believe: retired when it is not the         *)
(* selected one, paused while a proof is open, else active. Once homes get *)
(* new certificates it may stay paused, for invalidate_identity drops a    *)
(* proof without telling the former home.                                  *)
StandsAs(R, sel, status) ==
  IF R.active # sel THEN status = "retired"
  ELSE IF R.pending # None THEN status = "paused"
  ELSE status = "active" \/ (status = "paused" /\ MaxResets > 0)

(* How a step may change the queue of a route: what it adds is newly       *)
(* numbered and true of the route after the step.                          *)
Evolves(R, N) ==
  /\ R.revision <= N.revision
  /\ \A u \in N.updates :
       u \in R.updates \/ (u.revision > R.revision /\ StandsAs(N, u.sel, u.status))

(* The home of sel is told of the step by an update of the step itself ... *)
Announced(R, N, sel) == \E u \in N.updates : u.sel = sel /\ u.revision > R.revision

(* ... or needs no telling, what it believed being still true.             *)
Follows(R, N, sel) ==
  \A status \in Statuses : StandsAs(R, sel, status) => StandsAs(N, sel, status)

(* The updates that the step takes away without putting another in their   *)
(* place.                                                                  *)
Lost(R, N) == {u \in R.updates : \A v \in N.updates : v.sel.gen # u.sel.gen}

-----------------------------------------------------------------------------
(* The constants are numbers.                                              *)
LEMMA LimitTypes ==
  /\ ProofLife \in Nat \ {0} /\ Skew \in Nat \ {0} /\ ExchangeLife \in Nat \ {0}
  /\ UpdateLimit \in Nat \ {0}
  /\ SeenLimit \in Nat /\ RouteLimit \in Nat /\ MaxTime \in Nat /\ MaxRevision \in Nat
  /\ MaxResets \in Nat /\ ExchangeLife <= Skew
BY FleetAssumption

(* The fields of a route have their types.                                 *)
LEMMA RouteFields ==
  ASSUME NEW R \in Route
  PROVE  /\ R.known \in BOOLEAN /\ R.active \in Selection \cup {None}
         /\ R.pending \in Pending \cup {None} /\ R.seen \in SUBSET [id: Tokens, until: Nat]
         /\ R.newest \in 0..(MaxTime + Skew) /\ R.revision \in Nat
         /\ R.updates \in SUBSET Update
BY DEF Route

(* queue_route_update replaces what it has to say of the active            *)
(* generation.                                                             *)
Others(R) == {u \in R.updates : u.sel.gen # R.active.gen}

News(R, status) == [sel |-> R.active, revision |-> R.revision + 1, status |-> status]

Queuing(R, N, status) ==
  /\ N \in Route /\ N.known = R.known /\ N.active = R.active /\ N.pending = R.pending
  /\ N.seen = R.seen /\ N.newest = R.newest
  /\ R.active = None => N = R
  /\ R.active # None => /\ N.revision = R.revision + 1
                        /\ N.updates = Others(R) \cup {News(R, status)}
                        /\ News(R, status) \in Update

(* queue_route_update changes the revision and the queue and nothing else. *)
LEMMA QueuedFields ==
  ASSUME NEW R \in Route, NEW status \in Statuses
  PROVE  Queuing(R, Queued(R, status), status)
<1>1. CASE R.active = None  BY <1>1, RouteFields DEF Queued, Queuing
<1>2. CASE R.active # None
  <2> DEFINE n == News(R, status)
             us == Others(R) \cup {n}
             k == R.revision + 1
  <2>1. k \in Nat  BY RouteFields
  <2>2. n \in Update  BY <1>2, <2>1, RouteFields DEF News, Update
  <2>3. us \in SUBSET Update  BY <2>2, RouteFields DEF Others
  <2>4. Queued(R, status) = [R EXCEPT !.revision = k, !.updates = us]
    BY <1>2 DEF Queued, Others, News
  <2> HIDE DEF n, us, k
  <2>5. [R EXCEPT !.revision = k, !.updates = us] \in Route  BY <2>1, <2>3 DEF Route
  <2> DEFINE N == [R EXCEPT !.revision = k, !.updates = us]
  <2>6. N.known = R.known /\ N.active = R.active /\ N.pending = R.pending
        /\ N.seen = R.seen /\ N.newest = R.newest /\ N.revision = k /\ N.updates = us
    BY DEF Route
  <2>7. QED BY <1>2, <2>2, <2>4, <2>5, <2>6 DEF Queuing, n, us, k
<1>3. QED BY <1>1, <1>2

(* Removing updates leaves room.                                           *)
LEMMA ThinFits ==
  ASSUME NEW R, NEW N, UpdatesFit(R), N.updates \subseteq R.updates,
         N.active = None \/ N.active = R.active
  PROVE  UpdatesFit(N) /\ (~QueueFails(R) => ~QueueFails(N))
<1>1. IsFiniteSet(R.updates) /\ Cardinality(R.updates) <= UpdateLimit  BY DEF UpdatesFit
<1>2. IsFiniteSet(N.updates) /\ Cardinality(N.updates) <= Cardinality(R.updates)
      /\ (Cardinality(R.updates) = Cardinality(N.updates) => R.updates = N.updates)
  BY <1>1, FS_Subset
<1>3. Cardinality(R.updates) \in Nat /\ Cardinality(N.updates) \in Nat
  BY <1>1, <1>2, FS_CardinalityType
<1>4. UpdatesFit(N)  BY <1>1, <1>2, <1>3, LimitTypes DEF UpdatesFit
<1>5. ASSUME QueueFails(N) PROVE QueueFails(R)
  <2>1. N.active = R.active /\ R.active # None /\ Cardinality(N.updates) >= UpdateLimit
    BY <1>5 DEF QueueFails
  <2>2. Cardinality(R.updates) = Cardinality(N.updates)
    BY <1>1, <1>2, <1>3, <2>1, LimitTypes
  <2>3. R.updates = N.updates  BY <1>2, <2>2
  <2>4. QED BY <1>5, <2>1, <2>3 DEF QueueFails
<1>6. QED BY <1>4, <1>5

(* A queue that accepts an update has room for the next one of the same    *)
(* generation.                                                             *)
LEMMA QueuedFits ==
  ASSUME NEW R \in Route, NEW N, NEW status \in Statuses, Queuing(R, N, status),
         UpdatesFit(R), ~QueueFails(R)
  PROVE  UpdatesFit(N) /\ ~QueueFails(N)
<1>1. CASE R.active = None  BY <1>1 DEF Queuing
<1>2. CASE R.active # None
  <2>1. IsFiniteSet(R.updates) /\ Cardinality(R.updates) <= UpdateLimit  BY DEF UpdatesFit
  <2>2. Others(R) \in SUBSET R.updates  BY DEF Others
  <2>3. IsFiniteSet(Others(R)) /\ Cardinality(Others(R)) <= Cardinality(R.updates)
        /\ (Cardinality(R.updates) = Cardinality(Others(R)) => R.updates = Others(R))
    BY <2>1, <2>2, FS_Subset
  <2>4. Cardinality(R.updates) \in Nat /\ Cardinality(Others(R)) \in Nat
    BY <2>1, <2>3, FS_CardinalityType
  <2>5. Cardinality(Others(R)) < UpdateLimit
    <3>1. CASE Cardinality(R.updates) < UpdateLimit  BY <2>3, <2>4, <3>1, LimitTypes
    <3>2. CASE ~(Cardinality(R.updates) >= UpdateLimit)  BY <2>4, <3>1, <3>2, LimitTypes
    <3>3. CASE Cardinality(R.updates) >= UpdateLimit
      <4>1. PICK u \in R.updates : u.sel.gen = R.active.gen
        BY <1>2, <3>3 DEF QueueFails
      <4>2. R.updates # Others(R)  BY <4>1 DEF Others
      <4>3. QED BY <2>1, <2>3, <2>4, <4>2, LimitTypes
    <3>4. QED BY <3>2, <3>3
  <2>6. N.updates = Others(R) \cup {News(R, status)} /\ N.active = R.active
    BY <1>2 DEF Queuing
  <2>7. IsFiniteSet(N.updates) /\ Cardinality(N.updates) <= Cardinality(Others(R)) + 1
    <3> DEFINE O == Others(R)
               n == News(R, status)
    <3>1. IsFiniteSet(O) /\ Cardinality(O) \in Nat  BY <2>3, <2>4
    <3>2. N.updates = O \cup {n}  BY <2>6
    <3> HIDE DEF O, n
    <3>3. IsFiniteSet(O \cup {n}) /\ Cardinality(O \cup {n}) =
            IF n \in O THEN Cardinality(O) ELSE Cardinality(O) + 1
      BY <3>1, FS_AddElement
    <3>4. IsFiniteSet(N.updates) /\ Cardinality(N.updates) <= Cardinality(O) + 1
      BY <3>1, <3>2, <3>3
    <3>5. QED BY <3>4 DEF O
  <2>8. Cardinality(N.updates) \in Nat  BY <2>7, FS_CardinalityType
  <2>9. UpdatesFit(N)  BY <2>4, <2>5, <2>7, <2>8, LimitTypes DEF UpdatesFit
  <2>10. News(R, status).sel.gen = R.active.gen  BY DEF News
  <2>11. ~QueueFails(N)  BY <2>6, <2>10 DEF QueueFails
  <2>12. QED BY <2>9, <2>11
<1>3. QED BY <1>1, <1>2

(* What queue_route_update adds is numbered above all that was there.      *)
LEMMA QueuedOrder ==
  ASSUME NEW R \in Route, NEW N, NEW status \in Statuses, Queuing(R, N, status), Ordered(R)
  PROVE  /\ Ordered(N) /\ R.revision <= N.revision /\ N.revision <= R.revision + 1
         /\ \A u \in N.updates : u \in R.updates \/ u = News(R, status)
<1>0. R.revision \in Nat  BY RouteFields
<1>1. CASE R.active = None  BY <1>0, <1>1 DEF Queuing
<1>2. CASE R.active # None
  <2>1. N.updates = Others(R) \cup {News(R, status)} /\ N.revision = R.revision + 1
    BY <1>2 DEF Queuing
  <2>2. \A u \in N.updates : (u \in R.updates /\ u.sel.gen # R.active.gen) \/ u = News(R, status)
    BY <2>1 DEF Others
  <2>3. News(R, status).sel.gen = R.active.gen /\ News(R, status).revision = R.revision + 1
    BY DEF News
  <2>4. \A u \in R.updates : u.revision \in Nat  BY RouteFields DEF Update
  <2>5. \A u \in N.updates : u.revision <= N.revision
    BY <1>0, <2>1, <2>2, <2>3, <2>4 DEF Ordered
  <2>6. \A u, v \in N.updates : u.sel.gen = v.sel.gen => u = v
    BY <2>2, <2>3 DEF Ordered
  <2>7. QED BY <1>0, <2>1, <2>2, <2>5, <2>6 DEF Ordered
<1>3. QED BY <1>1, <1>2

-----------------------------------------------------------------------------
(* What the functions of the directory do to one route.                    *)
Keeps(R, N) ==
  /\ Lost(R, N) = {}
  /\ \A sel \in Selection : Announced(R, N, sel) \/ Follows(R, N, sel)

(* Dropping updates, proofs or the selection leaves a sound route.         *)
LEMMA ThinStep ==
  ASSUME NEW R, RouteInv(R), NEW N \in Route, N.updates \subseteq R.updates,
         N.revision = R.revision, N.newest = R.newest, N.seen \subseteq R.seen,
         N.active = None \/ N.active = R.active, N.pending = None \/ N.pending = R.pending
  PROVE  RouteInv(N) /\ Evolves(R, N)
<1>1. R \in Route /\ UpdatesFit(R) /\ SeenFit(R) /\ Ordered(R) /\ Room(R) /\ Times(R)
  BY DEF RouteInv
<1>2. UpdatesFit(N) /\ (~QueueFails(R) => ~QueueFails(N))  BY <1>1, ThinFits
<1>3. SeenFit(N)
  <2>1. IsFiniteSet(N.seen) /\ Cardinality(N.seen) <= Cardinality(R.seen)
    BY <1>1, FS_Subset DEF SeenFit
  <2>2. Cardinality(N.seen) \in Nat /\ Cardinality(R.seen) \in Nat
    BY <1>1, <2>1, FS_CardinalityType DEF SeenFit
  <2>3. QED BY <1>1, <2>1, <2>2, LimitTypes DEF SeenFit
<1>4. Ordered(N)  BY <1>1 DEF Ordered
<1>5. Room(N)  BY <1>1, <1>2 DEF Room
<1>6. Times(N)  BY <1>1 DEF Times
<1>7. R.revision \in Nat  BY <1>1, RouteFields
<1>8. Evolves(R, N)  BY <1>7 DEF Evolves
<1>9. QED BY <1>2, <1>3, <1>4, <1>5, <1>6, <1>8 DEF RouteInv

(* begin forgets the proofs that are too old to be replayed.               *)
Forgotten(R, S) == [R EXCEPT !.known = TRUE, !.seen = S]

(* Forgetting tokens leaves the rest of a route alone.                     *)
LEMMA ForgetStep ==
  ASSUME NEW R, RouteInv(R), NEW S \in SUBSET R.seen
  PROVE  LET N == Forgotten(R, S) IN
         /\ RouteInv(N) /\ Evolves(R, N) /\ Keeps(R, N)
         /\ N.active = R.active /\ N.pending = R.pending /\ N.seen = S
         /\ N.updates = R.updates /\ N.revision = R.revision /\ N.newest = R.newest
<1> DEFINE N == Forgotten(R, S)
<1>1. R \in Route  BY DEF RouteInv
<1>2. N \in Route  BY <1>1, RouteFields DEF Route, Forgotten
<1>3. N.active = R.active /\ N.pending = R.pending /\ N.seen = S
      /\ N.updates = R.updates /\ N.revision = R.revision /\ N.newest = R.newest
  BY <1>1 DEF Route, Forgotten
<1> HIDE DEF N
<1>4. RouteInv(N) /\ Evolves(R, N)  BY <1>2, <1>3, ThinStep
<1>5. Keeps(R, N)  BY <1>3 DEF Keeps, Lost, Follows, StandsAs
<1>6. QED BY <1>3, <1>4, <1>5 DEF N

(* queue_route_update loses nothing that a home has still to hear.         *)
LEMMA QueuedKeeps ==
  ASSUME NEW R \in Route, NEW N, NEW status \in Statuses, Queuing(R, N, status)
  PROVE  Lost(R, N) = {} /\ (R.active # None => Announced(R, N, R.active))
<1>1. CASE R.active = None  BY <1>1 DEF Queuing, Lost
<1>2. CASE R.active # None
  <2>1. N.updates = Others(R) \cup {News(R, status)}  BY <1>2 DEF Queuing
  <2>2. News(R, status).sel = R.active /\ News(R, status).revision = R.revision + 1
    BY DEF News
  <2>3. R.revision \in Nat  BY RouteFields
  <2>4. Announced(R, N, R.active)  BY <2>1, <2>2, <2>3 DEF Announced
  <2>5. Lost(R, N) = {}  BY <2>1, <2>2 DEF Lost, Others
  <2>6. QED BY <2>4, <2>5
<1>3. QED BY <1>1, <1>2

(* The smaller of two numbers.                                             *)
LEMMA SmallerOfTwo ==
  ASSUME NEW x \in Int, NEW y \in Int
  PROVE  Min({x, y}) \in {x, y} /\ Min({x, y}) <= x /\ Min({x, y}) <= y
<1>1. \E z \in {x, y} : \A w \in {x, y} : z <= w
  <2>1. CASE x <= y  BY <2>1
  <2>2. CASE y <= x  BY <2>2
  <2>3. QED BY <2>1, <2>2
<1>2. Min({x, y}) = CHOOSE z \in {x, y} : \A w \in {x, y} : z <= w  BY DEF Min
<1>3. QED BY <1>1, <1>2

(* A release, or a pause: the proof of a route changes and the selected    *)
(* home is told.                                                           *)
Retold(R, M, N, status) ==
  /\ M \in Route /\ Queuing(M, N, status)
  /\ M.active = R.active /\ M.updates = R.updates /\ M.revision = R.revision

(* Only the selected home is told something new.                           *)
SameHomes(R, N) == \A u \in N.updates : u \in R.updates \/ (R.active # None /\ u.sel = R.active)

(* Such a change leaves a sound route whose selected home is told the      *)
(* truth.                                                                  *)
LEMMA RetoldStep ==
  ASSUME NEW R, RouteInv(R), NEW M, NEW N, NEW status \in Statuses, Retold(R, M, N, status),
         ~QueueFails(R), SeenFit(M), Times(M),
         R.revision + 3 <= MaxRevision \/ (M.pending = None /\ R.revision + 2 <= MaxRevision),
         StandsAs(M, R.active, status)
  PROVE  /\ RouteInv(N) /\ Evolves(R, N) /\ Keeps(R, N) /\ SameHomes(R, N)
         /\ N.active = R.active /\ N.pending = M.pending /\ N.seen = M.seen
         /\ N.revision >= R.revision
<1>1. R \in Route /\ UpdatesFit(R) /\ Ordered(R)  BY DEF RouteInv
<1>2. M \in Route /\ Queuing(M, N, status) /\ M.active = R.active /\ M.updates = R.updates
      /\ M.revision = R.revision
  BY DEF Retold
<1>3. UpdatesFit(M) /\ ~QueueFails(M) /\ Ordered(M)
  BY <1>1, <1>2 DEF UpdatesFit, QueueFails, Ordered
<1>4. UpdatesFit(N) /\ ~QueueFails(N)  BY <1>2, <1>3, QueuedFits
<1>5. Ordered(N) /\ R.revision <= N.revision /\ N.revision <= R.revision + 1
      /\ \A u \in N.updates : u \in R.updates \/ u = News(M, status)
  BY <1>2, <1>3, QueuedOrder
<1>6. N \in Route /\ N.active = R.active /\ N.pending = M.pending /\ N.seen = M.seen
      /\ N.newest = M.newest
  BY <1>2 DEF Queuing
<1>7. SeenFit(N) /\ Times(N)  BY <1>2, <1>6 DEF SeenFit, Times
<1>8. R.revision \in Nat /\ N.revision \in Nat  BY <1>1, <1>6, RouteFields
<1>9. N.revision <= MaxRevision  BY <1>5, <1>8, LimitTypes
<1>10. ASSUME N.pending # None PROVE N.revision + 2 <= MaxRevision
  <2>1. R.revision + 3 <= MaxRevision  BY <1>6, <1>10
  <2>2. QED BY <1>5, <1>8, <2>1, LimitTypes
<1>11. Room(N)  BY <1>4, <1>9, <1>10 DEF Room
<1>12. RouteInv(N)  BY <1>4, <1>5, <1>6, <1>7, <1>11 DEF RouteInv
<1>13. News(M, status).sel = R.active /\ News(M, status).status = status
       /\ News(M, status).revision = R.revision + 1
  BY <1>2 DEF News
<1>14. StandsAs(N, R.active, status)  BY <1>2, <1>6 DEF StandsAs
<1>15. Evolves(R, N)  BY <1>5, <1>8, <1>13, <1>14 DEF Evolves
<1>16. Lost(M, N) = {} /\ (R.active # None => Announced(M, N, R.active))
  BY <1>2, QueuedKeeps
<1>17. Lost(R, N) = {}  BY <1>2, <1>16 DEF Lost
<1>18. ASSUME NEW sel \in Selection PROVE Announced(R, N, sel) \/ Follows(R, N, sel)
  <2>1. CASE R.active = sel
    <3>1. R.active # None  BY <2>1, NullAssumption
    <3>2. Announced(M, N, sel)  BY <1>16, <2>1, <3>1
    <3>3. QED BY <1>2, <3>2 DEF Announced
  <2>2. CASE R.active # sel  BY <1>6, <2>2 DEF Follows, StandsAs
  <2>3. QED BY <2>1, <2>2
<1>19. Keeps(R, N)  BY <1>17, <1>18 DEF Keeps
<1>20. SameHomes(R, N)
  <2>1. R.active = None => N.updates = R.updates  BY <1>2 DEF Queuing
  <2>2. QED BY <1>5, <1>13, <2>1 DEF SameHomes
<1>21. QED BY <1>5, <1>6, <1>8, <1>12, <1>15, <1>19, <1>20

(* A proof that ended without a selection: the former home is active       *)
(* again.                                                                  *)
LEMMA ReleasedStep ==
  ASSUME NEW R, RouteInv(R), R.pending # None
  PROVE  LET N == Released(R) IN
         /\ RouteInv(N) /\ Evolves(R, N) /\ Keeps(R, N) /\ SameHomes(R, N)
         /\ N.active = R.active /\ N.pending = None /\ N.seen = R.seen
         /\ N.revision >= R.revision
<1> DEFINE M == [R EXCEPT !.pending = None]
           N == Queued(M, "active")
<1>1. R \in Route /\ SeenFit(R) /\ Times(R) /\ Room(R)  BY DEF RouteInv
<1>2. M \in Route /\ M.active = R.active /\ M.updates = R.updates /\ M.revision = R.revision
      /\ M.pending = None /\ M.seen = R.seen /\ M.newest = R.newest
  BY <1>1 DEF Route
<1>3. Released(R) = N  BY DEF Released
<1> HIDE DEF M
<1>4. "active" \in Statuses  BY DEF Statuses
<1>5. Retold(R, M, N, "active")  BY <1>2, <1>4, QueuedFields DEF Retold
<1> HIDE DEF N
<1>6. SeenFit(M) /\ Times(M)  BY <1>1, <1>2 DEF SeenFit, Times
<1>7. ~QueueFails(R) /\ R.revision + 2 <= MaxRevision  BY <1>1 DEF Room
<1>8. StandsAs(M, R.active, "active")  BY <1>2 DEF StandsAs
<1>9. RouteInv(N) /\ Evolves(R, N) /\ Keeps(R, N) /\ SameHomes(R, N)
      /\ N.active = R.active /\ N.pending = None /\ N.seen = R.seen /\ N.revision >= R.revision
  BY <1>2, <1>4, <1>5, <1>6, <1>7, <1>8, RetoldStep
<1>10. QED BY <1>3, <1>9

(* begin stores the proof and remembers it for longer than it is good.     *)
LEMMA BegunFields ==
  ASSUME NEW R \in Route, NEW t \in Tokens, NEW o \in 0..(MaxTime + Skew), clock \in 0..MaxTime
  PROVE  LET M == Begun(R, t, o) IN
         /\ M \in Route /\ M.active = R.active /\ M.updates = R.updates
         /\ M.revision = R.revision /\ M.newest = o
         /\ M.seen = R.seen \cup {[id |-> t, until |-> o + SeenLife]}
         /\ M.pending # None /\ M.pending.id = t /\ M.pending.occurred = o
         /\ M.pending.until <= o + ProofLife /\ M.pending.first = M.pending.identity
<1> DEFINE e == [id |-> t, until |-> o + SeenLife]
           m == Min({o, clock}) + ProofLife
           p == [id |-> t, hub |-> HubOf[t], occurred |-> o, until |-> m, identity |-> None,
                 first |-> None]
           S == R.seen \cup {e}
<1>1. o \in Nat /\ clock \in Nat  BY LimitTypes
<1>2. e \in [id: Tokens, until: Nat]  BY <1>1, LimitTypes DEF SeenLife
<1>3. m \in Nat /\ m <= o + ProofLife
  <2> DEFINE x == Min({o, clock})
  <2>1. o \in Int /\ clock \in Int  BY <1>1
  <2>2. x \in {o, clock} /\ x <= o  BY <2>1, SmallerOfTwo, Zenon
  <2>3. m = x + ProofLife  OBVIOUS
  <2> HIDE DEF x, m
  <2>4. QED BY <1>1, <2>2, <2>3, LimitTypes
<1>4. HubOf[t] \in Hubs  BY FleetAssumption
<1> HIDE DEF m
<1>5. p \in Pending  BY <1>3, <1>4 DEF Pending
<1>6. p.id = t /\ p.occurred = o /\ p.until = m /\ p.first = p.identity  OBVIOUS
<1>7. p # None  BY <1>5, NullAssumption
<1>8. S \in SUBSET [id: Tokens, until: Nat]  BY <1>2, RouteFields
<1>9. Begun(R, t, o) = [R EXCEPT !.seen = S, !.newest = o, !.pending = p]
  BY DEF Begun, m
<1> HIDE DEF p, S
<1> DEFINE M == [R EXCEPT !.seen = S, !.newest = o, !.pending = p]
<1>10. M \in Route  BY <1>5, <1>8 DEF Route
<1>11. M.active = R.active /\ M.updates = R.updates /\ M.revision = R.revision /\ M.newest = o
       /\ M.seen = S /\ M.pending = p
  BY DEF Route
<1>12. QED BY <1>3, <1>6, <1>7, <1>9, <1>10, <1>11 DEF S

(* A new proof: the selected home is paused.                               *)
LEMMA BegunStep ==
  ASSUME NEW R, RouteInv(R), NEW t \in Tokens, NEW o \in 0..(MaxTime + Skew),
         clock \in 0..MaxTime, o >= R.newest, Cardinality(R.seen) < SeenLimit,
         ~QueueFails(R), R.revision + 3 <= MaxRevision
  PROVE  LET N == Queued(Begun(R, t, o), "paused") IN
         /\ RouteInv(N) /\ Evolves(R, N) /\ Keeps(R, N) /\ SameHomes(R, N)
         /\ N.active = R.active
         /\ N.pending # None /\ N.pending.id = t /\ N.pending.occurred = o
         /\ N.seen = R.seen \cup {[id |-> t, until |-> o + SeenLife]}
         /\ N.revision >= R.revision
<1> DEFINE M == Begun(R, t, o)
           N == Queued(M, "paused")
           e == [id |-> t, until |-> o + SeenLife]
<1>1. R \in Route /\ SeenFit(R) /\ Times(R)  BY DEF RouteInv
<1>2. /\ M \in Route /\ M.active = R.active /\ M.updates = R.updates
      /\ M.revision = R.revision /\ M.newest = o /\ M.seen = R.seen \cup {e}
      /\ M.pending # None /\ M.pending.id = t /\ M.pending.occurred = o
      /\ M.pending.until <= o + ProofLife /\ M.pending.first = M.pending.identity
  BY <1>1, BegunFields
<1> HIDE DEF M
<1>3. "paused" \in Statuses  BY DEF Statuses
<1>4. Retold(R, M, N, "paused")  BY <1>2, <1>3, QueuedFields DEF Retold
<1> HIDE DEF N, e
<1>5. SeenFit(M)
  <2>1. IsFiniteSet(R.seen) /\ Cardinality(R.seen) \in Nat
    BY <1>1, FS_CardinalityType DEF SeenFit
  <2>2. IsFiniteSet(R.seen \cup {e}) /\ Cardinality(R.seen \cup {e}) =
          IF e \in R.seen THEN Cardinality(R.seen) ELSE Cardinality(R.seen) + 1
    BY <2>1, FS_AddElement
  <2>3. QED BY <1>2, <2>1, <2>2, LimitTypes DEF SeenFit
<1>6. Times(M)
  <2>1. ASSUME R.active # None PROVE R.active.proved <= o
    <3>1. R.active.proved \in Int  BY <1>1, <2>1, RouteFields DEF Selection
    <3>2. R.newest \in Int /\ o \in Int  BY <1>1, RouteFields
    <3>3. R.active.proved <= R.newest  BY <1>1, <2>1 DEF Times
    <3>4. QED BY <3>1, <3>2, <3>3
  <2>2. QED BY <1>2, <2>1 DEF Times
<1>7. StandsAs(M, R.active, "paused")  BY <1>2 DEF StandsAs
<1>8. /\ RouteInv(N) /\ Evolves(R, N) /\ Keeps(R, N) /\ SameHomes(R, N)
      /\ N.active = R.active /\ N.pending = M.pending /\ N.seen = M.seen
      /\ N.revision >= R.revision
  BY <1>3, <1>4, <1>5, <1>6, <1>7, RetoldStep
<1>9. QED BY <1>2, <1>8 DEF N, M, e

(* The first answer pins the device and can only shorten the proof.        *)
LEMMA PinnedStep ==
  ASSUME NEW R, RouteInv(R), R.pending # None, NEW i \in 0..MaxResets, NEW until \in Nat,
         NEW a, a.identity = i, a.until = until, SameDevice(R, a)
  PROVE  LET N == Pinned(R, a) IN
         /\ RouteInv(N) /\ Evolves(R, N) /\ Keeps(R, N)
         /\ N.active = R.active /\ N.updates = R.updates
         /\ N.seen = R.seen /\ N.revision = R.revision
         /\ N.pending # None /\ N.pending.id = R.pending.id
         /\ N.pending.occurred = R.pending.occurred
<1> DEFINE m == Min({R.pending.until, until})
           f == IF R.pending.first = None THEN i ELSE R.pending.first
           p == [R.pending EXCEPT !.identity = i, !.first = f, !.until = m]
           N == [R EXCEPT !.pending = p]
<1>1. R \in Route /\ UpdatesFit(R) /\ SeenFit(R) /\ Ordered(R) /\ Room(R) /\ Times(R)
  BY DEF RouteInv
<1>2. R.pending \in Pending  BY <1>1, RouteFields
<1>3. m \in Nat /\ m <= R.pending.until
  <2>1. R.pending.until \in Nat  BY <1>2 DEF Pending
  <2>2. R.pending.until \in Int /\ until \in Int  BY <2>1
  <2>3. m \in {R.pending.until, until} /\ m <= R.pending.until
    BY <2>2, SmallerOfTwo, Zenon
  <2>4. QED BY <2>1, <2>3
<1>4. Pinned(R, a) = N  BY <1>1, <1>2 DEF Pinned, Route, Pending
<1>f. f = i
  <2>1. R.pending.first = R.pending.identity  BY <1>1 DEF Times
  <2>2. R.pending.identity \in {None, i}  BY DEF SameDevice
  <2>3. QED BY <2>1, <2>2
<1> HIDE DEF m, f
<1>5. /\ p \in Pending /\ p.id = R.pending.id /\ p.occurred = R.pending.occurred
      /\ p.until = m /\ p.first = p.identity
  BY <1>2, <1>3, <1>f DEF Pending
<1>6. p # None  BY <1>5, NullAssumption
<1> HIDE DEF p
<1>7. N \in Route /\ N.active = R.active /\ N.updates = R.updates /\ N.revision = R.revision
      /\ N.newest = R.newest /\ N.seen = R.seen /\ N.pending = p
  BY <1>1, <1>5 DEF Route
<1> HIDE DEF N
<1>8. UpdatesFit(N) /\ SeenFit(N) /\ Ordered(N)
  BY <1>1, <1>7 DEF UpdatesFit, SeenFit, Ordered
<1>9. Room(N)  BY <1>1, <1>7 DEF Room, QueueFails
<1>10. Times(N)
  <2>1. p.occurred = R.newest  BY <1>1, <1>5 DEF Times
  <2>2. p.until <= p.occurred + ProofLife
    <3>1. R.pending.until \in Nat /\ R.pending.occurred \in Int  BY <1>2 DEF Pending
    <3>2. R.pending.until <= R.pending.occurred + ProofLife  BY <1>1 DEF Times
    <3>3. QED BY <1>3, <1>5, <3>1, <3>2, LimitTypes
  <2>3. QED BY <1>1, <1>5, <1>7, <2>1, <2>2 DEF Times
<1>11. RouteInv(N)  BY <1>7, <1>8, <1>9, <1>10 DEF RouteInv
<1>12. R.revision \in Nat  BY <1>1, RouteFields
<1>13. Evolves(R, N)  BY <1>7, <1>12 DEF Evolves
<1>14. Keeps(R, N)  BY <1>6, <1>7 DEF Keeps, Lost, Follows, StandsAs
<1>15. QED BY <1>4, <1>5, <1>6, <1>7, <1>11, <1>13, <1>14

(* A selection under a fresh generation: the former home retires, the new  *)
(* one is active.                                                          *)
LEMMA BoundStep ==
  ASSUME NEW R, RouteInv(R), R.pending # None, NEW sel \in Selection,
         sel.proved = R.pending.occurred,
         \A u \in R.updates : u.sel.gen # sel.gen,
         R.active # None => R.active.gen # sel.gen,
         ~QueueFails(Selected(Queued(R, "retired"), sel))
  PROVE  LET N == Bound(R, sel) IN
         /\ RouteInv(N) /\ Evolves(R, N) /\ Keeps(R, N) /\ Announced(R, N, sel)
         /\ N.active = sel /\ N.pending = None /\ N.seen = R.seen
         /\ N.revision > R.revision
         /\ \A u \in N.updates : u \in R.updates \/ u.sel = sel
                                  \/ (R.active # None /\ u.sel = R.active)
<1> DEFINE Q == Queued(R, "retired")
           M == Selected(Q, sel)
           N == Queued(M, "active")
<1>1. R \in Route /\ UpdatesFit(R) /\ SeenFit(R) /\ Ordered(R) /\ Room(R) /\ Times(R)
  BY DEF RouteInv
<1>2. "retired" \in Statuses /\ "active" \in Statuses  BY DEF Statuses
<1>3. Queuing(R, Q, "retired")  BY <1>1, <1>2, QueuedFields
<1>4. sel # None  BY NullAssumption
<1>5. UpdatesFit(Q)  BY <1>1, <1>2, <1>3, QueuedFits DEF Room
<1>6. Ordered(Q) /\ R.revision <= Q.revision /\ Q.revision <= R.revision + 1
      /\ \A u \in Q.updates : u \in R.updates \/ u = News(R, "retired")
  BY <1>1, <1>2, <1>3, QueuedOrder
<1>7. Q \in Route /\ Q.seen = R.seen /\ Q.newest = R.newest  BY <1>3 DEF Queuing
<1>8. Bound(R, sel) = N  BY DEF Bound
<1> HIDE DEF Q
<1>9. M \in Route /\ M.active = sel /\ M.pending = None /\ M.updates = Q.updates
      /\ M.revision = Q.revision /\ M.seen = R.seen /\ M.newest = R.newest
  BY <1>7 DEF Route, Selected
<1>10. ~QueueFails(M)  BY DEF Q
<1> HIDE DEF M
<1>11. Queuing(M, N, "active")  BY <1>2, <1>9, QueuedFields
<1> HIDE DEF N
<1>12. UpdatesFit(M) /\ Ordered(M)  BY <1>5, <1>6, <1>9 DEF UpdatesFit, Ordered
<1>13. UpdatesFit(N) /\ ~QueueFails(N)  BY <1>2, <1>9, <1>10, <1>11, <1>12, QueuedFits
<1>14. Ordered(N)  BY <1>2, <1>9, <1>11, <1>12, QueuedOrder
<1>15. N.revision = M.revision + 1 /\ N.updates = Others(M) \cup {News(M, "active")}
  BY <1>4, <1>9, <1>11 DEF Queuing
<1>16. N \in Route /\ N.active = sel /\ N.pending = None /\ N.seen = R.seen
       /\ N.newest = R.newest
  BY <1>9, <1>11 DEF Queuing
<1>17. R.revision \in Nat /\ Q.revision \in Nat  BY <1>1, <1>7, RouteFields
<1>18. R.revision < N.revision /\ N.revision <= R.revision + 2
  BY <1>6, <1>9, <1>15, <1>17
<1>19. Room(N)
  <2>1. R.revision + 2 <= MaxRevision  BY <1>1 DEF Room
  <2>2. N.revision \in Nat  BY <1>16, RouteFields
  <2>3. N.revision <= MaxRevision  BY <1>17, <1>18, <2>1, <2>2, LimitTypes
  <2>4. QED BY <1>16, <2>3 DEF Room
<1>20. SeenFit(N) /\ Times(N)
  <2>1. sel.proved = R.newest  BY <1>1 DEF Times
  <2>2. R.newest \in Int  BY <1>1, RouteFields
  <2>3. QED BY <1>1, <1>16, <2>1, <2>2 DEF SeenFit, Times
<1>21. RouteInv(N)  BY <1>13, <1>14, <1>16, <1>19, <1>20 DEF RouteInv
<1>22. News(M, "active").sel = sel /\ News(M, "active").revision = Q.revision + 1
       /\ News(M, "active").status = "active"
  BY <1>9 DEF News
<1>23. News(R, "retired").sel = R.active /\ News(R, "retired").revision = R.revision + 1
       /\ News(R, "retired").status = "retired"
  BY DEF News
<1>24. R.active = None => Q = R  BY <1>3 DEF Queuing
<1>25. \A u \in N.updates : u \in R.updates \/ u = News(M, "active")
                            \/ (R.active # None /\ u = News(R, "retired"))
  <2>1. \A u \in N.updates : u \in Q.updates \/ u = News(M, "active")
    BY <1>9, <1>15 DEF Others
  <2>2. ASSUME NEW u \in Q.updates
        PROVE  u \in R.updates \/ (R.active # None /\ u = News(R, "retired"))
    <3>1. CASE R.active = None  BY <1>24, <3>1
    <3>2. CASE R.active # None  BY <1>6, <3>2
    <3>3. QED BY <3>1, <3>2
  <2>3. QED BY <2>1, <2>2
<1>26. StandsAs(N, sel, "active")  BY <1>16 DEF StandsAs
<1>27. R.active # None => StandsAs(N, R.active, "retired")  BY <1>16 DEF StandsAs
<1>28. Evolves(R, N)
  <2>1. ASSUME NEW u \in N.updates, u \notin R.updates
        PROVE  u.revision > R.revision /\ StandsAs(N, u.sel, u.status)
    <3>1. CASE u = News(M, "active")  BY <1>6, <1>17, <1>22, <1>26, <3>1
    <3>2. CASE R.active # None /\ u = News(R, "retired")
      BY <1>17, <1>23, <1>27, <3>2
    <3>3. QED BY <1>25, <2>1, <3>1, <3>2
  <2>2. R.revision <= N.revision  BY <1>6, <1>9, <1>15, <1>17
  <2>3. QED BY <2>1, <2>2 DEF Evolves
<1>29. Announced(R, N, sel)  BY <1>6, <1>15, <1>17, <1>22 DEF Announced
<1>30. Lost(R, Q) = {} /\ (R.active # None => Announced(R, Q, R.active))
  BY <1>1, <1>2, <1>3, QueuedKeeps
<1>31. Q.updates \subseteq N.updates
  BY <1>6, <1>9, <1>15, <1>23, <1>24 DEF Others
<1>32. Lost(R, N) = {}  BY <1>30, <1>31 DEF Lost
<1>33. ASSUME NEW s \in Selection PROVE Announced(R, N, s) \/ Follows(R, N, s)
  <2>1. CASE s = sel  BY <1>29, <2>1
  <2>2. CASE s = R.active
    <3>1. R.active # None  BY <2>2, NullAssumption
    <3>2. QED BY <1>30, <1>31, <2>2, <3>1 DEF Announced
  <2>3. CASE s # sel /\ s # R.active  BY <1>16, <2>3 DEF Follows, StandsAs
  <2>4. QED BY <2>1, <2>2, <2>3
<1>34. Keeps(R, N)  BY <1>32, <1>33 DEF Keeps
<1>35. \A u \in N.updates : u \in R.updates \/ u.sel = sel
                            \/ (R.active # None /\ u.sel = R.active)
  BY <1>22, <1>23, <1>25
<1>36. QED BY <1>8, <1>16, <1>18, <1>21, <1>28, <1>29, <1>34, <1>35

(* A receipt takes away the one update it names ...                        *)
Thinned(R, N, u) ==
  /\ RouteInv(N) /\ Evolves(R, N)
  /\ \A sel \in Selection : Follows(R, N, sel)
  /\ N.active = R.active /\ N.pending = R.pending /\ N.seen = R.seen
  /\ N.revision = R.revision /\ N.updates \subseteq R.updates
  /\ \A v \in Lost(R, N) : v.sel.gen = u.sel.gen /\ v.revision = u.revision

(* ... and nothing else.                                                   *)
LEMMA AcknowledgedStep ==
  ASSUME NEW R, RouteInv(R), NEW u
  PROVE  Thinned(R, Acknowledged(R, u), u)
<1> DEFINE us == {x \in R.updates : x.sel.gen # u.sel.gen \/ x.revision # u.revision}
           N == [R EXCEPT !.updates = us]
<1>1. R \in Route  BY DEF RouteInv
<1>2. us \in SUBSET Update /\ us \subseteq R.updates  BY <1>1, RouteFields
<1>3. Acknowledged(R, u) = N  BY DEF Acknowledged
<1>4. \A x \in R.updates : x \in us \/ (x.sel.gen = u.sel.gen /\ x.revision = u.revision)
  OBVIOUS
<1> HIDE DEF us
<1>5. N \in Route /\ N.active = R.active /\ N.pending = R.pending /\ N.seen = R.seen
      /\ N.revision = R.revision /\ N.newest = R.newest /\ N.updates = us
  BY <1>1, <1>2 DEF Route
<1> HIDE DEF N
<1>6. RouteInv(N) /\ Evolves(R, N)  BY <1>2, <1>5, ThinStep
<1>7. \A sel \in Selection : Follows(R, N, sel)  BY <1>5 DEF Follows, StandsAs
<1>8. \A v \in Lost(R, N) : v.sel.gen = u.sel.gen /\ v.revision = u.revision
  BY <1>4, <1>5 DEF Lost
<1>9. QED BY <1>2, <1>3, <1>5, <1>6, <1>7, <1>8 DEF Thinned

(* invalidate_identity touches only what concerns the lost device, except  *)
(* that an open proof may end without a release.                           *)
LEMMA InvalidatedStep ==
  ASSUME NEW R, RouteInv(R), NEW s
  PROVE  LET N == Invalidated(R, s) IN
         /\ RouteInv(N) /\ Evolves(R, N)
         /\ MaxResets > 0 => \A sel \in Selection : OfDevice(sel, s) \/ Follows(R, N, sel)
         /\ N.active = R.active \/ (N.active = None /\ R.active # None /\ OfDevice(R.active, s))
         /\ N.pending = None \/ N.pending = R.pending
         /\ N.seen = R.seen /\ N.revision = R.revision /\ N.updates \subseteq R.updates
         /\ \A v \in Lost(R, N) : OfDevice(v.sel, s)
<1> DEFINE us == {u \in R.updates : ~OfDevice(u.sel, s)}
           a == IF R.active # None /\ OfDevice(R.active, s) THEN None ELSE R.active
           p == IF R.pending # None /\ R.pending.hub = s.hub
                   /\ R.pending.identity \in {None, s.identity}
                THEN None ELSE R.pending
           N == [R EXCEPT !.active = a, !.pending = p, !.updates = us]
<1>1. R \in Route  BY DEF RouteInv
<1>2. us \in SUBSET Update /\ us \subseteq R.updates  BY <1>1, RouteFields
<1>3. a \in Selection \cup {None} /\ p \in Pending \cup {None}  BY <1>1, RouteFields
<1>4. Invalidated(R, s) = N  BY DEF Invalidated
<1>5. \A x \in R.updates : x \in us \/ OfDevice(x.sel, s)  OBVIOUS
<1>6. a = R.active \/ (a = None /\ R.active # None /\ OfDevice(R.active, s))  OBVIOUS
<1>7. p = None \/ p = R.pending  OBVIOUS
<1> HIDE DEF us, a, p
<1>8. N \in Route /\ N.active = a /\ N.pending = p /\ N.seen = R.seen
      /\ N.revision = R.revision /\ N.newest = R.newest /\ N.updates = us
  BY <1>1, <1>2, <1>3 DEF Route
<1> HIDE DEF N
<1>9. RouteInv(N) /\ Evolves(R, N)  BY <1>2, <1>6, <1>7, <1>8, ThinStep
<1>10. ASSUME MaxResets > 0, NEW sel \in Selection, ~OfDevice(sel, s)
       PROVE  Follows(R, N, sel)
  <2>1. CASE R.active = sel
    <3>1. N.active = sel  BY <1>6, <1>8, <1>10, <2>1
    <3>2. QED BY <1>7, <1>8, <1>10, <2>1, <3>1 DEF Follows, StandsAs
  <2>2. CASE R.active # sel
    <3>1. N.active # sel  BY <1>6, <1>8, <2>2, NullAssumption
    <3>2. QED BY <2>2, <3>1 DEF Follows, StandsAs
  <2>3. QED BY <2>1, <2>2
<1>11. \A v \in Lost(R, N) : OfDevice(v.sel, s)  BY <1>5, <1>8 DEF Lost
<1>12. QED BY <1>2, <1>4, <1>6, <1>7, <1>8, <1>9, <1>10, <1>11

-----------------------------------------------------------------------------
(* The records of the tasks and of the homes.                              *)
Answer == [status: {"awaiting", "bound", "refused"}, identity: 0..MaxResets,
           confirmed: (0..MaxTime) \cup {None}, until: Nat]

ProofWorker == [pc: {"proof"}, r: Routes, pending: Pending, deadline: Nat]

AnsweredWorker ==
  [pc: {"proofAnswered"}, r: Routes, pending: Pending, deadline: Nat, answer: Answer]

UpdateWorker == [pc: {"update"}, r: Routes, update: Update]

ReceiptWorker == [pc: {"updateAnswered"}, r: Routes, update: Update,
                  answer: {"applied", "refused", "stale"}]

Worker ==
  {Idle, AfterProof} \cup ProofWorker \cup AnsweredWorker \cup UpdateWorker \cup ReceiptWorker

Sending == [pc: {"outbox", "queued", "asking", "allowed", "sending", "changed"},
            r: Routes, sel: Selection]

Outgoing == {Free} \cup Sending

Session == [phone: Routes \cup {None}, confirmed: (0..MaxTime) \cup {None}, revoked: BOOLEAN]

Made == [sel: Selection, r: Routes]

Heard == [revision: Nat, status: Statuses]

(* A task awaits the answer to a proof, or to an update.                   *)
Asking(w)  == w.pc \in {"proof", "proofAnswered"}

Telling(w) == w.pc \in {"update", "updateAnswered"}

(* Gone, for given certificates and sessions.                              *)
GoneAs(sel, I, S) == I[sel.hub] # sel.identity \/ S[sel.binding].revoked

(* A selection is the one that its generation was made for, on its route.  *)
MadeAs(sel, r, M) == sel.gen \in 1..Len(M) /\ M[sel.gen].sel = sel /\ M[sel.gen].r = r

(* begin still knows the token of a proof, and so refuses a replay.        *)
Remembered(R, p) == [id |-> p.id, until |-> p.occurred + SeenLife] \in R.seen

(* An open proof is remembered for as long as a replay of it would pass.   *)
ProofKept(R, n) ==
  R.pending # None /\ n < R.pending.occurred + SeenLife => Remembered(R, R.pending)

(* A poll that is awaited: its deadline comes before its token is          *)
(* forgotten, so the token cannot have been accepted again, and a pending  *)
(* proof with that token is the one that was polled.                       *)
Asked(w, R, n, I) ==
  /\ n <= w.deadline /\ w.deadline < w.pending.occurred + SeenLife
  /\ Remembered(R, w.pending)
  /\ SameProof(R, w.pending) => w.pending.occurred = R.pending.occurred
  /\ w.pc = "proofAnswered" => w.answer.identity <= I[w.pending.hub]

(* A home has not heard more of a generation than the queue holds.         *)
Agrees(h, u) == h.revision <= u.revision /\ (h.revision = u.revision => h.status = u.status)

(* An update in flight: the queue holds nothing older of its generation;   *)
(* if the queue holds nothing, the home has heard it or is gone; a receipt *)
(* tells the truth.                                                        *)
Told(w, R, h, gone) ==
  LET u == w.update IN
  /\ u.revision <= R.revision
  /\ \A x \in R.updates : x.sel.gen = u.sel.gen
        => x.revision >= u.revision /\ (x.revision = u.revision => x = u)
  /\ (\A x \in R.updates : x.sel.gen # u.sel.gen) => gone \/ h.revision >= u.revision
  /\ w.pc = "updateAnswered" => /\ w.answer = "refused" => gone
                                /\ w.answer = "applied" => h.revision >= u.revision

(* A task of the binding loop, a delivery, a route and a selection in good *)
(* order.                                                                  *)
WorkerGood(w, Rs, M, n, H, I, S) ==
  /\ w \in Worker
  /\ Asking(w) => Asked(w, Rs[w.r], n, I)
  /\ Telling(w) => /\ MadeAs(w.update.sel, w.r, M)
                   /\ Told(w, Rs[w.r], H[w.update.sel.gen], GoneAs(w.update.sel, I, S))

OutGood(o, M, I) ==
  /\ o \in Outgoing
  /\ o.pc # "free" => MadeAs(o.sel, o.r, M)
  /\ o.pc = "changed" => I[o.sel.hub] # o.sel.identity

RouteGood(r, R, M, n, H) ==
  /\ RouteInv(R) /\ ProofKept(R, n)
  /\ R.active # None => MadeAs(R.active, r, M)
  /\ \A u \in R.updates : MadeAs(u.sel, r, M) /\ Agrees(H[u.sel.gen], u)

Reports(R, sel, h) ==
  /\ \A u \in R.updates : u.sel.gen = sel.gen => StandsAs(R, sel, u.status)
  /\ (\A u \in R.updates : u.sel.gen # sel.gen) => StandsAs(R, sel, h.status)

SelectionGood(i, m, R, h, I, S) ==
  /\ m.sel.gen = i /\ m.sel.identity <= I[m.sel.hub]
  /\ h.revision <= R.revision
  /\ GoneAs(m.sel, I, S) \/ Reports(R, m.sel, h)

(* Every selection used up a revision of its route: the revisions number   *)
(* the selections, so the generations do not run out.                      *)
Numbering(f, M, Rs) ==
  /\ \A i \in 1..Len(M) : f[i] <= Rs[M[i].r].revision
  /\ \A i, j \in 1..Len(M) : M[i].r = M[j].r /\ f[i] = f[j] => i = j

Numbered(M, Rs) == \E f \in [1..Len(M) -> 1..MaxRevision] : Numbering(f, M, Rs)

(* The shapes of the variables.                                            *)
Shapes ==
  /\ clock \in 0..MaxTime /\ route \in [Routes -> Route] /\ made \in Seq(Made)
  /\ worker \in [Gates -> Worker] /\ out \in [Deliveries -> Outgoing]
  /\ identity \in [Hubs -> 0..MaxResets] /\ session \in [Tokens -> Session]
  /\ heard \in [Generations -> Heard]

(* The inductive invariant.                                                *)
FleetInv ==
  /\ Shapes
  /\ Numbered(made, route)
  /\ \A i \in 1..Len(made) :
       SelectionGood(i, made[i], route[made[i].r], heard[i], identity, session)
  /\ \A r \in Routes : RouteGood(r, route[r], made, clock, heard)
  /\ \A g \in Gates : WorkerGood(worker[g], route, made, clock, heard, identity, session)
  /\ \A d \in Deliveries : OutGood(out[d], made, identity)
  /\ \A i \in Generations : i > Len(made) => heard[i].revision = 0

-----------------------------------------------------------------------------
(* What a step may do to the proof of a route: keep it, drop it, or begin  *)
(* one with a token that no remembered proof has.                          *)
ProofMoves(R, N, n) ==
  /\ \A e \in R.seen : e.until > n => e \in N.seen
  /\ N.pending # None =>
       \/ /\ R.pending # None /\ N.pending.id = R.pending.id
          /\ N.pending.occurred = R.pending.occurred
       \/ /\ Remembered(N, N.pending)
          /\ \A e \in R.seen : e.until > n => e.id # N.pending.id

(* An update is taken away only when its home heard it or is gone.         *)
Excused(R, N, H, I, S) ==
  \A v \in Lost(R, N) : GoneAs(v.sel, I, S) \/ H[v.sel.gen].revision >= v.revision

(* The fields of a task have their types.                                  *)
LEMMA WorkerFields ==
  ASSUME NEW w \in Worker
  PROVE  /\ Asking(w) => /\ w.r \in Routes /\ w.pending \in Pending /\ w.deadline \in Nat
                         /\ w \in ProofWorker \cup AnsweredWorker
         /\ Telling(w) => /\ w.r \in Routes /\ w.update \in Update
                          /\ w \in UpdateWorker \cup ReceiptWorker
         /\ w.pc = "proofAnswered" => w.answer \in Answer
         /\ ~(Asking(w) /\ Telling(w))
<1>1. w = Idle \/ w = AfterProof \/ w \in ProofWorker \/ w \in AnsweredWorker
      \/ w \in UpdateWorker \/ w \in ReceiptWorker
  BY DEF Worker
<1>2. CASE w = Idle  BY <1>2 DEF Idle, Asking, Telling
<1>3. CASE w = AfterProof  BY <1>3 DEF AfterProof, Asking, Telling
<1>4. CASE w \in ProofWorker  BY <1>4 DEF ProofWorker, Asking, Telling
<1>5. CASE w \in AnsweredWorker  BY <1>5 DEF AnsweredWorker, Asking, Telling
<1>6. CASE w \in UpdateWorker  BY <1>6 DEF UpdateWorker, Asking, Telling
<1>7. CASE w \in ReceiptWorker  BY <1>7 DEF ReceiptWorker, Asking, Telling
<1>8. QED BY <1>1, <1>2, <1>3, <1>4, <1>5, <1>6, <1>7

(* A poll in flight stays good through every change of its route.          *)
LEMMA AskedFollows ==
  ASSUME NEW w \in Worker, NEW R, NEW N, NEW n \in Nat, NEW I, Asking(w), Asked(w, R, n, I),
         ProofMoves(R, N, n)
  PROVE  Asked(w, N, n, I)
<1>1. w.pending \in Pending /\ w.deadline \in Nat  BY WorkerFields
<1>2. w.pending.occurred \in Int  BY <1>1 DEF Pending
<1>3. SeenLife \in Int  BY LimitTypes DEF SeenLife
<1> DEFINE e == [id |-> w.pending.id, until |-> w.pending.occurred + SeenLife]
<1>4. e \in R.seen  BY DEF Asked, Remembered
<1>5. n <= w.deadline /\ w.deadline < w.pending.occurred + SeenLife  BY DEF Asked
<1>6. w.pending.occurred + SeenLife > n  BY <1>1, <1>2, <1>3, <1>5
<1>7. e.until > n /\ e.id = w.pending.id  BY <1>6
<1> HIDE DEF e
<1>8. e \in N.seen  BY <1>4, <1>7 DEF ProofMoves
<1>9. Remembered(N, w.pending)  BY <1>8 DEF e, Remembered
<1>10. ASSUME SameProof(N, w.pending)
       PROVE  w.pending.occurred = N.pending.occurred
  <2>1. N.pending # None /\ N.pending.id = w.pending.id  BY <1>10 DEF SameProof
  <2>2. R.pending # None /\ N.pending.id = R.pending.id
        /\ N.pending.occurred = R.pending.occurred
    BY <1>4, <1>7, <2>1 DEF ProofMoves
  <2>3. QED BY <2>1, <2>2 DEF Asked, SameProof
<1>11. QED BY <1>5, <1>9, <1>10 DEF Asked

(* So does an update in flight.                                            *)
LEMMA ToldFollows ==
  ASSUME NEW w \in Worker, NEW r, NEW R, NEW N \in Route, NEW M, NEW H, NEW I, NEW S,
         Telling(w), RouteInv(R), Evolves(R, N), Excused(R, N, H, I, S),
         H[w.update.sel.gen].revision \in Nat,
         \A u \in R.updates : MadeAs(u.sel, r, M),
         MadeAs(w.update.sel, r, M),
         Told(w, R, H[w.update.sel.gen], GoneAs(w.update.sel, I, S))
  PROVE  Told(w, N, H[w.update.sel.gen], GoneAs(w.update.sel, I, S))
<1> DEFINE u == w.update
           h == H[u.sel.gen]
           gone == GoneAs(u.sel, I, S)
<1>1. R \in Route  BY DEF RouteInv
<1>2. R.revision \in Nat /\ N.revision \in Nat  BY <1>1, RouteFields
<1>3. u \in Update /\ u.revision \in Nat  BY WorkerFields DEF Update
<1>4. \A x \in R.updates \cup N.updates : x.revision \in Nat
  BY <1>1, RouteFields DEF Update
<1>5. u.revision <= R.revision  BY DEF Told
<1>6. R.revision <= N.revision /\ \A x \in N.updates : x \in R.updates \/ x.revision > R.revision
  BY DEF Evolves
<1>7. u.revision <= N.revision  BY <1>2, <1>3, <1>5, <1>6
<1>8. \A x \in R.updates : x.sel.gen = u.sel.gen
        => x.revision >= u.revision /\ (x.revision = u.revision => x = u)
  BY DEF Told
<1>9. \A x \in N.updates : x.sel.gen = u.sel.gen
        => x.revision >= u.revision /\ (x.revision = u.revision => x = u)
  <2> SUFFICES ASSUME NEW x \in N.updates, x.sel.gen = u.sel.gen
               PROVE  x.revision >= u.revision /\ (x.revision = u.revision => x = u)
    OBVIOUS
  <2>1. CASE x \in R.updates  BY <1>8, <2>1
  <2>2. CASE x.revision > R.revision  BY <1>2, <1>3, <1>4, <1>5, <2>2
  <2>3. QED BY <1>6, <2>1, <2>2
<1>10. ASSUME \A x \in N.updates : x.sel.gen # u.sel.gen
       PROVE  gone \/ h.revision >= u.revision
  <2>1. CASE \A x \in R.updates : x.sel.gen # u.sel.gen  BY <2>1 DEF Told
  <2>2. ASSUME NEW x \in R.updates, x.sel.gen = u.sel.gen
        PROVE  gone \/ h.revision >= u.revision
    <3>1. x \in Lost(R, N)  BY <1>10, <2>2 DEF Lost
    <3>2. x.sel = u.sel  BY <2>2 DEF MadeAs
    <3>3. x.revision >= u.revision  BY <1>8, <2>2
    <3>4. GoneAs(x.sel, I, S) \/ H[x.sel.gen].revision >= x.revision
      BY <3>1 DEF Excused
    <3>5. CASE GoneAs(x.sel, I, S)  BY <3>2, <3>5
    <3>6. CASE H[x.sel.gen].revision >= x.revision
      <4>1. h.revision >= x.revision  BY <2>2, <3>6
      <4>2. x.revision \in Nat /\ h.revision \in Nat  BY <1>4
      <4> HIDE DEF h, u
      <4>3. QED BY <1>3, <3>3, <4>1, <4>2
    <3>7. QED BY <3>4, <3>5, <3>6
  <2>3. QED BY <2>1, <2>2
<1>11. w.pc = "updateAnswered" => /\ w.answer = "refused" => gone
                                  /\ w.answer = "applied" => h.revision >= u.revision
  BY DEF Told
<1>12. QED BY <1>7, <1>9, <1>10, <1>11 DEF Told

(* A home that is told of a step is told the truth.                        *)
LEMMA AnnouncedReports ==
  ASSUME NEW R, NEW N, NEW sel, NEW h, RouteInv(R), RouteInv(N), Evolves(R, N),
         Announced(R, N, sel)
  PROVE  Reports(N, sel, h)
<1>1. PICK v \in N.updates : v.sel = sel /\ v.revision > R.revision  BY DEF Announced
<1>2. R \in Route /\ N \in Route /\ Ordered(R) /\ Ordered(N)  BY DEF RouteInv
<1>3. R.revision \in Nat /\ v.revision \in Nat  BY <1>2, RouteFields DEF Update
<1>4. v \notin R.updates  BY <1>1, <1>2, <1>3 DEF Ordered
<1>5. StandsAs(N, sel, v.status)  BY <1>1, <1>4 DEF Evolves
<1>6. \A u \in N.updates : u.sel.gen = sel.gen => u = v  BY <1>1, <1>2 DEF Ordered
<1>7. QED BY <1>1, <1>5, <1>6 DEF Reports

(* A home that knows, or is about to be told, the truth still is after a   *)
(* step.                                                                   *)
LEMMA ReportsFollow ==
  ASSUME NEW R, NEW N, NEW r, NEW M, NEW sel, NEW H, NEW I, NEW S,
         RouteInv(R), RouteInv(N), Evolves(R, N), Excused(R, N, H, I, S),
         H[sel.gen] \in Heard,
         MadeAs(sel, r, M), \A u \in R.updates : MadeAs(u.sel, r, M) /\ Agrees(H[u.sel.gen], u),
         \A u \in N.updates : u.sel.gen = sel.gen => u.sel = sel,
         Announced(R, N, sel) \/ Follows(R, N, sel), ~GoneAs(sel, I, S),
         Reports(R, sel, H[sel.gen])
  PROVE  Reports(N, sel, H[sel.gen])
<1>1. CASE Announced(R, N, sel)  BY <1>1, AnnouncedReports
<1>2. CASE ~Announced(R, N, sel)
  <2>1. Follows(R, N, sel)  BY <1>2
  <2>2. R \in Route /\ N \in Route  BY DEF RouteInv
  <2>3. \A u \in R.updates \cup N.updates : u.revision \in Nat /\ u.status \in Statuses
    BY <2>2, RouteFields DEF Update
  <2>4. H[sel.gen].revision \in Nat /\ H[sel.gen].status \in Statuses  BY DEF Heard
  <2>5. ASSUME NEW u \in N.updates, u.sel.gen = sel.gen PROVE StandsAs(N, sel, u.status)
    <3>1. CASE u \in R.updates
      <4>1. StandsAs(R, sel, u.status)  BY <2>5, <3>1 DEF Reports
      <4>2. QED BY <2>1, <2>3, <4>1 DEF Follows
    <3>2. CASE u \notin R.updates  BY <2>5, <3>2 DEF Evolves
    <3>3. QED BY <3>1, <3>2
  <2>6. ASSUME \A u \in N.updates : u.sel.gen # sel.gen
        PROVE  StandsAs(N, sel, H[sel.gen].status)
    <3>1. StandsAs(R, sel, H[sel.gen].status)
      <4>1. CASE \A u \in R.updates : u.sel.gen # sel.gen  BY <4>1 DEF Reports
      <4>2. ASSUME NEW u \in R.updates, u.sel.gen = sel.gen
            PROVE  StandsAs(R, sel, H[sel.gen].status)
        <5>1. u \in Lost(R, N)  BY <2>6, <4>2 DEF Lost
        <5>2. u.sel = sel  BY <4>2 DEF MadeAs
        <5>3. H[sel.gen].revision >= u.revision  BY <5>1, <5>2 DEF Excused
        <5>4. H[sel.gen].revision <= u.revision
              /\ (H[sel.gen].revision = u.revision => H[sel.gen].status = u.status)
          BY <4>2, <5>2 DEF Agrees
        <5>5. H[sel.gen].revision = u.revision  BY <2>3, <2>4, <5>3, <5>4
        <5>6. StandsAs(R, sel, u.status)  BY <4>2 DEF Reports
        <5>7. QED BY <5>4, <5>5, <5>6
      <4>3. QED BY <4>1, <4>2
    <3>2. QED BY <2>1, <2>4, <3>1 DEF Follows
  <2>7. QED BY <2>5, <2>6 DEF Reports
<1>3. QED BY <1>1, <1>2

(* Everything that a step of the directory does to one route.              *)
Moves(r, R, N, M, L, n, H, I, S) ==
  /\ RouteInv(N) /\ Evolves(R, N) /\ ProofMoves(R, N, n) /\ Excused(R, N, H, I, S)
  /\ \A sel \in Selection :
       MadeAs(sel, r, M) => GoneAs(sel, I, S) \/ Announced(R, N, sel) \/ Follows(R, N, sel)
  /\ N.active # None => MadeAs(N.active, r, L)
  /\ \A u \in N.updates : MadeAs(u.sel, r, L)

(* Selections are only appended.                                           *)
Longer(M, L) == Len(M) <= Len(L) /\ \A i \in 1..Len(M) : L[i] = M[i]

(* A selection stays what it was made as.                                  *)
LEMMA MadeStays ==
  ASSUME NEW M \in Seq(Made), NEW L \in Seq(Made), Longer(M, L), NEW sel, NEW r, MadeAs(sel, r, M)
  PROVE  MadeAs(sel, r, L)
<1>1. Len(M) \in Nat /\ Len(L) \in Nat  BY LenProperties
<1>2. sel.gen \in 1..Len(M) /\ M[sel.gen].sel = sel /\ M[sel.gen].r = r  BY DEF MadeAs
<1>3. Len(M) <= Len(L) /\ L[sel.gen] = M[sel.gen]  BY <1>2 DEF Longer
<1>4. sel.gen \in 1..Len(L)  BY <1>1, <1>2, <1>3
<1>5. QED BY <1>2, <1>3, <1>4 DEF MadeAs

(* The parts of the invariant, each through such a step.                   *)
LEMMA RouteMoves ==
  ASSUME NEW M \in Seq(Made), NEW L \in Seq(Made), Longer(M, L), NEW n \in Nat,
         NEW H \in [Generations -> Heard], NEW I, NEW S, NEW Rs, NEW r \in Routes,
         NEW N, Moves(r, Rs[r], N, M, L, n, H, I, S), RouteGood(r, Rs[r], M, n, H),
         \A i \in 1..Len(M) : H[i].revision <= Rs[M[i].r].revision,
         \A i \in Generations : i > Len(M) => H[i].revision = 0
  PROVE  RouteGood(r, N, L, n, H)
<1> DEFINE R == Rs[r]
<1>0. RouteInv(R) /\ ProofKept(R, n)
      /\ (\A u \in R.updates : MadeAs(u.sel, r, M) /\ Agrees(H[u.sel.gen], u))
  BY DEF RouteGood
<1>1. RouteInv(N) /\ Evolves(R, N) /\ ProofMoves(R, N, n)
      /\ (N.active # None => MadeAs(N.active, r, L))
      /\ (\A u \in N.updates : MadeAs(u.sel, r, L))
  BY DEF Moves
<1>2. R \in Route /\ N \in Route /\ R.revision \in Nat  BY <1>0, <1>1, RouteFields DEF RouteInv
<1>3. ProofKept(N, n)
  <2> SUFFICES ASSUME N.pending # None, n < N.pending.occurred + SeenLife
               PROVE  Remembered(N, N.pending)
    BY DEF ProofKept
  <2>1. CASE R.pending # None /\ N.pending.id = R.pending.id
             /\ N.pending.occurred = R.pending.occurred
    <3> DEFINE e == [id |-> R.pending.id, until |-> R.pending.occurred + SeenLife]
    <3>1. e \in R.seen  BY <1>0, <2>1 DEF ProofKept, Remembered
    <3>2. N.pending \in Pending /\ N.pending.occurred \in Int
      BY <1>2, RouteFields DEF Pending
    <3>3. SeenLife \in Int  BY LimitTypes DEF SeenLife
    <3>4. R.pending.occurred + SeenLife > n  BY <2>1, <3>2, <3>3
    <3>5. e.until > n  BY <3>4
    <3> HIDE DEF e
    <3>6. e \in N.seen  BY <1>1, <3>1, <3>5 DEF ProofMoves
    <3>7. QED BY <2>1, <3>6 DEF Remembered, e
  <2>2. QED BY <1>1, <2>1 DEF ProofMoves
<1>4. ASSUME NEW u \in N.updates PROVE Agrees(H[u.sel.gen], u)
  <2>1. CASE u \in R.updates  BY <1>0, <2>1
  <2>2. CASE u \notin R.updates
    <3>1. u.revision > R.revision  BY <1>1, <2>2 DEF Evolves
    <3>2. u \in Update  BY <1>2, RouteFields
    <3>3. u.revision \in Nat /\ u.sel \in Selection /\ u.sel.gen \in Generations
      BY <3>2 DEF Update, Selection
    <3>4. MadeAs(u.sel, r, L)  BY <1>1
    <3>5. H[u.sel.gen] \in Heard /\ H[u.sel.gen].revision \in Nat
      BY <3>3 DEF Heard
    <3>6. Len(M) \in Nat /\ Len(L) \in Nat  BY LenProperties
    <3>7. H[u.sel.gen].revision <= R.revision
      <4>1. u.sel.gen \in 1..Len(L)  BY <3>4 DEF MadeAs
      <4>2. CASE u.sel.gen \in 1..Len(M)
        <5>1. M[u.sel.gen].r = r  BY <3>4, <4>2 DEF MadeAs, Longer
        <5>2. QED BY <4>2, <5>1
      <4>3. CASE u.sel.gen \notin 1..Len(M)
        <5>1. u.sel.gen > Len(M)  BY <3>6, <4>1, <4>3
        <5>2. H[u.sel.gen].revision = 0  BY <3>3, <5>1
        <5>3. QED BY <1>2, <5>2
      <4>4. QED BY <4>2, <4>3
    <3>8. H[u.sel.gen].revision < u.revision  BY <1>2, <3>1, <3>3, <3>5, <3>7
    <3>9. QED BY <3>3, <3>5, <3>8 DEF Agrees
  <2>3. QED BY <2>1, <2>2
<1>5. QED BY <1>1, <1>3, <1>4 DEF RouteGood

(* The tasks.                                                              *)
LEMMA WorkerMoves ==
  ASSUME NEW M \in Seq(Made), NEW L \in Seq(Made), Longer(M, L), NEW n \in Nat,
         NEW H \in [Generations -> Heard], NEW I, NEW S, NEW Rs, NEW Ns,
         \A r \in Routes : Moves(r, Rs[r], Ns[r], M, L, n, H, I, S),
         \A r \in Routes : RouteGood(r, Rs[r], M, n, H),
         NEW w, WorkerGood(w, Rs, M, n, H, I, S)
  PROVE  WorkerGood(w, Ns, L, n, H, I, S)
<1>1. w \in Worker  BY DEF WorkerGood
<1>2. CASE Asking(w)
  <2>1. w.r \in Routes /\ ~Telling(w)  BY <1>1, <1>2, WorkerFields
  <2>2. Asked(w, Rs[w.r], n, I)  BY <1>2 DEF WorkerGood
  <2>3. ProofMoves(Rs[w.r], Ns[w.r], n)  BY <2>1 DEF Moves
  <2>4. Asked(w, Ns[w.r], n, I)  BY <1>1, <1>2, <2>2, <2>3, AskedFollows
  <2>5. QED BY <1>1, <2>1, <2>4 DEF WorkerGood
<1>3. CASE Telling(w)
  <2>1. w.r \in Routes /\ ~Asking(w) /\ w.update \in Update  BY <1>1, <1>3, WorkerFields
  <2> DEFINE r == w.r
             u == w.update
  <2>2. u.sel.gen \in Generations  BY <2>1 DEF Update, Selection
  <2>3. H[u.sel.gen].revision \in Nat  BY <2>2 DEF Heard
  <2>4. MadeAs(u.sel, r, M) /\ Told(w, Rs[r], H[u.sel.gen], GoneAs(u.sel, I, S))
    BY <1>3 DEF WorkerGood
  <2>5. RouteInv(Rs[r]) /\ \A v \in Rs[r].updates : MadeAs(v.sel, r, M)
    BY <2>1 DEF RouteGood
  <2>6. RouteInv(Ns[r]) /\ Evolves(Rs[r], Ns[r]) /\ Excused(Rs[r], Ns[r], H, I, S)
    BY <2>1 DEF Moves
  <2>7. Ns[r] \in Route  BY <2>6 DEF RouteInv
  <2>8. Told(w, Ns[r], H[u.sel.gen], GoneAs(u.sel, I, S))
    BY <1>1, <1>3, <2>3, <2>4, <2>5, <2>6, <2>7, ToldFollows
  <2>9. MadeAs(u.sel, r, L)  BY <2>4, MadeStays
  <2>10. QED BY <1>1, <2>1, <2>8, <2>9 DEF WorkerGood
<1>4. QED BY <1>1, <1>2, <1>3 DEF WorkerGood

(* The selections made so far.                                             *)
LEMMA SelectionMoves ==
  ASSUME NEW M \in Seq(Made), NEW L \in Seq(Made), Longer(M, L), NEW n \in Nat,
         NEW H \in [Generations -> Heard], NEW I, NEW S, NEW Rs, NEW Ns,
         \A r \in Routes : Moves(r, Rs[r], Ns[r], M, L, n, H, I, S),
         \A r \in Routes : RouteGood(r, Rs[r], M, n, H),
         NEW i \in 1..Len(M), SelectionGood(i, M[i], Rs[M[i].r], H[i], I, S)
  PROVE  SelectionGood(i, L[i], Ns[L[i].r], H[i], I, S)
<1> DEFINE m == M[i]
           r == m.r
           sel == m.sel
           R == Rs[r]
           N == Ns[r]
<1>1. L[i] = m  BY DEF Longer
<1>2. m \in Made  BY ElementOfSeq
<1>3. r \in Routes /\ sel \in Selection /\ sel.gen \in Generations
  BY <1>2 DEF Made, Selection
<1>4. sel.gen = i /\ sel.identity <= I[sel.hub] /\ H[i].revision <= R.revision
      /\ (GoneAs(sel, I, S) \/ Reports(R, sel, H[i]))
  BY DEF SelectionGood
<1>5. RouteInv(N) /\ Evolves(R, N) /\ Excused(R, N, H, I, S)
      /\ (MadeAs(sel, r, M) => GoneAs(sel, I, S) \/ Announced(R, N, sel) \/ Follows(R, N, sel))
      /\ (\A u \in N.updates : MadeAs(u.sel, r, L))
  BY <1>3 DEF Moves
<1>6. RouteInv(R) /\ \A u \in R.updates : MadeAs(u.sel, r, M) /\ Agrees(H[u.sel.gen], u)
  BY <1>3 DEF RouteGood
<1>7. MadeAs(sel, r, M)  BY <1>4 DEF MadeAs
<1>8. H[i].revision <= N.revision
  <2>1. R.revision \in Nat /\ N.revision \in Nat  BY <1>5, <1>6, RouteFields DEF RouteInv
  <2>2. H[i].revision \in Nat  BY <1>3, <1>4 DEF Heard
  <2>3. R.revision <= N.revision  BY <1>5 DEF Evolves
  <2>4. QED BY <1>4, <2>1, <2>2, <2>3
<1>9. H[sel.gen] \in Heard  BY <1>3
<1>10. \A u \in N.updates : u.sel.gen = sel.gen => u.sel = sel
  BY <1>1, <1>4, <1>5 DEF MadeAs
<1> HIDE DEF m, r, sel, R, N
<1>11. ASSUME ~GoneAs(sel, I, S) PROVE Reports(N, sel, H[i])
  <2>1. Reports(R, sel, H[sel.gen])  BY <1>4, <1>11
  <2>2. Announced(R, N, sel) \/ Follows(R, N, sel)  BY <1>5, <1>7, <1>11
  <2>3. Reports(N, sel, H[sel.gen])
    BY <1>5, <1>6, <1>7, <1>9, <1>10, <1>11, <2>1, <2>2, ReportsFollow
  <2>4. QED BY <1>4, <2>3
<1>12. SelectionGood(i, m, N, H[i], I, S)
  BY <1>4, <1>8, <1>11 DEF SelectionGood, sel
<1>13. QED BY <1>1, <1>12 DEF N, r

(* A selection that the step makes is numbered, of a device that exists    *)
(* and announced.                                                          *)
NewlyMade(M, L, Rs, Ns, I) ==
  \A i \in 1..Len(L) : i > Len(M) =>
    /\ L[i].sel.gen = i /\ L[i].sel.identity <= I[L[i].sel.hub]
    /\ Announced(Rs[L[i].r], Ns[L[i].r], L[i].sel)

(* The deliveries.                                                         *)
LEMMA OutMoves ==
  ASSUME NEW M \in Seq(Made), NEW L \in Seq(Made), Longer(M, L), NEW I, NEW o, OutGood(o, M, I)
  PROVE  OutGood(o, L, I)
<1>1. o.pc # "free" => MadeAs(o.sel, o.r, L)  BY MadeStays DEF OutGood
<1>2. QED BY <1>1 DEF OutGood

(* A new selection is in good order.                                       *)
LEMMA NewSelectionGood ==
  ASSUME NEW M \in Seq(Made), NEW L \in Seq(Made),
         NEW H \in [Generations -> Heard], NEW I, NEW S, NEW Rs, NEW Ns,
         \A r \in Routes : RouteInv(Rs[r]) /\ RouteInv(Ns[r]) /\ Evolves(Rs[r], Ns[r]),
         NewlyMade(M, L, Rs, Ns, I), \A i \in Generations : i > Len(M) => H[i].revision = 0,
         NEW i \in 1..Len(L), i > Len(M)
  PROVE  SelectionGood(i, L[i], Ns[L[i].r], H[i], I, S)
<1>1. L[i] \in Made  BY ElementOfSeq
<1>2. L[i].r \in Routes /\ L[i].sel.gen \in Generations  BY <1>1 DEF Made, Selection
<1>3. L[i].sel.gen = i /\ L[i].sel.identity <= I[L[i].sel.hub]
      /\ Announced(Rs[L[i].r], Ns[L[i].r], L[i].sel)
  BY DEF NewlyMade
<1>4. H[i].revision = 0  BY <1>2, <1>3
<1>5. RouteInv(Rs[L[i].r]) /\ RouteInv(Ns[L[i].r]) /\ Evolves(Rs[L[i].r], Ns[L[i].r])  BY <1>2
<1>6. Ns[L[i].r].revision \in Nat  BY <1>5, RouteFields DEF RouteInv
<1>7. Reports(Ns[L[i].r], L[i].sel, H[i])  BY <1>3, <1>5, AnnouncedReports
<1>8. QED BY <1>3, <1>4, <1>6, <1>7 DEF SelectionGood

(* A step of the directory that does all this keeps the invariant.         *)
LEMMA DirectoryStep ==
  ASSUME FleetInv, Shapes', UNCHANGED <<clock, homes>>, Longer(made, made'),
         NewlyMade(made, made', route, route', identity), Numbered(made', route'),
         \A r \in Routes :
           Moves(r, route[r], route'[r], made, made', clock, heard, identity, session),
         \A g \in Gates : \/ worker'[g] = worker[g]
                          \/ WorkerGood(worker'[g], route', made', clock, heard, identity, session),
         \A d \in Deliveries : out'[d] = out[d] \/ out'[d] = Free
  PROVE  FleetInv'
<1>1. clock \in Nat /\ made \in Seq(Made) /\ heard \in [Generations -> Heard]
  BY LimitTypes DEF FleetInv, Shapes
<1>2. made' \in Seq(Made)  BY DEF Shapes
<1>3. \A i \in 1..Len(made) :
        SelectionGood(i, made[i], route[made[i].r], heard[i], identity, session)
  BY DEF FleetInv
<1>4. \A r \in Routes : RouteGood(r, route[r], made, clock, heard)  BY DEF FleetInv
<1>5. \A i \in Generations : i > Len(made) => heard[i].revision = 0  BY DEF FleetInv
<1>6. \A i \in 1..Len(made) : heard[i].revision <= route[made[i].r].revision
  BY <1>3 DEF SelectionGood
<1>7. Len(made) \in Nat /\ Len(made') \in Nat  BY <1>1, <1>2, LenProperties
<1>8. ASSUME NEW r \in Routes PROVE RouteGood(r, route'[r], made', clock, heard)
  BY <1>1, <1>2, <1>4, <1>5, <1>6, RouteMoves
<1>9. ASSUME NEW g \in Gates
      PROVE  WorkerGood(worker'[g], route', made', clock, heard, identity, session)
  <2>1. WorkerGood(worker[g], route, made, clock, heard, identity, session)  BY DEF FleetInv
  <2>2. WorkerGood(worker[g], route', made', clock, heard, identity, session)
    BY <1>1, <1>2, <1>4, <2>1, WorkerMoves
  <2>3. CASE worker'[g] = worker[g]  BY <2>2, <2>3
  <2>4. QED BY <2>3
<1>10. ASSUME NEW d \in Deliveries PROVE OutGood(out'[d], made', identity)
  <2>1. OutGood(out[d], made, identity)  BY DEF FleetInv
  <2>2. OutGood(out[d], made', identity)  BY <1>1, <1>2, <2>1, OutMoves
  <2>3. Free.pc = "free" /\ Free \in Outgoing  BY DEF Free, Outgoing
  <2>4. OutGood(Free, made', identity)  BY <2>3 DEF OutGood
  <2>5. QED BY <2>2, <2>4
<1>11. ASSUME NEW i \in 1..Len(made')
       PROVE  SelectionGood(i, made'[i], route'[made'[i].r], heard[i], identity, session)
  <2>1. CASE i > Len(made)
    <3>1. \A r \in Routes : RouteInv(route[r])  BY <1>4 DEF RouteGood
    <3>2. \A r \in Routes : RouteInv(route'[r]) /\ Evolves(route[r], route'[r])  BY DEF Moves
    <3>3. QED BY <1>1, <1>2, <1>5, <2>1, <3>1, <3>2, NewSelectionGood
  <2>2. CASE i \in 1..Len(made)
    BY <1>1, <1>2, <1>3, <1>4, <2>2, SelectionMoves
  <2>3. QED BY <1>7, <2>1, <2>2
<1>12. ASSUME NEW i \in Generations, i > Len(made') PROVE heard[i].revision = 0
  <2>1. Len(made) <= Len(made')  BY DEF Longer
  <2>2. i \in Int  BY DEF Generations
  <2>3. i > Len(made)  BY <1>7, <1>12, <2>1, <2>2
  <2>4. QED BY <1>5, <2>3
<1>13. clock' = clock /\ heard' = heard /\ identity' = identity /\ session' = session
  BY DEF homes
<1>14. QED BY <1>8, <1>9, <1>10, <1>11, <1>12, <1>13 DEF FleetInv

-----------------------------------------------------------------------------
(* The steps that change the directory.                                    *)
LEMMA KeptMoves ==
  ASSUME NEW M \in Seq(Made), NEW L \in Seq(Made), Longer(M, L), NEW n, NEW H, NEW I, NEW S,
         NEW r \in Routes, NEW R, NEW N, RouteGood(r, R, M, n, H), RouteInv(N), Evolves(R, N),
         Keeps(R, N), SameHomes(R, N), N.active = R.active, ProofMoves(R, N, n)
  PROVE  Moves(r, R, N, M, L, n, H, I, S)
<1>1. (R.active # None => MadeAs(R.active, r, M)) /\ \A u \in R.updates : MadeAs(u.sel, r, M)
  BY DEF RouteGood
<1>2. N.active # None => MadeAs(N.active, r, L)  BY <1>1, MadeStays
<1>3. ASSUME NEW u \in N.updates PROVE MadeAs(u.sel, r, L)
  BY <1>1, <1>3, MadeStays DEF SameHomes
<1>4. Excused(R, N, H, I, S)  BY DEF Keeps, Excused
<1>5. QED BY <1>2, <1>3, <1>4 DEF Moves, Keeps

(* A route that a step leaves alone.                                       *)
LEMMA StillMoves ==
  ASSUME NEW M \in Seq(Made), NEW L \in Seq(Made), Longer(M, L), NEW n, NEW H, NEW I, NEW S,
         NEW r \in Routes, NEW R, RouteGood(r, R, M, n, H)
  PROVE  Moves(r, R, R, M, L, n, H, I, S)
<1>1. RouteInv(R) /\ R.revision \in Nat  BY RouteFields DEF RouteGood, RouteInv
<1>2. Evolves(R, R)  BY <1>1 DEF Evolves
<1>3. Keeps(R, R) /\ SameHomes(R, R)  BY DEF Keeps, Lost, Follows, SameHomes
<1>4. ProofMoves(R, R, n)  BY DEF ProofMoves
<1>5. QED BY <1>1, <1>2, <1>3, <1>4, KeptMoves

(* Revisions only grow, so the numbering of the selections stands.         *)
LEMMA NumberedGrows ==
  ASSUME NEW M \in Seq(Made), NEW Rs \in [Routes -> Route], NEW Ns \in [Routes -> Route],
         \A r \in Routes : Rs[r].revision <= Ns[r].revision, Numbered(M, Rs)
  PROVE  Numbered(M, Ns)
<1>1. PICK f \in [1..Len(M) -> 1..MaxRevision] : Numbering(f, M, Rs)  BY DEF Numbered
<1>2. ASSUME NEW i \in 1..Len(M) PROVE f[i] <= Ns[M[i].r].revision
  <2>1. M[i] \in Made  BY ElementOfSeq
  <2>2. M[i].r \in Routes  BY <2>1 DEF Made
  <2>3. Rs[M[i].r].revision \in Nat /\ Ns[M[i].r].revision \in Nat  BY <2>2, RouteFields
  <2>4. f[i] \in Int  BY <1>1, <1>2
  <2>5. f[i] <= Rs[M[i].r].revision  BY <1>1 DEF Numbering
  <2>6. QED BY <2>2, <2>3, <2>4, <2>5
<1>3. Numbering(f, M, Ns)  BY <1>1, <1>2 DEF Numbering
<1>4. QED BY <1>3 DEF Numbered

(* What the invariant says at every step below.                            *)
LEMMA InvFacts ==
  ASSUME FleetInv
  PROVE  /\ Shapes /\ clock \in Nat /\ made \in Seq(Made) /\ Longer(made, made)
         /\ \A r \in Routes : /\ RouteGood(r, route[r], made, clock, heard)
                              /\ RouteInv(route[r]) /\ route[r] \in Route
<1>1. Shapes /\ clock \in Nat /\ made \in Seq(Made)  BY LimitTypes DEF FleetInv, Shapes
<1>2. Len(made) \in Nat  BY <1>1, LenProperties
<1>3. Longer(made, made)  BY <1>2 DEF Longer
<1>4. QED BY <1>1, <1>3 DEF FleetInv, RouteGood, RouteInv

(* A step that changes routes, and workers, but makes no selection.        *)
LEMMA SameSelections ==
  ASSUME FleetInv, UNCHANGED <<clock, made, homes>>,
         route' \in [Routes -> Route], worker' \in [Gates -> Worker],
         out' \in [Deliveries -> Outgoing],
         \A r \in Routes :
           Moves(r, route[r], route'[r], made, made, clock, heard, identity, session),
         \A g \in Gates : \/ worker'[g] = worker[g]
                          \/ WorkerGood(worker'[g], route', made, clock, heard, identity, session),
         \A d \in Deliveries : out'[d] = out[d] \/ out'[d] = Free
  PROVE  FleetInv'
<1>1. Shapes /\ Longer(made, made) /\ made \in Seq(Made) /\ Numbered(made, route)
  BY InvFacts DEF FleetInv
<1>2. clock' = clock /\ made' = made /\ heard' = heard /\ identity' = identity
      /\ session' = session
  BY DEF homes
<1>3. Shapes'  BY <1>1, <1>2 DEF Shapes
<1>4. Len(made) \in Nat  BY <1>1, LenProperties
<1>5. NewlyMade(made, made', route, route', identity)  BY <1>2, <1>4 DEF NewlyMade
<1>6. \A r \in Routes : route[r].revision <= route'[r].revision  BY DEF Moves, Evolves
<1>7. Numbered(made', route')  BY <1>1, <1>2, <1>6, NumberedGrows DEF Shapes
<1>8. QED BY <1>1, <1>2, <1>3, <1>5, <1>7, DirectoryStep

(* begin.                                                                  *)
LEMMA BeginInv ==
  ASSUME FleetInv, NEW r \in Routes, NEW t \in Tokens, NEW o \in 0..(clock + Skew),
         Begin(r, t, o)
  PROVE  FleetInv'
<1> DEFINE R == route[r]
           B == BeginEntry(r)
           N == Queued(Begun(B, t, o), "paused")
<1>1. Shapes /\ clock \in Nat /\ made \in Seq(Made) /\ Longer(made, made)
      /\ RouteGood(r, R, made, clock, heard) /\ RouteInv(R) /\ R \in Route
  BY InvFacts
<1>2. StillSeen(R) \in SUBSET R.seen /\ \A e \in R.seen : e.until > clock => e \in StillSeen(R)
  BY DEF StillSeen
<1>3. B = Forgotten(R, StillSeen(R))  BY DEF BeginEntry, Forgotten
<1>4. /\ RouteInv(B) /\ Evolves(R, B) /\ Keeps(R, B)
      /\ B.active = R.active /\ B.pending = R.pending /\ B.seen = StillSeen(R)
      /\ B.updates = R.updates /\ B.revision = R.revision /\ B.newest = R.newest
  BY <1>1, <1>2, <1>3, ForgetStep
<1> HIDE DEF B
<1>5. UNCHANGED <<clock, made, homes>> /\ worker' = worker /\ out' = out  BY DEF Begin
<1>6. \/ /\ \E s \in B.seen : s.id = t
         /\ route' = [route EXCEPT ![r] = B]
      \/ /\ ~\E s \in B.seen : s.id = t
         /\ ~OutOfDate(B, o) /\ Cardinality(B.seen) < SeenLimit
         /\ ~QueueFails(B) /\ B.revision + 3 <= MaxRevision
         /\ route' = [route EXCEPT ![r] = N]
  BY DEF Begin, B
<1>7. ASSUME NEW K, RouteInv(K), Evolves(R, K), Keeps(R, K), SameHomes(R, K),
             K.active = R.active, ProofMoves(R, K, clock), route' = [route EXCEPT ![r] = K]
      PROVE  FleetInv'
  <2>1. K \in Route  BY <1>7 DEF RouteInv
  <2>2. route \in [Routes -> Route]  BY <1>1 DEF Shapes
  <2>3. route' \in [Routes -> Route] /\ route'[r] = K
        /\ \A x \in Routes : x # r => route'[x] = route[x]
    BY <1>7, <2>1, <2>2
  <2>4. ASSUME NEW x \in Routes
        PROVE  Moves(x, route[x], route'[x], made, made, clock, heard, identity, session)
    <3>1. CASE x = r  BY <1>1, <1>7, <2>3, <3>1, KeptMoves
    <3>2. CASE x # r
      <4>1. RouteGood(x, route[x], made, clock, heard)  BY InvFacts
      <4>2. QED BY <1>1, <2>3, <3>2, <4>1, StillMoves
    <3>3. QED BY <3>1, <3>2
  <2>5. worker' \in [Gates -> Worker] /\ out' \in [Deliveries -> Outgoing]
    BY <1>1, <1>5 DEF Shapes
  <2>6. QED BY <1>5, <2>3, <2>4, <2>5, SameSelections
<1>8. CASE route' = [route EXCEPT ![r] = B]
  <2>1. SameHomes(R, B)  BY <1>4 DEF SameHomes
  <2>2. ProofMoves(R, B, clock)  BY <1>2, <1>4 DEF ProofMoves
  <2>3. QED BY <1>4, <1>7, <1>8, <2>1, <2>2
<1>9. CASE /\ ~\E s \in B.seen : s.id = t
           /\ ~OutOfDate(B, o) /\ Cardinality(B.seen) < SeenLimit
           /\ ~QueueFails(B) /\ B.revision + 3 <= MaxRevision
           /\ route' = [route EXCEPT ![r] = N]
  <2>1. clock \in 0..MaxTime /\ o \in 0..(MaxTime + Skew)
    BY <1>1, LimitTypes DEF Shapes
  <2>2. o >= B.newest
    <3>1. B.newest \in Int  BY <1>4, RouteFields DEF RouteInv
    <3>2. o \in Int  BY <1>1
    <3>3. QED BY <1>9, <3>1, <3>2 DEF OutOfDate
  <2>3. /\ RouteInv(N) /\ Evolves(B, N) /\ Keeps(B, N) /\ SameHomes(B, N)
        /\ N.active = B.active
        /\ N.pending # None /\ N.pending.id = t /\ N.pending.occurred = o
        /\ N.seen = B.seen \cup {[id |-> t, until |-> o + SeenLife]}
    BY <1>4, <1>9, <2>1, <2>2, BegunStep
  <2> HIDE DEF N
  <2>4. Evolves(R, N) /\ SameHomes(R, N)  BY <1>4, <2>3 DEF Evolves, SameHomes
  <2>5. Keeps(R, N)  BY <1>4, <2>3 DEF Keeps, Lost, Announced, Follows, StandsAs
  <2>6. ProofMoves(R, N, clock)
    <3>1. Remembered(N, N.pending)  BY <2>3 DEF Remembered
    <3>2. \A e \in R.seen : e.until > clock => e.id # N.pending.id
      BY <1>2, <1>4, <1>9, <2>3
    <3>3. \A e \in R.seen : e.until > clock => e \in N.seen  BY <1>2, <1>4, <2>3
    <3>4. QED BY <3>1, <3>2, <3>3 DEF ProofMoves
  <2>7. QED BY <1>4, <1>7, <1>9, <2>3, <2>4, <2>5, <2>6
<1>10. QED BY <1>6, <1>8, <1>9

(* A step that changes one route.                                          *)
LEMMA OneRoute ==
  ASSUME FleetInv, NEW r \in Routes, NEW N, route' = [route EXCEPT ![r] = N],
         Moves(r, route[r], N, made, made, clock, heard, identity, session)
  PROVE  /\ route' \in [Routes -> Route] /\ route'[r] = N
         /\ \A x \in Routes :
              Moves(x, route[x], route'[x], made, made, clock, heard, identity, session)
<1>1. Shapes /\ made \in Seq(Made) /\ Longer(made, made)  BY InvFacts
<1>2. N \in Route  BY DEF Moves, RouteInv
<1>3. route \in [Routes -> Route]  BY <1>1 DEF Shapes
<1>4. route' \in [Routes -> Route] /\ route'[r] = N
      /\ \A x \in Routes : x # r => route'[x] = route[x]
  BY <1>2, <1>3
<1>5. ASSUME NEW x \in Routes
      PROVE  Moves(x, route[x], route'[x], made, made, clock, heard, identity, session)
  <2>1. CASE x = r  BY <1>4, <2>1
  <2>2. CASE x # r
    <3>1. RouteGood(x, route[x], made, clock, heard)  BY InvFacts
    <3>2. QED BY <1>1, <1>4, <2>2, <3>1, StillMoves
  <2>3. QED BY <2>1, <2>2
<1>6. QED BY <1>4, <1>5

(* A task between two exchanges.                                           *)
LEMMA QuietWorker ==
  ASSUME NEW w \in {Idle, AfterProof}, NEW Rs, NEW M, NEW n, NEW H, NEW I, NEW S
  PROVE  w \in Worker /\ WorkerGood(w, Rs, M, n, H, I, S)
<1>1. w \in Worker  BY DEF Worker
<1>2. ~Asking(w) /\ ~Telling(w)  BY DEF Asking, Telling, Idle, AfterProof
<1>3. QED BY <1>1, <1>2 DEF WorkerGood

(* claim releases every proof that ran out, and the poll it starts ends    *)
(* before its token is forgotten: ExchangeLife <= Skew.                    *)
LEMMA ClaimInv ==
  ASSUME FleetInv, NEW g \in Gates, Claim(g)
  PROVE  FleetInv'
<1>1. Shapes /\ clock \in Nat /\ made \in Seq(Made) /\ Longer(made, made)  BY InvFacts
<1>2. route \in [Routes -> Route] /\ worker \in [Gates -> Worker]
      /\ out \in [Deliveries -> Outgoing]
  BY <1>1 DEF Shapes
<1>3. UNCHANGED <<clock, made, homes>> /\ out' = out  BY DEF Claim
<1>4. route' = [r \in Routes |-> IF r \in RanOut THEN Released(route[r]) ELSE route[r]]
  BY DEF Claim
<1>5. ASSUME NEW r \in Routes
      PROVE  /\ Moves(r, route[r], route'[r], made, made, clock, heard, identity, session)
             /\ route'[r] \in Route /\ (Live(route[r].pending) => route'[r] = route[r])
  <2>1. RouteGood(r, route[r], made, clock, heard) /\ RouteInv(route[r]) /\ route[r] \in Route
    BY InvFacts
  <2>2. CASE r \in RanOut
    <3> DEFINE R == route[r]
               N == Released(R)
    <3>1. R.pending # None /\ ~Live(R.pending)  BY <2>2 DEF RanOut
    <3>2. /\ RouteInv(N) /\ Evolves(R, N) /\ Keeps(R, N) /\ SameHomes(R, N)
          /\ N.active = R.active /\ N.pending = None /\ N.seen = R.seen
      BY <2>1, <3>1, ReleasedStep
    <3>3. route'[r] = N  BY <1>4, <2>2
    <3> HIDE DEF N
    <3>4. ProofMoves(R, N, clock)  BY <3>2 DEF ProofMoves
    <3>5. Moves(r, R, N, made, made, clock, heard, identity, session)
      BY <1>1, <2>1, <3>2, <3>4, KeptMoves
    <3>6. N \in Route  BY <3>2 DEF RouteInv
    <3>7. QED BY <3>1, <3>3, <3>5, <3>6
  <2>3. CASE r \notin RanOut
    <3>1. route'[r] = route[r]  BY <1>4, <2>3
    <3>2. QED BY <1>1, <2>1, <3>1, StillMoves
  <2>4. QED BY <2>2, <2>3
<1>6. route' \in [Routes -> Route]  BY <1>4, <1>5
<1>7. ASSUME NEW w, worker' = [worker EXCEPT ![g] = w],
             WorkerGood(w, route', made, clock, heard, identity, session)
      PROVE  FleetInv'
  <2>1. w \in Worker  BY <1>7 DEF WorkerGood
  <2>2. worker' \in [Gates -> Worker] /\ worker'[g] = w
        /\ \A x \in Gates : x # g => worker'[x] = worker[x]
    BY <1>2, <1>7, <2>1
  <2>3. \A x \in Gates : worker'[x] = worker[x]
          \/ WorkerGood(worker'[x], route', made, clock, heard, identity, session)
    BY <1>7, <2>2
  <2>4. QED BY <1>2, <1>3, <1>5, <1>6, <2>2, <2>3, SameSelections
<1>8. CASE worker' = [worker EXCEPT ![g] = AfterProof]  BY <1>7, <1>8, QuietWorker
<1>9. ASSUME NEW r \in Routes, Live(route[r].pending),
             worker' = [worker EXCEPT ![g] =
               [pc |-> "proof", r |-> r, pending |-> route[r].pending,
                deadline |-> clock + ExchangeLife]]
      PROVE  FleetInv'
  <2> DEFINE p == route[r].pending
             w == [pc |-> "proof", r |-> r, pending |-> p, deadline |-> clock + ExchangeLife]
  <2>1. RouteGood(r, route[r], made, clock, heard) /\ RouteInv(route[r]) /\ route[r] \in Route
        /\ route'[r] = route[r]
    BY <1>5, <1>9, InvFacts
  <2>2. p # None /\ p.until > clock  BY <1>9 DEF Live
  <2>3. p \in Pending  BY <2>1, <2>2, RouteFields
  <2>4. p.until \in Nat /\ p.occurred \in Int  BY <2>3 DEF Pending
  <2>5. p.until <= p.occurred + ProofLife  BY <2>1, <2>2 DEF RouteInv, Times
  <2>6. SeenLife = ProofLife + Skew  BY DEF SeenLife
  <2>7. clock < p.occurred + SeenLife /\ clock + ExchangeLife < p.occurred + SeenLife
        /\ clock <= clock + ExchangeLife /\ clock + ExchangeLife \in Nat
    <3> DEFINE u == p.until
               o == p.occurred
    <3>1. u \in Nat /\ o \in Int /\ u > clock /\ u <= o + ProofLife  BY <2>2, <2>4, <2>5
    <3>2. clock \in Nat  BY <1>1
    <3> HIDE DEF u, o
    <3>3. clock < o + SeenLife /\ clock + ExchangeLife < o + SeenLife
          /\ clock <= clock + ExchangeLife /\ clock + ExchangeLife \in Nat
      BY <2>6, <3>1, <3>2, LimitTypes
    <3>4. QED BY <3>3 DEF o
  <2>8. Remembered(route[r], p)  BY <2>1, <2>2, <2>7 DEF RouteGood, ProofKept
  <2>9. w \in ProofWorker  BY <2>3, <2>7 DEF ProofWorker
  <2>10. w \in Worker  BY <2>9 DEF Worker
  <2>11. w.pc = "proof" /\ w.r = r /\ w.pending = p /\ w.deadline = clock + ExchangeLife
    OBVIOUS
  <2> HIDE DEF w, p
  <2>12. Asked(w, route'[r], clock, identity)
    BY <2>1, <2>7, <2>8, <2>11 DEF Asked, p
  <2>13. ~Telling(w)  BY <2>11 DEF Telling
  <2>14. WorkerGood(w, route', made, clock, heard, identity, session)
    BY <2>10, <2>11, <2>12, <2>13 DEF WorkerGood
  <2>15. worker' = [worker EXCEPT ![g] = w]  BY <1>9 DEF w, p
  <2>16. QED BY <1>7, <2>14, <2>15
<1>10. QED BY <1>8, <1>9 DEF Claim

(* finish_route_update: the receipt of an older revision takes nothing     *)
(* away.                                                                   *)
LEMMA FinishRouteUpdateInv ==
  ASSUME FleetInv, NEW g \in Gates, FinishRouteUpdate(g)
  PROVE  FleetInv'
<1> DEFINE w == worker[g]
           r == w.r
           u == w.update
           R == route[r]
           N == Acknowledged(R, u)
<1>1. Shapes /\ clock \in Nat /\ made \in Seq(Made) /\ Longer(made, made)  BY InvFacts
<1>2. route \in [Routes -> Route] /\ worker \in [Gates -> Worker]
      /\ out \in [Deliveries -> Outgoing]
  BY <1>1 DEF Shapes
<1>3. UNCHANGED <<clock, made, homes>> /\ out' = out /\ w.pc = "updateAnswered"
      /\ worker' = [worker EXCEPT ![g] = Idle]
  BY DEF FinishRouteUpdate
<1>4. w \in Worker /\ Telling(w)  BY <1>2, <1>3 DEF Telling
<1>5. r \in Routes /\ u \in Update  BY <1>4, WorkerFields
<1>6. MadeAs(u.sel, r, made) /\ Told(w, R, heard[u.sel.gen], GoneAs(u.sel, identity, session))
  BY <1>4 DEF FleetInv, WorkerGood
<1>7. RouteGood(r, R, made, clock, heard) /\ RouteInv(R)  BY <1>5, InvFacts
<1>8. /\ RouteInv(N) /\ Evolves(R, N)
      /\ \A sel \in Selection : Follows(R, N, sel)
      /\ N.active = R.active /\ N.pending = R.pending /\ N.seen = R.seen
      /\ N.revision = R.revision /\ N.updates \subseteq R.updates
      /\ \A v \in Lost(R, N) : v.sel.gen = u.sel.gen /\ v.revision = u.revision
  <2> HIDE DEF R, u, r, w
  <2>1. RouteInv(R)  BY <1>7
  <2>2. Thinned(R, N, u)  BY <2>1, AcknowledgedStep
  <2>3. QED BY <2>2 DEF Thinned
<1>9. ASSUME w.answer \in {"applied", "refused"}
      PROVE  Moves(r, R, N, made, made, clock, heard, identity, session)
  <2> HIDE DEF N
  <2>1. ProofMoves(R, N, clock)  BY <1>8 DEF ProofMoves
  <2>2. ASSUME NEW v \in Lost(R, N)
        PROVE  GoneAs(v.sel, identity, session) \/ heard[v.sel.gen].revision >= v.revision
    <3>1. v \in R.updates /\ v.sel.gen = u.sel.gen /\ v.revision = u.revision
      BY <1>8 DEF Lost
    <3>2. v.sel = u.sel  BY <1>6, <1>7, <3>1 DEF RouteGood, MadeAs
    <3>3. (w.answer = "refused" => GoneAs(u.sel, identity, session))
          /\ (w.answer = "applied" => heard[u.sel.gen].revision >= u.revision)
      BY <1>3, <1>6 DEF Told
    <3>4. QED BY <1>9, <3>1, <3>2, <3>3
  <2>3. Excused(R, N, heard, identity, session)  BY <2>2 DEF Excused
  <2>4. (N.active # None => MadeAs(N.active, r, made)) /\ \A x \in N.updates : MadeAs(x.sel, r, made)
    BY <1>7, <1>8 DEF RouteGood
  <2>5. QED BY <1>8, <2>1, <2>3, <2>4 DEF Moves
<1>10. worker' \in [Gates -> Worker] /\ worker'[g] = Idle
       /\ \A x \in Gates : x # g => worker'[x] = worker[x]
  BY <1>2, <1>3, QuietWorker
<1>11. WorkerGood(Idle, route', made, clock, heard, identity, session)  BY QuietWorker
<1>12. \A x \in Gates : worker'[x] = worker[x]
         \/ WorkerGood(worker'[x], route', made, clock, heard, identity, session)
  BY <1>10, <1>11
<1>13. CASE w.answer \in {"applied", "refused"}
  <2>1. route' = [route EXCEPT ![r] = N]  BY <1>13 DEF FinishRouteUpdate
  <2> HIDE DEF N, R, r
  <2>2. route' \in [Routes -> Route]
        /\ \A x \in Routes :
             Moves(x, route[x], route'[x], made, made, clock, heard, identity, session)
    BY <1>5, <1>9, <1>13, <2>1, OneRoute DEF R
  <2>3. QED BY <1>2, <1>3, <1>10, <1>12, <2>2, SameSelections
<1>14. CASE w.answer \notin {"applied", "refused"}
  <2>1. route' = route  BY <1>14 DEF FinishRouteUpdate
  <2>2. \A x \in Routes :
             Moves(x, route[x], route'[x], made, made, clock, heard, identity, session)
    BY <1>1, <2>1, InvFacts, StillMoves
  <2>3. QED BY <1>2, <1>3, <1>10, <1>12, <2>1, <2>2, SameSelections
<1>15. QED BY <1>13, <1>14

(* invalidate_identity.                                                    *)
LEMMA InvalidateIdentityInv ==
  ASSUME FleetInv, NEW d \in Deliveries, InvalidateIdentity(d)
  PROVE  FleetInv'
<1> DEFINE s == out[d].sel
<1>1. Shapes /\ clock \in Nat /\ made \in Seq(Made) /\ Longer(made, made)  BY InvFacts
<1>2. route \in [Routes -> Route] /\ worker \in [Gates -> Worker]
      /\ out \in [Deliveries -> Outgoing] /\ identity \in [Hubs -> 0..MaxResets]
  BY <1>1 DEF Shapes
<1>3. UNCHANGED <<clock, made, homes>> /\ worker' = worker /\ out[d].pc = "changed"
      /\ out' = [out EXCEPT ![d] = Free]
      /\ route' = [r \in Routes |-> Invalidated(route[r], s)]
  BY DEF InvalidateIdentity
<1>4. MadeAs(s, out[d].r, made) /\ identity[s.hub] # s.identity
  BY <1>3 DEF FleetInv, OutGood
<1>5. s \in Selection
  <2>1. out[d] \in Sending  BY <1>2, <1>3 DEF Outgoing, Free
  <2>2. QED BY <2>1 DEF Sending
<1>6. MaxResets > 0
  <2>1. s.gen \in 1..Len(made) /\ made[s.gen].sel = s  BY <1>4 DEF MadeAs
  <2>2. s.identity <= identity[s.hub]  BY <2>1 DEF FleetInv, SelectionGood
  <2>3. s.hub \in Hubs /\ s.identity \in Nat  BY <1>5, LimitTypes DEF Selection
  <2>4. identity[s.hub] \in 0..MaxResets  BY <1>2, <2>3
  <2>5. QED BY <1>4, <2>2, <2>3, <2>4, LimitTypes
<1> HIDE DEF s
<1>7. \A sel : OfDevice(sel, s) => GoneAs(sel, identity, session)
  BY <1>4 DEF OfDevice, GoneAs
<1>8. ASSUME NEW r \in Routes
      PROVE  /\ Moves(r, route[r], route'[r], made, made, clock, heard, identity, session)
             /\ route'[r] \in Route
  <2> DEFINE R == route[r]
             N == Invalidated(R, s)
  <2>1. RouteGood(r, R, made, clock, heard) /\ RouteInv(R)  BY InvFacts
  <2>2. /\ RouteInv(N) /\ Evolves(R, N)
        /\ MaxResets > 0 => \A sel \in Selection : OfDevice(sel, s) \/ Follows(R, N, sel)
        /\ N.active = R.active \/ (N.active = None /\ R.active # None /\ OfDevice(R.active, s))
        /\ N.pending = None \/ N.pending = R.pending
        /\ N.seen = R.seen /\ N.revision = R.revision /\ N.updates \subseteq R.updates
        /\ \A v \in Lost(R, N) : OfDevice(v.sel, s)
    <3> HIDE DEF R
    <3>1. QED BY <2>1, InvalidatedStep, Zenon
  <2>3. route'[r] = N  BY <1>3
  <2> HIDE DEF N, R
  <2>4. ProofMoves(R, N, clock)  BY <2>2 DEF ProofMoves
  <2>5. Excused(R, N, heard, identity, session)  BY <1>7, <2>2 DEF Excused
  <2>6. \A sel \in Selection : MadeAs(sel, r, made) =>
          GoneAs(sel, identity, session) \/ Announced(R, N, sel) \/ Follows(R, N, sel)
    BY <1>6, <1>7, <2>2
  <2>7. (N.active # None => MadeAs(N.active, r, made)) /\ \A u \in N.updates : MadeAs(u.sel, r, made)
    BY <2>1, <2>2 DEF RouteGood
  <2>8. Moves(r, R, N, made, made, clock, heard, identity, session)
    BY <2>2, <2>4, <2>5, <2>6, <2>7 DEF Moves
  <2>9. N \in Route  BY <2>2 DEF RouteInv
  <2>10. QED BY <2>3, <2>8, <2>9 DEF R
<1>9. route' \in [Routes -> Route]  BY <1>3, <1>8
<1>10. Free \in Outgoing  BY DEF Outgoing
<1>11. out' \in [Deliveries -> Outgoing] /\ \A x \in Deliveries : out'[x] = out[x] \/ out'[x] = Free
  BY <1>2, <1>3, <1>10
<1>12. QED BY <1>2, <1>3, <1>8, <1>9, <1>11, SameSelections

-----------------------------------------------------------------------------
(* Generations never run out: each selection uses up a revision of its     *)
(* route.                                                                  *)
LEMMA CountMade ==
  ASSUME NEW n \in Nat, NEW p \in [1..n -> Routes], NEW f \in [1..n -> 1..MaxRevision],
         \A i, j \in 1..n : p[i] = p[j] /\ f[i] = f[j] => i = j
  PROVE  n <= MaxRevision * Cardinality(Routes)
<1> DEFINE D == 1..n
           T == Routes \X (1..MaxRevision)
           h == [i \in D |-> <<p[i], f[i]>>]
<1>1. MaxRevision \in Nat /\ IsFiniteSet(Routes)  BY LimitTypes, FleetAssumption
<1>2. IsFiniteSet(1..MaxRevision) /\ Cardinality(1..MaxRevision) = MaxRevision
  <2>1. IsFiniteSet(1..MaxRevision) /\ Cardinality(1..MaxRevision) =
          IF 1 > MaxRevision THEN 0 ELSE MaxRevision - 1 + 1
    BY <1>1, FS_Interval
  <2>2. QED BY <1>1, <2>1
<1>3. IsFiniteSet(D) /\ Cardinality(D) = n
  <2>1. IsFiniteSet(1..n) /\ Cardinality(1..n) = IF 1 > n THEN 0 ELSE n - 1 + 1
    BY FS_Interval
  <2>2. QED BY <2>1
<1>4. IsFiniteSet(T) /\ Cardinality(T) = Cardinality(Routes) * Cardinality(1..MaxRevision)
  BY <1>1, <1>2, FS_Product
<1>5. h \in [D -> T]  OBVIOUS
<1>6. \A i, j \in D : h[i] = h[j] => i = j  OBVIOUS
<1> HIDE DEF h, T, D
<1>7. h \in Injection(D, T)  BY <1>5, <1>6, Fun_IsInj
<1>8. Cardinality(D) <= Cardinality(T)  BY <1>4, <1>7, FS_Injection
<1>9. Cardinality(Routes) \in Nat  BY <1>1, FS_CardinalityType
<1>10. Cardinality(Routes) * MaxRevision = MaxRevision * Cardinality(Routes)  BY <1>1, <1>9
<1>11. QED BY <1>2, <1>3, <1>4, <1>8, <1>10

(* A selection of route r is appended and uses up a revision.              *)
AppendedFor(r, M, L, Rs, Ns) ==
  /\ Len(L) = Len(M) + 1 /\ L[Len(M) + 1].r = r
  /\ \A i \in 1..Len(M) : L[i] = M[i]
  /\ Ns[r].revision > Rs[r].revision
  /\ \A x \in Routes : Rs[x].revision <= Ns[x].revision

(* There is a generation left for it.                                      *)
LEMMA NumberedAppend ==
  ASSUME NEW M \in Seq(Made), NEW Rs \in [Routes -> Route], Numbered(M, Rs), NEW r \in Routes,
         Rs[r].revision + 1 <= MaxRevision
  PROVE  /\ Len(M) + 1 \in Generations
         /\ \A L \in Seq(Made), Ns \in [Routes -> Route] :
              AppendedFor(r, M, L, Rs, Ns) => Numbered(L, Ns)
<1> DEFINE n == Len(M) + 1
           k == Rs[r].revision + 1
<1>1. PICK f \in [1..Len(M) -> 1..MaxRevision] : Numbering(f, M, Rs)  BY DEF Numbered
<1>2. Len(M) \in Nat /\ n \in Nat /\ n # 0  BY LenProperties
<1>3. Rs[r].revision \in Nat  BY RouteFields
<1>4. k \in 1..MaxRevision  BY <1>3, LimitTypes
<1> DEFINE F == [i \in 1..n |-> IF i = n THEN k ELSE f[i]]
           p == [i \in 1..n |-> IF i = n THEN r ELSE M[i].r]
<1>5. \A i \in 1..n : i = n \/ i \in 1..Len(M)  BY <1>2
<1>6. ASSUME NEW i \in 1..Len(M) PROVE M[i] \in Made /\ M[i].r \in Routes
  <2>1. M[i] \in Made  BY ElementOfSeq
  <2>2. QED BY <2>1 DEF Made
<1>7. F \in [1..n -> 1..MaxRevision]  BY <1>1, <1>4, <1>5
<1>8. p \in [1..n -> Routes]  BY <1>5, <1>6
<1>9. F[n] = k /\ p[n] = r  BY <1>2
<1>10. \A i \in 1..Len(M) : F[i] = f[i] /\ p[i] = M[i].r  BY <1>2
<1>11. \A i \in 1..Len(M) : f[i] <= Rs[M[i].r].revision  BY <1>1 DEF Numbering
<1>12. \A i \in 1..Len(M) : M[i].r = r => f[i] # k
  <2> SUFFICES ASSUME NEW i \in 1..Len(M), M[i].r = r, f[i] = k PROVE FALSE  OBVIOUS
  <2>1. k <= Rs[r].revision  BY <1>11
  <2>2. QED BY <1>3, <2>1
<1> HIDE DEF F, p, k, n
<1>13. \A i, j \in 1..n : p[i] = p[j] /\ F[i] = F[j] => i = j
  <2> SUFFICES ASSUME NEW i \in 1..n, NEW j \in 1..n, p[i] = p[j], F[i] = F[j] PROVE i = j
    OBVIOUS
  <2>1. CASE i = n /\ j \in 1..Len(M)  BY <1>9, <1>10, <1>12, <2>1
  <2>2. CASE j = n /\ i \in 1..Len(M)  BY <1>9, <1>10, <1>12, <2>2
  <2>3. CASE i \in 1..Len(M) /\ j \in 1..Len(M)  BY <1>1, <1>10, <2>3 DEF Numbering
  <2>4. QED BY <1>5, <2>1, <2>2, <2>3
<1>14. n <= MaxRevision * Cardinality(Routes)  BY <1>2, <1>7, <1>8, <1>13, CountMade
<1>15. n \in Generations
  <2>1. Cardinality(Routes) \in Nat  BY FleetAssumption, FS_CardinalityType
  <2> DEFINE c == Cardinality(Routes)
             top == MaxRevision * c
  <2>2. top \in Nat  BY <2>1, LimitTypes
  <2>3. n <= top  BY <1>14
  <2> HIDE DEF top, c
  <2>4. n \in 1..top  BY <1>2, <2>2, <2>3
  <2>5. QED BY <2>4 DEF Generations, top, c
<1>16. ASSUME NEW L \in Seq(Made), NEW Ns \in [Routes -> Route],
              AppendedFor(r, M, L, Rs, Ns)
       PROVE  Numbered(L, Ns)
  <2> USE <1>16 DEF AppendedFor
  <2>1. Len(L) = n /\ L[n].r = r  BY <1>16 DEF n
  <2>2. ASSUME NEW i \in 1..n PROVE p[i] = L[i].r /\ F[i] <= Ns[L[i].r].revision
    <3>1. CASE i = n
      <4>1. Ns[r].revision \in Nat  BY <1>16, RouteFields
      <4>2. k <= Ns[r].revision  BY <1>3, <1>16, <4>1 DEF k
      <4>3. QED BY <1>9, <2>1, <3>1, <4>2
    <3>2. CASE i \in 1..Len(M)
      <4>1. M[i].r \in Routes /\ L[i] = M[i]  BY <1>6, <1>16, <3>2
      <4>2. Ns[M[i].r].revision \in Nat /\ Rs[M[i].r].revision \in Nat
        BY <1>16, <4>1, RouteFields
      <4>3. f[i] \in Int  BY <1>1, <3>2
      <4>4. f[i] <= Ns[M[i].r].revision  BY <1>11, <1>16, <3>2, <4>1, <4>2, <4>3
      <4>5. QED BY <1>10, <3>2, <4>1, <4>4
    <3>3. QED BY <1>5, <3>1, <3>2
  <2>3. Numbering(F, L, Ns)  BY <1>13, <2>1, <2>2 DEF Numbering
  <2>4. QED BY <1>7, <2>1, <2>3 DEF Numbered
<1>17. QED BY <1>15, <1>16 DEF n

(* What finish knows when an answer has come back.                         *)
LEMMA AnsweredFacts ==
  ASSUME FleetInv, NEW g \in Gates, worker[g].pc = "proofAnswered"
  PROVE  LET w == worker[g] IN
         /\ w \in Worker /\ w.r \in Routes /\ w.pending \in Pending /\ w.answer \in Answer
         /\ Asked(w, route[w.r], clock, identity)
         /\ RouteGood(w.r, route[w.r], made, clock, heard) /\ RouteInv(route[w.r])
<1>1. worker[g] \in Worker  BY InvFacts DEF Shapes
<1>2. Asking(worker[g])  BY DEF Asking
<1>3. worker[g].r \in Routes /\ worker[g].pending \in Pending /\ worker[g].answer \in Answer
  BY <1>1, <1>2, WorkerFields
<1>4. Asked(worker[g], route[worker[g].r], clock, identity)
  BY <1>2 DEF FleetInv, WorkerGood
<1>5. QED BY <1>1, <1>3, <1>4, InvFacts

(* The task that got its answer rests.                                     *)
LEMMA WorkerRests ==
  ASSUME FleetInv, NEW g \in Gates, NEW q \in {Idle, AfterProof}, worker' = [worker EXCEPT ![g] = q],
         NEW Rs, NEW M
  PROVE  /\ worker' \in [Gates -> Worker]
         /\ \A x \in Gates : worker'[x] = worker[x]
              \/ WorkerGood(worker'[x], Rs, M, clock, heard, identity, session)
<1>1. worker \in [Gates -> Worker]  BY InvFacts DEF Shapes
<1>2. q \in Worker /\ WorkerGood(q, Rs, M, clock, heard, identity, session)  BY QuietWorker
<1>3. QED BY <1>1, <1>2

(* finish, where it makes a selection.                                     *)
LEMMA BoundMoves ==
  ASSUME FleetInv, NEW g \in Gates, worker[g].pc = "proofAnswered",
         NEW sel, sel = NewSelection(route[worker[g].r], worker[g].pending, worker[g].answer),
         route[worker[g].r].pending # None,
         ~QueueFails(Selected(Queued(route[worker[g].r], "retired"), sel)),
         route' = [route EXCEPT ![worker[g].r] = Bound(route[worker[g].r], sel)],
         made' = Append(made, [sel |-> sel, r |-> worker[g].r]),
         UNCHANGED <<clock, out, homes>>, worker' = [worker EXCEPT ![g] = AfterProof]
  PROVE  FleetInv'
<1> DEFINE w == worker[g]
           r == w.r
           R == route[r]
           N == Bound(R, sel)
           n == Len(made) + 1
<1>1. Shapes /\ clock \in 0..MaxTime /\ clock \in Nat /\ made \in Seq(Made) /\ Numbered(made, route)
      /\ route \in [Routes -> Route]
  BY InvFacts DEF FleetInv, Shapes
<1>2. w \in Worker /\ r \in Routes /\ w.pending \in Pending /\ w.answer \in Answer
      /\ Asked(w, R, clock, identity) /\ RouteGood(r, R, made, clock, heard) /\ RouteInv(R)
  BY AnsweredFacts
<1>3. R \in Route /\ R.revision \in Nat /\ R.pending \in Pending /\ R.revision + 2 <= MaxRevision
  <2>1. R \in Route /\ Room(R)  BY <1>2 DEF RouteInv
  <2>2. QED BY <2>1, RouteFields DEF Room
<1>4. R.revision + 1 <= MaxRevision  BY <1>3, LimitTypes
<1>5. n \in Generations /\ \A L \in Seq(Made), Ns \in [Routes -> Route] :
        AppendedFor(r, made, L, route, Ns) => Numbered(L, Ns)
  BY <1>1, <1>2, <1>4, NumberedAppend
<1>6. /\ sel.hub = w.pending.hub /\ sel.identity = w.answer.identity /\ sel.gen = n
      /\ sel.proved = R.pending.occurred /\ sel \in Selection
  <2>1. sel = [hub |-> w.pending.hub, identity |-> w.answer.identity, binding |-> w.pending.id,
               gen |-> n, at |-> clock, proved |-> R.pending.occurred]
    BY DEF NewSelection
  <2>2. w.pending.hub \in Hubs /\ w.pending.id \in Tokens  BY <1>2 DEF Pending
  <2>3. w.answer.identity \in 0..MaxResets  BY <1>2 DEF Answer
  <2>4. R.pending.occurred \in 0..(MaxTime + Skew)  BY <1>3 DEF Pending
  <2> HIDE DEF w, R, n
  <2>5. QED BY <1>1, <1>5, <2>1, <2>2, <2>3, <2>4 DEF Selection
<1>7. sel.identity <= identity[sel.hub]  BY <1>2, <1>6 DEF Asked
<1>8. Len(made) \in Nat  BY <1>1, LenProperties
<1>9. \A s, x : MadeAs(s, x, made) => s.gen # sel.gen  BY <1>6, <1>8 DEF MadeAs
<1>10. (\A u \in R.updates : u.sel.gen # sel.gen) /\ (R.active # None => R.active.gen # sel.gen)
  BY <1>2, <1>9 DEF RouteGood
<1>11. /\ RouteInv(N) /\ Evolves(R, N) /\ Keeps(R, N) /\ Announced(R, N, sel)
       /\ N.active = sel /\ N.pending = None /\ N.seen = R.seen
       /\ N.revision > R.revision
       /\ \A u \in N.updates : u \in R.updates \/ u.sel = sel
                                \/ (R.active # None /\ u.sel = R.active)
  BY <1>2, <1>6, <1>10, BoundStep
<1>12. route' = [route EXCEPT ![r] = N] /\ made' = Append(made, [sel |-> sel, r |-> r])
  OBVIOUS
<1> HIDE DEF N, n
<1>13. N \in Route  BY <1>11 DEF RouteInv
<1>14. route' \in [Routes -> Route] /\ route'[r] = N
       /\ \A x \in Routes : x # r => route'[x] = route[x]
  <2> HIDE DEF r, R, w
  <2>1. r \in Routes /\ route \in [Routes -> Route]  BY <1>1, <1>2
  <2>2. QED BY <1>12, <1>13, <2>1
<1> HIDE DEF r, R, w
<1>15. [sel |-> sel, r |-> r] \in Made  BY <1>2, <1>6 DEF Made
<1>16. made' \in Seq(Made) /\ Len(made') = n /\ made'[n] = [sel |-> sel, r |-> r]
       /\ \A i \in 1..Len(made) : made'[i] = made[i]
  BY <1>1, <1>12, <1>15, AppendProperties DEF n
<1>17. Longer(made, made')  BY <1>8, <1>16 DEF Longer, n
<1>18. Moves(r, R, N, made, made', clock, heard, identity, session)
  <2>1. ProofMoves(R, N, clock)  BY <1>11 DEF ProofMoves
  <2>2. MadeAs(sel, r, made')
    <3>1. n \in 1..n  BY <1>8 DEF n
    <3>2. QED BY <1>6, <1>16, <3>1 DEF MadeAs
  <2>3. (R.active # None => MadeAs(R.active, r, made)) /\ \A u \in R.updates : MadeAs(u.sel, r, made)
    BY <1>2 DEF RouteGood
  <2>4. ASSUME NEW u \in N.updates PROVE MadeAs(u.sel, r, made')
    <3>1. CASE u.sel = sel  BY <2>2, <3>1
    <3>2. CASE u \in R.updates  BY <1>1, <1>16, <1>17, <2>3, <3>2, MadeStays
    <3>3. CASE R.active # None /\ u.sel = R.active
      BY <1>1, <1>16, <1>17, <2>3, <3>3, MadeStays
    <3>4. QED BY <1>11, <3>1, <3>2, <3>3
  <2>5. Excused(R, N, heard, identity, session)  BY <1>11 DEF Keeps, Excused
  <2>6. QED BY <1>11, <2>1, <2>2, <2>4, <2>5 DEF Moves, Keeps
<1>19. ASSUME NEW x \in Routes
       PROVE  Moves(x, route[x], route'[x], made, made', clock, heard, identity, session)
  <2>1. CASE x = r  BY <1>14, <1>18, <2>1 DEF R
  <2>2. CASE x # r
    <3>1. RouteGood(x, route[x], made, clock, heard)  BY InvFacts
    <3>2. QED BY <1>1, <1>14, <1>16, <1>17, <2>2, <3>1, StillMoves
  <2>3. QED BY <2>1, <2>2
<1>20. \A x \in Routes : route[x].revision <= route'[x].revision  BY <1>19 DEF Moves, Evolves
<1>21. Numbered(made', route')
  <2>1. AppendedFor(r, made, made', route, route')
    BY <1>11, <1>14, <1>16, <1>20 DEF AppendedFor, R, n
  <2>2. QED BY <1>5, <1>14, <1>16, <2>1
<1>22. NewlyMade(made, made', route, route', identity)
  <2> SUFFICES ASSUME NEW i \in 1..Len(made'), i > Len(made)
               PROVE  /\ made'[i].sel.gen = i
                      /\ made'[i].sel.identity <= identity[made'[i].sel.hub]
                      /\ Announced(route[made'[i].r], route'[made'[i].r], made'[i].sel)
    BY DEF NewlyMade
  <2>1. i = n  BY <1>8, <1>16 DEF n
  <2>2. made'[i].sel = sel /\ made'[i].r = r  BY <1>16, <2>1
  <2>3. QED BY <1>6, <1>7, <1>11, <1>14, <2>1, <2>2 DEF R
<1>23. worker' \in [Gates -> Worker]
       /\ \A x \in Gates : worker'[x] = worker[x]
            \/ WorkerGood(worker'[x], route', made', clock, heard, identity, session)
  BY WorkerRests
<1>24. Shapes'  BY <1>1, <1>14, <1>16, <1>23 DEF Shapes, homes
<1>25. UNCHANGED <<clock, homes>> /\ \A d \in Deliveries : out'[d] = out[d]  OBVIOUS
<1>26. QED BY <1>17, <1>19, <1>21, <1>22, <1>23, <1>24, <1>25, DirectoryStep

(* finish.                                                                 *)
LEMMA FinishInv ==
  ASSUME FleetInv, NEW g \in Gates, Finish(g)
  PROVE  FleetInv'
<1> DEFINE w == worker[g]
           r == w.r
           R == route[r]
           a == w.answer
           sel == NewSelection(R, w.pending, a)
<1>1. w.pc = "proofAnswered" /\ worker' = [worker EXCEPT ![g] = AfterProof]
      /\ UNCHANGED <<clock, out, homes>>
  BY DEF Finish
<1>2. r \in Routes /\ a \in Answer /\ RouteGood(r, R, made, clock, heard) /\ RouteInv(R)
  BY <1>1, AnsweredFacts
<1>3. \/ UNCHANGED directory
      \/ /\ R.pending # None /\ route' = [route EXCEPT ![r] = Released(R)] /\ UNCHANGED made
      \/ /\ R.pending # None /\ SameDevice(R, a)
         /\ route' = [route EXCEPT ![r] = Pinned(R, a)] /\ UNCHANGED made
      \/ /\ R.pending # None /\ ~QueueFails(Selected(Queued(R, "retired"), sel))
         /\ route' = [route EXCEPT ![r] = Bound(R, sel)]
         /\ made' = Append(made, [sel |-> sel, r |-> r])
  BY DEF Finish, SameProof
<1>4. Shapes /\ made \in Seq(Made) /\ Longer(made, made) /\ route \in [Routes -> Route]
      /\ out \in [Deliveries -> Outgoing]
  BY InvFacts DEF Shapes
<1>5. worker' \in [Gates -> Worker]
      /\ \A x \in Gates : worker'[x] = worker[x]
           \/ WorkerGood(worker'[x], route', made, clock, heard, identity, session)
  BY <1>1, WorkerRests
<1>6. ASSUME UNCHANGED made, route' \in [Routes -> Route],
             \A x \in Routes :
               Moves(x, route[x], route'[x], made, made, clock, heard, identity, session)
      PROVE  FleetInv'
  <2>1. UNCHANGED <<clock, made, homes>> /\ out' \in [Deliveries -> Outgoing]
        /\ \A d \in Deliveries : out'[d] = out[d]
    BY <1>1, <1>4, <1>6
  <2>2. QED BY <1>5, <1>6, <2>1, SameSelections
<1>7. CASE UNCHANGED directory
  <2>1. route' = route /\ made' = made  BY <1>7 DEF directory
  <2>2. \A x \in Routes :
          Moves(x, route[x], route'[x], made, made, clock, heard, identity, session)
    BY <1>4, <2>1, InvFacts, StillMoves
  <2>3. QED BY <1>4, <1>6, <2>1, <2>2
<1>8. ASSUME NEW N, RouteInv(N), Evolves(R, N), Keeps(R, N), SameHomes(R, N), N.active = R.active,
             ProofMoves(R, N, clock), route' = [route EXCEPT ![r] = N], UNCHANGED made
      PROVE  FleetInv'
  <2>1. Moves(r, R, N, made, made, clock, heard, identity, session)
    BY <1>2, <1>4, <1>8, KeptMoves
  <2>2. route' \in [Routes -> Route] /\ \A x \in Routes :
          Moves(x, route[x], route'[x], made, made, clock, heard, identity, session)
    BY <1>2, <1>8, <2>1, OneRoute
  <2>3. QED BY <1>6, <1>8, <2>2
<1>9. CASE R.pending # None /\ route' = [route EXCEPT ![r] = Released(R)] /\ UNCHANGED made
  <2> DEFINE N == Released(R)
  <2>1. /\ RouteInv(N) /\ Evolves(R, N) /\ Keeps(R, N) /\ SameHomes(R, N)
        /\ N.active = R.active /\ N.pending = None /\ N.seen = R.seen
    BY <1>2, <1>9, ReleasedStep
  <2>2. route' = [route EXCEPT ![r] = N]  BY <1>9
  <2> HIDE DEF N
  <2>3. ProofMoves(R, N, clock)  BY <2>1 DEF ProofMoves
  <2>4. QED BY <1>8, <1>9, <2>1, <2>2, <2>3
<1>10. CASE /\ R.pending # None /\ SameDevice(R, a)
            /\ route' = [route EXCEPT ![r] = Pinned(R, a)] /\ UNCHANGED made
  <2> DEFINE N == Pinned(R, a)
  <2>1. a.identity \in 0..MaxResets /\ a.until \in Nat  BY <1>2 DEF Answer
  <2>2. /\ RouteInv(N) /\ Evolves(R, N) /\ Keeps(R, N)
        /\ N.active = R.active /\ N.updates = R.updates /\ N.seen = R.seen
        /\ N.pending # None /\ N.pending.id = R.pending.id
        /\ N.pending.occurred = R.pending.occurred
    BY <1>2, <1>10, <2>1, PinnedStep
  <2>3. route' = [route EXCEPT ![r] = N]  BY <1>10
  <2> HIDE DEF N
  <2>4. ProofMoves(R, N, clock) /\ SameHomes(R, N)
    BY <1>10, <2>2 DEF ProofMoves, SameHomes
  <2>5. QED BY <1>8, <1>10, <2>2, <2>3, <2>4
<1>11. CASE /\ R.pending # None /\ ~QueueFails(Selected(Queued(R, "retired"), sel))
            /\ route' = [route EXCEPT ![r] = Bound(R, sel)]
            /\ made' = Append(made, [sel |-> sel, r |-> r])
  BY <1>1, <1>11, BoundMoves
<1>12. QED BY <1>3, <1>7, <1>9, <1>10, <1>11

-----------------------------------------------------------------------------
(* The steps that leave the directory alone.                               *)
LEMMA WorkerStep ==
  ASSUME FleetInv, UNCHANGED <<clock, directory, out, homes>>, NEW g \in Gates, NEW w,
         worker' = [worker EXCEPT ![g] = w],
         WorkerGood(w, route, made, clock, heard, identity, session)
  PROVE  FleetInv'
<1>1. Shapes /\ made \in Seq(Made) /\ Longer(made, made) /\ route \in [Routes -> Route]
      /\ out \in [Deliveries -> Outgoing] /\ worker \in [Gates -> Worker]
  BY InvFacts DEF Shapes
<1>2. route' = route /\ made' = made /\ out' = out  BY DEF directory
<1>3. \A x \in Routes :
        Moves(x, route[x], route'[x], made, made, clock, heard, identity, session)
  BY <1>1, <1>2, InvFacts, StillMoves
<1>4. w \in Worker  BY DEF WorkerGood
<1>5. worker' \in [Gates -> Worker]
      /\ \A x \in Gates : worker'[x] = worker[x]
           \/ WorkerGood(worker'[x], route', made, clock, heard, identity, session)
  BY <1>1, <1>2, <1>4
<1>6. QED BY <1>1, <1>2, <1>3, <1>5, SameSelections

(* An exchange that fails.                                                 *)
LEMMA ExchangeFailsInv ==
  ASSUME FleetInv, NEW g \in Gates, ProofExchangeFails(g) \/ UpdateExchangeFails(g)
  PROVE  FleetInv'
<1>1. ASSUME NEW w \in {Idle, AfterProof}
      PROVE  WorkerGood(w, route, made, clock, heard, identity, session)
  BY QuietWorker
<1>2. CASE ProofExchangeFails(g)
  BY <1>1, <1>2, WorkerStep DEF ProofExchangeFails
<1>3. CASE UpdateExchangeFails(g)
  BY <1>1, <1>3, WorkerStep DEF UpdateExchangeFails
<1>4. QED BY <1>2, <1>3

(* claim_route_update.                                                     *)
LEMMA ClaimRouteUpdateInv ==
  ASSUME FleetInv, NEW g \in Gates, ClaimRouteUpdate(g)
  PROVE  FleetInv'
<1>1. UNCHANGED <<clock, directory, out, homes>>  BY DEF ClaimRouteUpdate
<1>2. CASE worker' = [worker EXCEPT ![g] = Idle]
  <2>1. WorkerGood(Idle, route, made, clock, heard, identity, session)  BY QuietWorker
  <2>2. QED BY <1>1, <1>2, <2>1, WorkerStep
<1>3. ASSUME NEW r \in Routes, NEW u \in route[r].updates,
             worker' = [worker EXCEPT ![g] = [pc |-> "update", r |-> r, update |-> u]]
      PROVE  FleetInv'
  <2> DEFINE w == [pc |-> "update", r |-> r, update |-> u]
             R == route[r]
  <2>1. RouteGood(r, R, made, clock, heard) /\ RouteInv(R) /\ R \in Route  BY InvFacts
  <2>2. u \in Update /\ u.revision \in Nat  BY <2>1, RouteFields DEF Update
  <2>3. w \in UpdateWorker  BY <2>2 DEF UpdateWorker
  <2>4. w \in Worker  BY <2>3 DEF Worker
  <2>5. w.pc = "update" /\ w.r = r /\ w.update = u  OBVIOUS
  <2>6. MadeAs(u.sel, r, made)  BY <2>1 DEF RouteGood
  <2>7. worker' = [worker EXCEPT ![g] = w]  BY <1>3
  <2> HIDE DEF w, R
  <2>8. Ordered(R)  BY <2>1 DEF RouteInv
  <2>9. u \in R.updates  BY DEF R
  <2>10. Told(w, R, heard[u.sel.gen], GoneAs(u.sel, identity, session))
    BY <2>2, <2>5, <2>8, <2>9 DEF Told, Ordered
  <2>11. ~Asking(w)  BY <2>5 DEF Asking
  <2>12. WorkerGood(w, route, made, clock, heard, identity, session)
    BY <2>4, <2>5, <2>6, <2>10, <2>11 DEF WorkerGood, R
  <2>13. QED BY <1>1, <2>7, <2>12, WorkerStep
<1>4. QED BY <1>2, <1>3 DEF ClaimRouteUpdate

(* A step of one delivery.                                                 *)
LEMMA OutStep ==
  ASSUME FleetInv, UNCHANGED <<clock, directory, worker, homes>>, NEW d \in Deliveries, NEW o,
         out' = [out EXCEPT ![d] = o], OutGood(o, made, identity)
  PROVE  FleetInv'
<1>1. Shapes /\ out \in [Deliveries -> Outgoing]  BY InvFacts DEF Shapes
<1>2. clock' = clock /\ route' = route /\ made' = made /\ worker' = worker
      /\ identity' = identity /\ session' = session /\ heard' = heard
  BY DEF directory, homes
<1>3. o \in Outgoing  BY DEF OutGood
<1>4. out' \in [Deliveries -> Outgoing] /\ out'[d] = o
      /\ \A x \in Deliveries : x # d => out'[x] = out[x]
  BY <1>1, <1>3
<1>5. \A x \in Deliveries : OutGood(out'[x], made, identity)  BY <1>4 DEF FleetInv
<1>6. Shapes'  BY <1>1, <1>2, <1>4 DEF Shapes
<1>7. QED BY <1>2, <1>5, <1>6 DEF FleetInv

(* A delivery that ended is in good order.                                 *)
LEMMA FreeGood == ASSUME NEW M, NEW I PROVE OutGood(Free, M, I)
BY DEF OutGood, Free, Outgoing

(* What a delivery in flight holds.                                        *)
LEMMA OutFacts ==
  ASSUME FleetInv, NEW d \in Deliveries, out[d].pc # "free"
  PROVE  /\ out[d] \in Sending /\ out[d].sel \in Selection /\ out[d].r \in Routes
         /\ MadeAs(out[d].sel, out[d].r, made)
<1>1. out[d] \in Outgoing /\ MadeAs(out[d].sel, out[d].r, made)  BY DEF FleetInv, OutGood
<1>2. out[d] \in Sending  BY <1>1 DEF Outgoing, Free
<1>3. QED BY <1>1, <1>2 DEF Sending

(* A delivery that goes on keeps its selection.                            *)
LEMMA OutProgress ==
  ASSUME FleetInv, NEW d \in Deliveries, out[d].pc # "free",
         NEW pc \in {"outbox", "queued", "asking", "allowed", "sending", "changed"},
         pc = "changed" => identity[out[d].sel.hub] # out[d].sel.identity
  PROVE  OutGood([out[d] EXCEPT !.pc = pc], made, identity)
<1> DEFINE o == [out[d] EXCEPT !.pc = pc]
<1>1. out[d] \in Sending /\ MadeAs(out[d].sel, out[d].r, made)  BY OutFacts
<1>2. o \in Sending /\ o.sel = out[d].sel /\ o.r = out[d].r /\ o.pc = pc
  BY <1>1 DEF Sending
<1>3. QED BY <1>1, <1>2 DEF OutGood, Outgoing

(* A delivery starts with the selection of its route.                      *)
LEMMA StartsGood ==
  ASSUME FleetInv, NEW r \in Routes, route[r].active # None, NEW pc \in {"queued", "outbox"}
  PROVE  OutGood([pc |-> pc, r |-> r, sel |-> route[r].active], made, identity)
<1> DEFINE sel == route[r].active
           o == [pc |-> pc, r |-> r, sel |-> sel]
<1>1. route[r] \in Route /\ RouteGood(r, route[r], made, clock, heard)  BY InvFacts
<1>2. sel \in Selection  BY <1>1, RouteFields
<1>3. MadeAs(sel, r, made)  BY <1>1 DEF RouteGood
<1> HIDE DEF sel
<1>4. o \in Sending  BY <1>2 DEF Sending
<1>5. o.pc = pc /\ o.r = r /\ o.sel = sel  OBVIOUS
<1>6. o \in Outgoing /\ o.pc # "changed"  BY <1>4, <1>5 DEF Outgoing
<1> HIDE DEF o
<1>7. OutGood(o, made, identity)  BY <1>3, <1>5, <1>6 DEF OutGood
<1>8. QED BY <1>7 DEF o, sel

(* The steps of the deliveries.                                            *)
LEMMA DeliveringInv ==
  ASSUME FleetInv, NEW d \in Deliveries, Delivering(d)
  PROVE  FleetInv'
<1>1. CASE InvalidateIdentity(d)  BY <1>1, InvalidateIdentityInv
<1>2. CASE OutboundTaskClient(d)
  <2>1. UNCHANGED <<clock, directory, worker, homes>> /\ out[d].pc = "queued"
        /\ out' = [out EXCEPT ![d] =
             IF Check(d) = "ok" THEN [out[d] EXCEPT !.pc = "asking"] ELSE Free]
    BY <1>2 DEF OutboundTaskClient
  <2>2. OutGood([out[d] EXCEPT !.pc = "asking"], made, identity)  BY <2>1, OutProgress
  <2>3. OutGood(Free, made, identity)  BY FreeGood
  <2>4. QED BY <2>1, <2>2, <2>3, OutStep
<1>3. CASE FinishAuthorization(d)
  <2>1. UNCHANGED <<clock, directory, worker, homes>> /\ out[d].pc = "allowed"
        /\ out' = [out EXCEPT ![d] = CASE CheckAgain(d) = "ok" -> [out[d] EXCEPT !.pc = "sending"]
                                       [] CheckAgain(d) = "unavailable" -> [out[d] EXCEPT !.pc = "queued"]
                                       [] OTHER -> Free]
    BY <1>3 DEF FinishAuthorization
  <2>2. OutGood([out[d] EXCEPT !.pc = "sending"], made, identity)
        /\ OutGood([out[d] EXCEPT !.pc = "queued"], made, identity)
    BY <2>1, OutProgress
  <2>3. OutGood(Free, made, identity)  BY FreeGood
  <2>4. CASE CheckAgain(d) = "ok"
    <3>1. out' = [out EXCEPT ![d] = [out[d] EXCEPT !.pc = "sending"]]  BY <2>1, <2>4
    <3>2. QED BY <2>1, <2>2, <3>1, OutStep
  <2>5. CASE CheckAgain(d) = "unavailable"
    <3>1. out' = [out EXCEPT ![d] = [out[d] EXCEPT !.pc = "queued"]]  BY <2>1, <2>5
    <3>2. QED BY <2>1, <2>2, <3>1, OutStep
  <2>6. CASE CheckAgain(d) # "ok" /\ CheckAgain(d) # "unavailable"
    <3>1. out' = [out EXCEPT ![d] = Free]  BY <2>1, <2>6
    <3>2. QED BY <2>1, <2>3, <3>1, OutStep
  <2>7. QED BY <2>4, <2>5, <2>6
<1>4. CASE Send(d)  BY <1>4, FreeGood, OutStep DEF Send
<1>5. CASE AuthorizationFails(d)
  <2>1. UNCHANGED <<clock, directory, worker, homes>> /\ out[d].pc # "free"
        /\ out' = [out EXCEPT ![d] =
             IF out[d].pc = "asking" THEN [out[d] EXCEPT !.pc = "queued"] ELSE Free]
    BY <1>5 DEF AuthorizationFails
  <2>2. OutGood([out[d] EXCEPT !.pc = "queued"], made, identity)  BY <2>1, OutProgress
  <2>3. OutGood(Free, made, identity)  BY FreeGood
  <2>4. QED BY <2>1, <2>2, <2>3, OutStep
<1>6. CASE AnswerOut(d)
  <2> DEFINE sel == out[d].sel
  <2>1. UNCHANGED <<clock, directory, worker, homes>> /\ out[d].pc # "free"
    BY <1>6 DEF AnswerOut
  <2> PICK pc \in OutAnswers(d) :
             out' = [out EXCEPT ![d] = IF pc = "free" THEN Free ELSE [out[d] EXCEPT !.pc = pc]]
    BY <1>6 DEF AnswerOut
  <2>2. pc = "changed" => identity[sel.hub] # sel.identity  BY DEF OutAnswers
  <2>3. pc \in {"changed", "queued", "free", "allowed"}  BY DEF OutAnswers
  <2>4. CASE pc = "free"  BY <2>1, <2>4, FreeGood, OutStep
  <2>5. CASE pc # "free"
    <3>1. pc \in {"outbox", "queued", "asking", "allowed", "sending", "changed"}  BY <2>3, <2>5
    <3>2. OutGood([out[d] EXCEPT !.pc = pc], made, identity)  BY <2>1, <2>2, <3>1, OutProgress
    <3>3. QED BY <2>1, <2>5, <3>2, OutStep
  <2>6. QED BY <2>4, <2>5
<1>7. ASSUME NEW r \in Routes, NotificationTarget(d, r) PROVE FleetInv'
  <2>1. UNCHANGED <<clock, directory, worker, homes>> /\ route[r].active # None
        /\ out' = [out EXCEPT ![d] = [pc |-> "outbox", r |-> r, sel |-> route[r].active]]
    BY <1>7 DEF NotificationTarget
  <2>2. OutGood([pc |-> "outbox", r |-> r, sel |-> route[r].active], made, identity)
    BY <2>1, StartsGood
  <2>3. QED BY <2>1, <2>2, OutStep
<1>8. ASSUME NEW r \in Routes, NEW o \in 0..(clock + Skew), Select(d, r, o) PROVE FleetInv'
  <2>1. UNCHANGED <<clock, directory, worker, homes>> /\ route[r].active # None
        /\ out' = [out EXCEPT ![d] = [pc |-> "queued", r |-> r, sel |-> route[r].active]]
    BY <1>8 DEF Select
  <2>2. OutGood([pc |-> "queued", r |-> r, sel |-> route[r].active], made, identity)
    BY <2>1, StartsGood
  <2>3. QED BY <2>1, <2>2, OutStep
<1>9. QED BY <1>1, <1>2, <1>3, <1>4, <1>5, <1>6, <1>7, <1>8 DEF Delivering

-----------------------------------------------------------------------------
(* The steps of the homes, and time.                                       *)
LaterHomes(I, S, J, T) ==
  /\ \A h \in Hubs : I[h] <= J[h]
  /\ \A t \in Tokens : S[t].revoked => T[t].revoked

(* A home that is gone stays gone.                                         *)
LEMMA GoneStays ==
  ASSUME NEW I \in [Hubs -> 0..MaxResets], NEW J \in [Hubs -> 0..MaxResets],
         NEW S, NEW T, LaterHomes(I, S, J, T), NEW sel \in Selection,
         sel.identity <= I[sel.hub]
  PROVE  /\ sel.identity <= J[sel.hub]
         /\ I[sel.hub] # sel.identity => J[sel.hub] # sel.identity
         /\ GoneAs(sel, I, S) => GoneAs(sel, J, T)
<1>1. sel.hub \in Hubs /\ sel.identity \in Int /\ sel.binding \in Tokens  BY DEF Selection
<1>2. I[sel.hub] \in Int /\ J[sel.hub] \in Int /\ I[sel.hub] <= J[sel.hub]
  BY <1>1 DEF LaterHomes
<1>3. sel.identity <= J[sel.hub] /\ (I[sel.hub] # sel.identity => J[sel.hub] # sel.identity)
  BY <1>1, <1>2
<1>4. QED BY <1>1, <1>3 DEF GoneAs, LaterHomes

(* The selections made are selections of homes.                            *)
LEMMA MadeSelections ==
  ASSUME FleetInv, NEW sel, NEW r, MadeAs(sel, r, made)
  PROVE  sel \in Selection /\ r \in Routes /\ sel.identity <= identity[sel.hub]
<1>1. sel.gen \in 1..Len(made) /\ made[sel.gen].sel = sel /\ made[sel.gen].r = r  BY DEF MadeAs
<1>2. made \in Seq(Made)  BY InvFacts
<1>3. made[sel.gen] \in Made  BY <1>1, <1>2, ElementOfSeq
<1>4. SelectionGood(sel.gen, made[sel.gen], route[made[sel.gen].r], heard[sel.gen], identity, session)
  BY <1>1 DEF FleetInv
<1>5. QED BY <1>1, <1>3, <1>4 DEF SelectionGood, Made

(* A task stays in good order when the homes move on.                      *)
LEMMA WorkerLater ==
  ASSUME FleetInv, NEW J \in [Hubs -> 0..MaxResets], NEW T,
         LaterHomes(identity, session, J, T),
         NEW w, WorkerGood(w, route, made, clock, heard, identity, session)
  PROVE  WorkerGood(w, route, made, clock, heard, J, T)
<1>1. w \in Worker /\ identity \in [Hubs -> 0..MaxResets]  BY InvFacts DEF WorkerGood, Shapes
<1>2. CASE Asking(w)
  <2>1. w.pending \in Pending /\ ~Telling(w) /\ (w.pc = "proofAnswered" => w.answer \in Answer)
    BY <1>1, <1>2, WorkerFields
  <2>2. w.pending.hub \in Hubs  BY <2>1 DEF Pending
  <2>3. identity[w.pending.hub] \in Int /\ J[w.pending.hub] \in Int
        /\ identity[w.pending.hub] <= J[w.pending.hub]
    BY <1>1, <2>2 DEF LaterHomes
  <2>4. Asked(w, route[w.r], clock, identity)  BY <1>2 DEF WorkerGood
  <2>5. ASSUME w.pc = "proofAnswered" PROVE w.answer.identity <= J[w.pending.hub]
    <3>1. w.answer.identity <= identity[w.pending.hub]  BY <2>4, <2>5 DEF Asked
    <3>2. w.answer.identity \in Int  BY <2>1, <2>5 DEF Answer
    <3>3. QED BY <2>3, <3>1, <3>2
  <2>6. Asked(w, route[w.r], clock, J)  BY <2>4, <2>5 DEF Asked
  <2>7. QED BY <1>1, <2>1, <2>6 DEF WorkerGood
<1>3. CASE Telling(w)
  <2> DEFINE u == w.update
  <2>1. ~Asking(w)  BY <1>1, <1>3, WorkerFields
  <2>2. MadeAs(u.sel, w.r, made)
        /\ Told(w, route[w.r], heard[u.sel.gen], GoneAs(u.sel, identity, session))
    BY <1>3 DEF WorkerGood
  <2>3. u.sel \in Selection /\ u.sel.identity <= identity[u.sel.hub]  BY <2>2, MadeSelections
  <2>4. GoneAs(u.sel, identity, session) => GoneAs(u.sel, J, T)
    BY <1>1, <2>3, GoneStays
  <2>5. Told(w, route[w.r], heard[u.sel.gen], GoneAs(u.sel, J, T))
    BY <2>2, <2>4 DEF Told
  <2>6. QED BY <1>1, <2>1, <2>2, <2>5 DEF WorkerGood
<1>4. QED BY <1>1, <1>2, <1>3 DEF WorkerGood

(* A step of the homes keeps the invariant.                                *)
LEMMA HomesStep ==
  ASSUME FleetInv, UNCHANGED <<clock, directory, out, heard>>,
         identity' \in [Hubs -> 0..MaxResets], session' \in [Tokens -> Session],
         LaterHomes(identity, session, identity', session'),
         worker' \in [Gates -> Worker],
         \A g \in Gates : \/ worker'[g] = worker[g]
                          \/ WorkerGood(worker'[g], route, made, clock, heard, identity', session')
  PROVE  FleetInv'
<1>1. Shapes /\ identity \in [Hubs -> 0..MaxResets] /\ made \in Seq(Made)  BY InvFacts DEF Shapes
<1>2. clock' = clock /\ route' = route /\ made' = made /\ out' = out /\ heard' = heard
  BY DEF directory
<1>3. Shapes'  BY <1>1, <1>2 DEF Shapes
<1>4. ASSUME NEW i \in 1..Len(made)
      PROVE  SelectionGood(i, made[i], route[made[i].r], heard[i], identity', session')
  <2>1. SelectionGood(i, made[i], route[made[i].r], heard[i], identity, session)  BY DEF FleetInv
  <2>2. made[i] \in Made  BY <1>1, ElementOfSeq
  <2>3. made[i].sel \in Selection /\ made[i].sel.identity <= identity[made[i].sel.hub]
    BY <2>1, <2>2 DEF Made, SelectionGood
  <2>4. made[i].sel.identity <= identity'[made[i].sel.hub]
        /\ (GoneAs(made[i].sel, identity, session) => GoneAs(made[i].sel, identity', session'))
    <3> DEFINE sel == made[i].sel
    <3>1. sel \in Selection /\ sel.identity <= identity[sel.hub]  BY <2>3
    <3> HIDE DEF sel
    <3>2. sel.identity <= identity'[sel.hub]
          /\ (GoneAs(sel, identity, session) => GoneAs(sel, identity', session'))
      BY <1>1, <3>1, GoneStays, Zenon
    <3>3. QED BY <3>2 DEF sel
  <2>5. QED BY <2>1, <2>4 DEF SelectionGood
<1>5. ASSUME NEW g \in Gates
      PROVE  WorkerGood(worker'[g], route, made, clock, heard, identity', session')
  <2>1. WorkerGood(worker[g], route, made, clock, heard, identity, session)  BY DEF FleetInv
  <2>2. WorkerGood(worker[g], route, made, clock, heard, identity', session')
    BY <2>1, WorkerLater
  <2>3. QED BY <2>2
<1>6. ASSUME NEW d \in Deliveries PROVE OutGood(out[d], made, identity')
  <2>1. OutGood(out[d], made, identity)  BY DEF FleetInv
  <2>2. CASE out[d].pc = "changed"
    <3>1. MadeAs(out[d].sel, out[d].r, made) /\ identity[out[d].sel.hub] # out[d].sel.identity
      BY <2>1, <2>2 DEF OutGood
    <3>2. out[d].sel \in Selection /\ out[d].sel.identity <= identity[out[d].sel.hub]
      BY <3>1, MadeSelections
    <3>3. identity'[out[d].sel.hub] # out[d].sel.identity  BY <1>1, <3>1, <3>2, GoneStays
    <3>4. QED BY <2>1, <3>3 DEF OutGood
  <2>3. CASE out[d].pc # "changed"  BY <2>1, <2>3 DEF OutGood
  <2>4. QED BY <2>2, <2>3
<1>7. QED BY <1>2, <1>3, <1>4, <1>5, <1>6 DEF FleetInv

(* The homes may also stay as they are.                                    *)
LEMMA SameHomesLater ==
  ASSUME FleetInv, NEW T, \A t \in Tokens : session[t].revoked => T[t].revoked
  PROVE  LaterHomes(identity, session, identity, T)
<1>1. \A h \in Hubs : identity[h] \in Int  BY InvFacts DEF Shapes
<1>2. QED BY <1>1 DEF LaterHomes

(* The Owner confirms or revokes.                                          *)
LEMMA OwnerInv ==
  ASSUME FleetInv, NEW t \in Tokens, OwnerConfirms(t) \/ OwnerRevokes(t)
  PROVE  FleetInv'
<1>1. Shapes /\ session \in [Tokens -> Session] /\ clock \in 0..MaxTime
      /\ worker \in [Gates -> Worker] /\ identity \in [Hubs -> 0..MaxResets]
  BY InvFacts DEF Shapes
<1>2. UNCHANGED <<clock, directory, worker, out, identity, heard>>
  BY DEF OwnerConfirms, OwnerRevokes
<1>3. session' \in [Tokens -> Session]
      /\ \A x \in Tokens : session[x].revoked => session'[x].revoked
  <2> DEFINE c == [session[t] EXCEPT !.confirmed = clock]
             v == [session[t] EXCEPT !.revoked = TRUE]
  <2>1. session' = [session EXCEPT ![t] = c] \/ session' = [session EXCEPT ![t] = v]
    BY DEF OwnerConfirms, OwnerRevokes
  <2>2. c \in Session /\ c.revoked = session[t].revoked  BY <1>1 DEF Session
  <2>3. v \in Session /\ v.revoked = TRUE  BY <1>1 DEF Session
  <2> HIDE DEF c, v
  <2>4. QED BY <1>1, <2>1, <2>2, <2>3
<1>4. LaterHomes(identity, session, identity, session')  BY <1>3, SameHomesLater
<1>5. QED BY <1>1, <1>2, <1>3, <1>4, HomesStep

(* A home gets a new certificate.                                          *)
LEMMA NewCertificateInv ==
  ASSUME FleetInv, NEW h \in Hubs, NEW wiped \in BOOLEAN, NewCertificate(h, wiped)
  PROVE  FleetInv'
<1>1. Shapes /\ session \in [Tokens -> Session] /\ worker \in [Gates -> Worker]
      /\ identity \in [Hubs -> 0..MaxResets]
  BY InvFacts DEF Shapes
<1>2. UNCHANGED <<clock, directory, worker, out, heard>> /\ identity[h] < MaxResets
      /\ identity' = [identity EXCEPT ![h] = identity[h] + 1]
      /\ session' = [t \in Tokens |->
                       IF wiped /\ HubOf[t] = h /\ session[t].phone # None
                       THEN [session[t] EXCEPT !.revoked = TRUE] ELSE session[t]]
  BY DEF NewCertificate
<1>3. identity[h] + 1 \in 0..MaxResets /\ identity[h] <= identity[h] + 1
  <2>1. identity[h] \in 0..MaxResets  BY <1>1
  <2>2. QED BY <1>2, <2>1, LimitTypes
<1>4. \A x \in Hubs : identity[x] \in Int  BY <1>1
<1>5. identity' \in [Hubs -> 0..MaxResets] /\ \A x \in Hubs : identity[x] <= identity'[x]
  BY <1>1, <1>2, <1>3, <1>4
<1>6. ASSUME NEW t \in Tokens
      PROVE  session'[t] \in Session /\ (session[t].revoked => session'[t].revoked)
  <2> DEFINE v == [session[t] EXCEPT !.revoked = TRUE]
  <2>1. v \in Session /\ v.revoked = TRUE  BY <1>1 DEF Session
  <2>2. session'[t] = v \/ session'[t] = session[t]  BY <1>2
  <2> HIDE DEF v
  <2>3. QED BY <1>1, <2>1, <2>2
<1>7. session' \in [Tokens -> Session]  BY <1>2, <1>6
<1>8. LaterHomes(identity, session, identity', session')  BY <1>5, <1>6 DEF LaterHomes
<1>9. QED BY <1>1, <1>2, <1>5, <1>7, <1>8, HomesStep

(* A home answers a poll.                                                  *)
LEMMA AnswerProofInv ==
  ASSUME FleetInv, NEW g \in Gates, AnswerProof(g)
  PROVE  FleetInv'
<1> DEFINE w == worker[g]
           p == w.pending
<1>1. Shapes /\ session \in [Tokens -> Session] /\ worker \in [Gates -> Worker]
      /\ identity \in [Hubs -> 0..MaxResets] /\ clock \in Nat
  BY InvFacts DEF Shapes
<1>2. w.pc = "proof" /\ UNCHANGED <<clock, directory, out, identity, heard>>  BY DEF AnswerProof
<1>3. PICK a \in ProofAnswers(w) :
        /\ worker' = [worker EXCEPT ![g] =
             [pc |-> "proofAnswered", r |-> w.r, pending |-> p,
              deadline |-> w.deadline, answer |-> a]]
        /\ session' = IF a.status = "awaiting"
                      THEN [session EXCEPT ![p.id].phone = w.r] ELSE session
  BY DEF AnswerProof
<1>4. w \in Worker /\ Asking(w)  BY <1>1, <1>2 DEF Asking
<1>5. w.r \in Routes /\ p \in Pending /\ w.deadline \in Nat  BY <1>4, WorkerFields
<1>6. p.hub \in Hubs /\ p.id \in Tokens  BY <1>5 DEF Pending
<1>7. Asked(w, route[w.r], clock, identity)  BY <1>4 DEF FleetInv, WorkerGood
<1>8. a \in Answer /\ a.identity = identity[p.hub]
  <2>1. session[p.id].confirmed \in (0..MaxTime) \cup {None}  BY <1>1, <1>6 DEF Session
  <2>2. identity[p.hub] \in 0..MaxResets  BY <1>1, <1>6
  <2>3. (clock + 1)..(clock + ProofLife) \subseteq Nat /\ clock + ProofLife \in Nat
    BY <1>1, LimitTypes
  <2> DEFINE device == identity[p.hub]
             c == session[p.id].confirmed
  <2>4. \/ a \in [status: {"awaiting"}, identity: {device}, confirmed: {None},
                  until: (clock + 1)..(clock + ProofLife)]
        \/ a \in [status: {"bound"}, identity: {device}, confirmed: {c} \ {None},
                  until: {clock + ProofLife}]
        \/ a \in [status: {"refused"}, identity: {device}, confirmed: {None}, until: {0}]
    BY DEF ProofAnswers
  <2>5. device \in 0..MaxResets /\ c \in (0..MaxTime) \cup {None}  BY <2>1, <2>2
  <2> HIDE DEF device, c
  <2>6. a \in Answer /\ a.identity = device
    <3>1. CASE a \in [status: {"awaiting"}, identity: {device}, confirmed: {None},
                  until: (clock + 1)..(clock + ProofLife)]
      BY <2>3, <2>5, <3>1 DEF Answer
    <3>2. CASE a \in [status: {"bound"}, identity: {device}, confirmed: {c} \ {None},
                  until: {clock + ProofLife}]
      BY <2>3, <2>5, <3>2 DEF Answer
    <3>3. CASE a \in [status: {"refused"}, identity: {device}, confirmed: {None}, until: {0}]
      BY <2>5, <3>3 DEF Answer
    <3>4. QED BY <2>4, <3>1, <3>2, <3>3
  <2>7. QED BY <2>6 DEF device
<1> DEFINE v == [pc |-> "proofAnswered", r |-> w.r, pending |-> p,
                 deadline |-> w.deadline, answer |-> a]
<1>9. v \in AnsweredWorker  BY <1>5, <1>8 DEF AnsweredWorker
<1>10. v \in Worker  BY <1>9 DEF Worker
<1>11. v.pc = "proofAnswered" /\ v.r = w.r /\ v.pending = p /\ v.deadline = w.deadline
       /\ v.answer = a
  OBVIOUS
<1>12. worker' = [worker EXCEPT ![g] = v]  BY <1>3
<1> HIDE DEF v
<1>13. Asked(v, route[w.r], clock, identity)
  <2>1. identity[p.hub] \in Int  BY <1>1, <1>6
  <2>2. v.answer.identity <= identity[p.hub]  BY <1>8, <1>11, <2>1
  <2>3. QED BY <1>7, <1>11, <2>2 DEF Asked
<1>14. ~Telling(v)  BY <1>11 DEF Telling
<1>15. WorkerGood(v, route, made, clock, heard, identity, session')
  BY <1>10, <1>11, <1>13, <1>14 DEF WorkerGood
<1>16. session' \in [Tokens -> Session]
       /\ \A x \in Tokens : session[x].revoked => session'[x].revoked
  <2> DEFINE c == [session[p.id] EXCEPT !.phone = w.r]
  <2>1. session' = [session EXCEPT ![p.id] = c] \/ session' = session  BY <1>3
  <2>2. c \in Session /\ c.revoked = session[p.id].revoked  BY <1>1, <1>5, <1>6 DEF Session
  <2> HIDE DEF c
  <2>3. QED BY <1>1, <1>6, <2>1, <2>2
<1>17. LaterHomes(identity, session, identity, session')  BY <1>16, SameHomesLater
<1>18. worker' \in [Gates -> Worker] /\ worker'[g] = v
       /\ \A x \in Gates : x # g => worker'[x] = worker[x]
  BY <1>1, <1>10, <1>12
<1>19. \A x \in Gates : worker'[x] = worker[x]
         \/ WorkerGood(worker'[x], route, made, clock, heard, identity, session')
  BY <1>15, <1>18
<1>20. QED BY <1>1, <1>2, <1>16, <1>17, <1>18, <1>19, HomesStep

(* Time passes, but no further than the deadline of a poll.                *)
LEMMA TickInv ==
  ASSUME FleetInv, Tick
  PROVE  FleetInv'
<1>1. Shapes /\ clock \in 0..MaxTime /\ clock \in Nat  BY InvFacts DEF Shapes
<1>2. clock' = clock + 1 /\ clock < MaxTime /\ UNCHANGED <<directory, worker, out, homes>>
  BY DEF Tick
<1>3. route' = route /\ made' = made /\ worker' = worker /\ out' = out
      /\ identity' = identity /\ session' = session /\ heard' = heard
  BY <1>2 DEF directory, homes
<1>4. clock' \in 0..MaxTime /\ clock' \in Nat  BY <1>1, <1>2, LimitTypes
<1>5. Shapes'  BY <1>1, <1>3, <1>4 DEF Shapes
<1>6. ASSUME NEW r \in Routes PROVE RouteGood(r, route[r], made, clock', heard)
  <2>1. RouteGood(r, route[r], made, clock, heard) /\ route[r] \in Route  BY InvFacts
  <2>2. ProofKept(route[r], clock')
    <3> SUFFICES ASSUME route[r].pending # None,
                        clock' < route[r].pending.occurred + SeenLife
                 PROVE  Remembered(route[r], route[r].pending)
      BY DEF ProofKept
    <3>1. route[r].pending \in Pending  BY <2>1, RouteFields
    <3>2. route[r].pending.occurred \in Int  BY <3>1 DEF Pending
    <3>3. SeenLife \in Int  BY LimitTypes DEF SeenLife
    <3>4. clock < route[r].pending.occurred + SeenLife  BY <1>1, <1>2, <3>2, <3>3
    <3>5. QED BY <2>1, <3>4 DEF RouteGood, ProofKept
  <2>3. QED BY <2>1, <2>2 DEF RouteGood
<1>7. ASSUME NEW g \in Gates
      PROVE  WorkerGood(worker[g], route, made, clock', heard, identity, session)
  <2>1. WorkerGood(worker[g], route, made, clock, heard, identity, session)  BY DEF FleetInv
  <2>2. CASE Asking(worker[g])
    <3>1. clock < worker[g].deadline  BY <2>2 DEF Tick, Asking
    <3>2. worker[g].deadline \in Nat  BY <2>1, <2>2, WorkerFields DEF WorkerGood
    <3>3. clock' <= worker[g].deadline  BY <1>1, <1>2, <3>1, <3>2
    <3>4. Asked(worker[g], route[worker[g].r], clock', identity)
      BY <2>1, <2>2, <3>3 DEF WorkerGood, Asked
    <3>5. QED BY <2>1, <3>4 DEF WorkerGood
  <2>3. CASE ~Asking(worker[g])  BY <2>1, <2>3 DEF WorkerGood
  <2>4. QED BY <2>2, <2>3
<1>8. QED BY <1>3, <1>5, <1>6, <1>7 DEF FleetInv

(* A home applies an update, or finds it stale, or refuses it.             *)
LEMMA AnswerRouteUpdateInv ==
  ASSUME FleetInv, NEW g \in Gates, AnswerRouteUpdate(g)
  PROVE  FleetInv'
<1> DEFINE w == worker[g]
           r == w.r
           u == w.update
           k == u.sel.gen
           R == route[r]
           gone == GoneAs(u.sel, identity, session)
           answer == IF gone THEN "refused"
                     ELSE IF u.revision >= heard[k].revision THEN "applied" ELSE "stale"
           v == [pc |-> "updateAnswered", r |-> r, update |-> u, answer |-> answer]
           said == [revision |-> u.revision, status |-> u.status]
<1>1. Shapes /\ worker \in [Gates -> Worker] /\ heard \in [Generations -> Heard]
      /\ made \in Seq(Made) /\ route \in [Routes -> Route] /\ Len(made) \in Nat
  BY InvFacts, LenProperties DEF Shapes
<1>2. w.pc = "update" /\ UNCHANGED <<clock, directory, out, identity, session>>
  BY DEF AnswerRouteUpdate
<1>3. worker' = [worker EXCEPT ![g] = v]
      /\ heard' = IF ~gone /\ u.revision > heard[k].revision
                  THEN [heard EXCEPT ![k] = said] ELSE heard
  BY DEF AnswerRouteUpdate, GoneAs
<1>4. w \in Worker /\ Telling(w)  BY <1>1, <1>2 DEF Telling
<1>5. r \in Routes /\ u \in Update  BY <1>4, WorkerFields
<1>6. k \in Generations /\ u.revision \in Nat /\ said \in Heard
  <2>1. u.sel \in Selection /\ u.revision \in Nat /\ u.status \in Statuses  BY <1>5 DEF Update
  <2>2. QED BY <2>1 DEF Selection, Heard
<1>7. MadeAs(u.sel, r, made) /\ Told(w, R, heard[k], gone)
  BY <1>4 DEF FleetInv, WorkerGood
<1>8. RouteGood(r, R, made, clock, heard)  BY <1>5, InvFacts
<1>9. heard[k].revision \in Nat  BY <1>1, <1>6 DEF Heard
<1>10. k \in 1..Len(made) /\ made[k].sel = u.sel /\ made[k].r = r  BY <1>7 DEF MadeAs
<1>11. answer \in {"applied", "refused", "stale"}  OBVIOUS
<1>12. (answer = "refused" => gone)
       /\ (answer = "applied" => ~gone /\ u.revision >= heard[k].revision)
  OBVIOUS
<1> HIDE DEF answer
<1>13. v \in ReceiptWorker  BY <1>5, <1>11 DEF ReceiptWorker
<1>14. v \in Worker  BY <1>13 DEF Worker
<1>15. v.pc = "updateAnswered" /\ v.r = r /\ v.update = u /\ v.answer = answer  OBVIOUS
<1> HIDE DEF v
<1>16. ~Asking(v)  BY <1>15 DEF Asking
<1>17. worker' \in [Gates -> Worker] /\ worker'[g] = v
       /\ \A x \in Gates : x # g => worker'[x] = worker[x]
  BY <1>1, <1>3, <1>14
<1>18. clock' = clock /\ route' = route /\ made' = made /\ out' = out
       /\ identity' = identity /\ session' = session
  BY <1>2 DEF directory
<1>19. said.revision = u.revision /\ said.status = u.status  OBVIOUS
<1> HIDE DEF w, r, u, k, R, gone, said
<1>20. u.revision <= R.revision
       /\ (\A x \in R.updates : x.sel.gen = k
             => x.revision >= u.revision /\ (x.revision = u.revision => x = u))
       /\ ((\A x \in R.updates : x.sel.gen # k) => gone \/ heard[k].revision >= u.revision)
  BY <1>7 DEF Told, u, k
<1>21. CASE heard' = heard /\ ~(~gone /\ u.revision > heard[k].revision)
  <2>1. answer = "applied" => heard[k].revision >= u.revision
    BY <1>6, <1>9, <1>12, <1>21
  <2>2. Told(v, R, heard[k], gone)
    BY <1>12, <1>15, <1>20, <2>1 DEF Told, k
  <2>3. WorkerGood(v, route, made, clock, heard, identity, session)
    BY <1>7, <1>14, <1>15, <1>16, <2>2 DEF WorkerGood, R, k, gone
  <2>4. UNCHANGED <<clock, directory, out, homes>>
    BY <1>18, <1>21 DEF directory, homes
  <2>5. QED BY <1>3, <2>3, <2>4, WorkerStep
<1>22. CASE heard' = [heard EXCEPT ![k] = said] /\ ~gone /\ u.revision > heard[k].revision
  <2>1. heard' \in [Generations -> Heard] /\ heard'[k] = said
        /\ \A i \in Generations : i # k => heard'[i] = heard[i]
    BY <1>1, <1>6, <1>22
  <2>2. PICK x \in R.updates : x.sel.gen = k
    <3>1. ~(heard[k].revision >= u.revision)  BY <1>6, <1>9, <1>22
    <3>2. QED BY <1>20, <1>22, <3>1
  <2>3. Shapes'  BY <1>1, <1>17, <1>18, <2>1 DEF Shapes
  <2>4. ASSUME NEW y \in Routes PROVE RouteGood(y, route[y], made, clock, heard')
    <3>1. RouteGood(y, route[y], made, clock, heard) /\ route[y] \in Route  BY InvFacts
    <3>2. ASSUME NEW z \in route[y].updates PROVE Agrees(heard'[z.sel.gen], z)
      <4>1. MadeAs(z.sel, y, made) /\ Agrees(heard[z.sel.gen], z)  BY <3>1 DEF RouteGood
      <4>2. z.sel.gen \in Generations /\ z.revision \in Nat
        BY <3>1, RouteFields DEF Update, Selection
      <4>3. CASE z.sel.gen # k  BY <2>1, <4>1, <4>2, <4>3
      <4>4. CASE z.sel.gen = k
        <5>1. y = r  BY <1>10, <4>1, <4>4 DEF MadeAs
        <5>2. z \in R.updates  BY <5>1 DEF R
        <5>3. z.revision >= u.revision /\ (z.revision = u.revision => z = u)
          BY <1>20, <4>4, <5>2
        <5>4. Agrees(said, z)  BY <1>6, <1>19, <4>2, <5>3 DEF Agrees
        <5>5. QED BY <2>1, <4>4, <5>4
      <4>5. QED BY <4>3, <4>4
    <3>3. QED BY <3>1, <3>2 DEF RouteGood
  <2>5. ASSUME NEW i \in 1..Len(made)
        PROVE  SelectionGood(i, made[i], route[made[i].r], heard'[i], identity, session)
    <3>1. SelectionGood(i, made[i], route[made[i].r], heard[i], identity, session)
      BY DEF FleetInv
    <3>2. i \in Generations
      <4>1. made[i] \in Made  BY <1>1, ElementOfSeq
      <4>2. made[i].sel.gen \in Generations  BY <4>1 DEF Made, Selection
      <4>3. QED BY <3>1, <4>2 DEF SelectionGood
    <3>3. CASE i # k  BY <2>1, <3>1, <3>2, <3>3
    <3>4. CASE i = k
      <4>1. route[made[i].r] = R /\ made[i].sel = u.sel  BY <1>10, <3>4 DEF R
      <4>2. said.revision <= R.revision  BY <1>19, <1>20
      <4>3. made[i].sel.gen = k  BY <3>1, <3>4 DEF SelectionGood
      <4>4. Reports(R, made[i].sel, heard[i]) => Reports(R, made[i].sel, said)
        BY <2>2, <4>3 DEF Reports
      <4>5. SelectionGood(i, made[i], R, said, identity, session)
        BY <3>1, <4>1, <4>2, <4>4 DEF SelectionGood
      <4>6. QED BY <2>1, <3>4, <4>1, <4>5
    <3>5. QED BY <3>3, <3>4
  <2>6. ASSUME NEW y \in Gates
        PROVE  WorkerGood(worker'[y], route, made, clock, heard', identity, session)
    <3>1. CASE y = g
      <4>1. heard'[k].revision >= u.revision  BY <1>6, <1>19, <2>1
      <4>2. Told(v, R, heard'[k], gone)
        BY <1>12, <1>15, <1>20, <2>2, <4>1 DEF Told, k
      <4>3. WorkerGood(v, route, made, clock, heard', identity, session)
        BY <1>7, <1>14, <1>15, <1>16, <4>2 DEF WorkerGood, R, k, gone
      <4>4. QED BY <1>17, <3>1, <4>3
    <3>2. CASE y # g
      <4> DEFINE q == worker[y]
                 b == q.update
                 j == b.sel.gen
      <4>1. WorkerGood(q, route, made, clock, heard, identity, session) /\ worker'[y] = q
        BY <1>17, <3>2 DEF FleetInv
      <4>2. CASE ~Telling(q)  BY <4>1, <4>2 DEF WorkerGood
      <4>3. CASE Telling(q)
        <5>1. q \in Worker /\ MadeAs(b.sel, q.r, made)
              /\ Told(q, route[q.r], heard[j], GoneAs(b.sel, identity, session))
              /\ (Asking(q) => Asked(q, route[q.r], clock, identity))
          BY <4>1, <4>3 DEF WorkerGood
        <5>2. b \in Update  BY <4>3, <5>1, WorkerFields
        <5>3. j \in Generations /\ b.revision \in Nat  BY <5>2 DEF Update, Selection
        <5> HIDE DEF q, b, j
        <5>4. Told(q, route[q.r], heard'[j], GoneAs(b.sel, identity, session))
          <6>1. CASE j # k  BY <2>1, <5>1, <5>3, <6>1
          <6>2. CASE j = k
            <7>1. q.r = r  BY <1>10, <5>1, <6>2 DEF MadeAs, j
            <7>2. x \in route[q.r].updates /\ x.sel.gen = j  BY <2>2, <6>2, <7>1 DEF R
            <7>3. heard[j].revision >= b.revision => heard'[j].revision >= b.revision
              BY <1>6, <1>9, <1>19, <1>22, <2>1, <5>3, <6>2
            <7>4. QED BY <5>1, <7>2, <7>3 DEF Told, b, j
          <6>3. QED BY <6>1, <6>2
        <5>5. WorkerGood(q, route, made, clock, heard', identity, session)
          BY <5>1, <5>4 DEF WorkerGood, b, j
        <5>6. QED BY <4>1, <5>5
      <4>4. QED BY <4>2, <4>3
    <3>3. QED BY <3>1, <3>2
  <2>7. ASSUME NEW i \in Generations, i > Len(made) PROVE heard'[i].revision = 0
    <3>1. i # k  BY <1>1, <1>10, <2>7
    <3>2. QED BY <2>1, <2>7, <3>1 DEF FleetInv
  <2>8. QED BY <1>18, <2>3, <2>4, <2>5, <2>6, <2>7 DEF FleetInv
<1>23. QED BY <1>3, <1>21, <1>22

(* The empty directory.                                                    *)
LEMMA InitInv == Init => FleetInv
<1> SUFFICES ASSUME Init PROVE FleetInv  OBVIOUS
<1>1. clock = 0 /\ route = [r \in Routes |-> EmptyRoute] /\ made = <<>>
      /\ worker = [g \in Gates |-> Idle] /\ out = [d \in Deliveries |-> Free]
      /\ identity = [h \in Hubs |-> 0] /\ session = [t \in Tokens |-> NoSession]
      /\ heard = [g \in Generations |-> [revision |-> 0, status |-> "retired"]]
  BY DEF Init
<1>2. EmptyRoute \in Route
  <2>1. 0 \in 0..(MaxTime + Skew)  BY LimitTypes
  <2>2. QED BY <2>1 DEF EmptyRoute, Route
<1>3. EmptyRoute.active = None /\ EmptyRoute.pending = None /\ EmptyRoute.seen = {}
      /\ EmptyRoute.newest = 0 /\ EmptyRoute.revision = 0 /\ EmptyRoute.updates = {}
  BY DEF EmptyRoute
<1>4. RouteInv(EmptyRoute)
  <2>1. IsFiniteSet({}) /\ Cardinality({}) = 0  BY FS_EmptySet
  <2>2. UpdatesFit(EmptyRoute) /\ SeenFit(EmptyRoute)
    BY <1>3, <2>1, LimitTypes DEF UpdatesFit, SeenFit
  <2>3. Ordered(EmptyRoute) /\ Times(EmptyRoute)  BY <1>3 DEF Ordered, Times
  <2>4. Room(EmptyRoute)  BY <1>3, LimitTypes DEF Room
  <2>5. QED BY <1>2, <2>2, <2>3, <2>4 DEF RouteInv
<1>5. \A r \in Routes : RouteGood(r, route[r], made, clock, heard)
  BY <1>1, <1>3, <1>4 DEF RouteGood, ProofKept
<1>6. \A g \in Gates : WorkerGood(worker[g], route, made, clock, heard, identity, session)
  BY <1>1, QuietWorker
<1>7. \A d \in Deliveries : OutGood(out[d], made, identity)  BY <1>1, FreeGood
<1>8. Len(made) = 0 /\ made \in Seq(Made)  BY <1>1
<1>9. Numbered(made, route)
  <2> DEFINE f == [i \in 1..Len(made) |-> 1]
  <2>1. 1..Len(made) = {}  BY <1>8
  <2>2. f \in [1..Len(made) -> 1..MaxRevision]  BY <2>1
  <2>3. Numbering(f, made, route)  BY <2>1 DEF Numbering
  <2>4. QED BY <2>2, <2>3 DEF Numbered
<1>10. Shapes
  <2>1. clock \in 0..MaxTime /\ 0 \in 0..MaxResets  BY <1>1, LimitTypes
  <2>2. worker \in [Gates -> Worker] /\ out \in [Deliveries -> Outgoing]
    BY <1>1 DEF Worker, Outgoing
  <2>3. NoSession \in Session  BY DEF NoSession, Session
  <2>4. [revision |-> 0, status |-> "retired"] \in Heard  BY DEF Heard, Statuses
  <2>5. session \in [Tokens -> Session]  BY <1>1, <2>3
  <2>6. heard \in [Generations -> Heard]  BY <1>1, <2>4
  <2>7. identity \in [Hubs -> 0..MaxResets]  BY <1>1, <2>1
  <2>8. route \in [Routes -> Route]  BY <1>1, <1>2
  <2>9. QED BY <1>8, <2>1, <2>2, <2>5, <2>6, <2>7, <2>8 DEF Shapes
<1>11. \A i \in 1..Len(made) :
         SelectionGood(i, made[i], route[made[i].r], heard[i], identity, session)
  BY <1>8
<1>12. \A i \in Generations : heard[i].revision = 0  BY <1>1
<1>13. QED BY <1>5, <1>6, <1>7, <1>9, <1>10, <1>11, <1>12 DEF FleetInv

(* A step that changes nothing.                                            *)
LEMMA StutterInv == FleetInv /\ UNCHANGED vars => FleetInv'
<1> SUFFICES ASSUME FleetInv, UNCHANGED vars PROVE FleetInv'  OBVIOUS
<1>1. clock' = clock /\ route' = route /\ made' = made /\ worker' = worker /\ out' = out
      /\ identity' = identity /\ session' = session /\ heard' = heard
  BY DEF vars
<1>2. QED BY <1>1 DEF FleetInv, Shapes

(* Every step keeps the invariant.                                         *)
LEMMA StepInv == FleetInv /\ [Next]_vars => FleetInv'
<1> SUFFICES ASSUME FleetInv, [Next]_vars PROVE FleetInv'  OBVIOUS
<1>1. CASE UNCHANGED vars  BY <1>1, StutterInv
<1>2. CASE Tick  BY <1>2, TickInv
<1>3. ASSUME NEW r \in Routes, NEW t \in Tokens, NEW o \in 0..(clock + Skew), Begin(r, t, o)
      PROVE  FleetInv'
  BY <1>3, BeginInv
<1>4. ASSUME NEW g \in Gates, BindingLoop(g) PROVE FleetInv'
  BY <1>4, ClaimInv, FinishInv, ExchangeFailsInv, ClaimRouteUpdateInv, FinishRouteUpdateInv
  DEF BindingLoop
<1>5. ASSUME NEW g \in Gates, AnswerProof(g) PROVE FleetInv'  BY <1>5, AnswerProofInv
<1>6. ASSUME NEW g \in Gates, AnswerRouteUpdate(g) PROVE FleetInv'
  BY <1>6, AnswerRouteUpdateInv
<1>7. ASSUME NEW d \in Deliveries, Delivering(d) PROVE FleetInv'  BY <1>7, DeliveringInv
<1>8. ASSUME NEW t \in Tokens, OwnerConfirms(t) \/ OwnerRevokes(t) PROVE FleetInv'
  BY <1>8, OwnerInv
<1>9. ASSUME NEW h \in Hubs, NEW wiped \in BOOLEAN, NewCertificate(h, wiped) PROVE FleetInv'
  BY <1>9, NewCertificateInv
<1>10. QED
  BY <1>1, <1>2, <1>3, <1>4, <1>5, <1>6, <1>7, <1>8, <1>9, Zenon DEF Next

(* The invariant holds in every reachable state, for any number of phones, *)
(* homes, tokens, gateway processes and deliveries and for every limit.    *)
THEOREM FleetInvariance == Spec => []FleetInv
<1>1. Init => FleetInv  BY InitInv
<1>2. FleetInv /\ [Next]_vars => FleetInv'  BY StepInv
<1>3. QED BY <1>1, <1>2, PTL DEF Spec

-----------------------------------------------------------------------------
(* What the homes are told.                                                *)
LEMMA InvTypes == FleetInv => FleetTypeOK
<1> SUFFICES ASSUME FleetInv PROVE FleetTypeOK  OBVIOUS
<1>1. Shapes  BY InvFacts
<1>2. ASSUME NEW r \in Routes
      PROVE  /\ route[r] \in Route
             /\ Cardinality(route[r].updates) <= UpdateLimit
             /\ Cardinality(route[r].seen) <= SeenLimit
             /\ route[r].revision <= MaxRevision
  <2>1. RouteInv(route[r])  BY InvFacts
  <2>2. QED BY <2>1 DEF RouteInv, UpdatesFit, SeenFit, Room
<1>3. ASSUME NEW g \in Gates
      PROVE  worker[g].pc \in {"idle", "proof", "proofAnswered", "afterProof", "update",
                               "updateAnswered"}
  <2>1. worker[g] \in Worker  BY <1>1 DEF Shapes
  <2>2. worker[g] = Idle \/ worker[g] = AfterProof \/ worker[g] \in ProofWorker
        \/ worker[g] \in AnsweredWorker \/ worker[g] \in UpdateWorker
        \/ worker[g] \in ReceiptWorker
    BY <2>1 DEF Worker
  <2>3. QED
    BY <2>2 DEF Idle, AfterProof, ProofWorker, AnsweredWorker, UpdateWorker, ReceiptWorker
<1>4. ASSUME NEW d \in Deliveries
      PROVE  out[d].pc \in {"free", "outbox", "queued", "asking", "allowed", "sending", "changed"}
  <2>1. out[d] \in Outgoing  BY <1>1 DEF Shapes
  <2>2. QED BY <2>1 DEF Outgoing, Sending, Free
<1>5. QED BY <1>1, <1>2, <1>3, <1>4 DEF FleetTypeOK, Shapes

(* What a home that is not gone knows, or is about to be told, is the      *)
(* truth.                                                                  *)
LEMMA ReportedStands ==
  ASSUME FleetInv, NEW r \in Routes, NEW sel, MadeAs(sel, r, made), ~Gone(sel)
  PROVE  StandsAs(route[r], sel, Reported(r, sel))
<1> DEFINE us == {u \in route[r].updates : u.sel.gen = sel.gen}
<1>1. sel.gen \in 1..Len(made) /\ made[sel.gen].sel = sel /\ made[sel.gen].r = r  BY DEF MadeAs
<1>2. SelectionGood(sel.gen, made[sel.gen], route[r], heard[sel.gen], identity, session)
  BY <1>1 DEF FleetInv
<1>3. ~GoneAs(sel, identity, session)  BY DEF Gone, GoneAs
<1>4. Reports(route[r], sel, heard[sel.gen])  BY <1>1, <1>2, <1>3 DEF SelectionGood
<1>5. Reported(r, sel) =
        IF us = {} THEN heard[sel.gen].status ELSE (CHOOSE u \in us : TRUE).status
  BY DEF Reported
<1>6. CASE us = {}
  <2>1. \A u \in route[r].updates : u.sel.gen # sel.gen  BY <1>6
  <2>2. QED BY <1>4, <1>5, <1>6, <2>1 DEF Reports
<1>7. CASE us # {}
  <2>1. (CHOOSE u \in us : TRUE) \in us  BY <1>7
  <2> DEFINE c == CHOOSE u \in us : TRUE
  <2>2. c \in route[r].updates /\ c.sel.gen = sel.gen  BY <2>1
  <2>3. Reported(r, sel) = c.status  BY <1>5, <1>7
  <2> HIDE DEF c, us
  <2>4. QED BY <1>4, <2>2, <2>3 DEF Reports
<1>8. QED BY <1>6, <1>7

(* The three parts of HomesAreTold; the second needs homes that keep their *)
(* certificates.                                                           *)
LEMMA InvPauses == FleetInv => PauseIsReported
<1> SUFFICES ASSUME FleetInv, NEW r \in Routes, route[r].pending # None, route[r].active # None,
                    ~Gone(route[r].active)
             PROVE  Reported(r, route[r].active) = "paused"
  BY DEF PauseIsReported
<1>1. MadeAs(route[r].active, r, made)  BY InvFacts DEF RouteGood
<1>2. StandsAs(route[r], route[r].active, Reported(r, route[r].active))
  BY <1>1, ReportedStands
<1>3. QED BY <1>2 DEF StandsAs

(* Without changed certificates a released proof is reported.              *)
LEMMA InvReleases == FleetInv /\ MaxResets = 0 => ReleaseIsReported
<1> SUFFICES ASSUME FleetInv, MaxResets = 0, NEW r \in Routes, route[r].pending = None,
                    route[r].active # None, ~Gone(route[r].active)
             PROVE  Reported(r, route[r].active) = "active"
  BY DEF ReleaseIsReported
<1>1. MadeAs(route[r].active, r, made)  BY InvFacts DEF RouteGood
<1>2. StandsAs(route[r], route[r].active, Reported(r, route[r].active))
  BY <1>1, ReportedStands
<1>3. QED BY <1>2 DEF StandsAs

(* A home that was replaced is told to retire.                             *)
LEMMA InvRetires == FleetInv => OldHomesRetire
<1> SUFFICES ASSUME FleetInv, NEW g \in DOMAIN made, route[made[g].r].active # made[g].sel,
                    ~Gone(made[g].sel)
             PROVE  Reported(made[g].r, made[g].sel) = "retired"
  BY DEF OldHomesRetire
<1>1. made \in Seq(Made)  BY InvFacts
<1>2. g \in 1..Len(made)  BY <1>1, LenProperties
<1>3. made[g] \in Made  BY <1>1, <1>2, ElementOfSeq
<1>4. made[g].r \in Routes  BY <1>3 DEF Made
<1>5. made[g].sel.gen = g  BY <1>2 DEF FleetInv, SelectionGood
<1>6. MadeAs(made[g].sel, made[g].r, made)  BY <1>2, <1>5 DEF MadeAs
<1>7. StandsAs(route[made[g].r], made[g].sel, Reported(made[g].r, made[g].sel))
  BY <1>4, <1>6, ReportedStands
<1>8. QED BY <1>7 DEF StandsAs

(* Where no home changes its certificate, each home knows or is about to   *)
(* be told where its phone stands: what queue_route_update and             *)
(* finish_route_update are for. With new certificates this is false:       *)
(* invalidate_identity ends an open proof without queueing the release of  *)
(* the home that was paused for it.                                        *)
THEOREM HomesStayTold ==
  ASSUME MaxResets = 0
  PROVE  Spec => []HomesAreTold
<1>1. FleetInv => HomesAreTold
  BY InvTypes, InvPauses, InvReleases, InvRetires DEF HomesAreTold
<1>2. QED BY <1>1, FleetInvariance, PTL

(* What remains true with any number of new certificates: a home is told   *)
(* to pause while a newer proof is open and told to retire when it was     *)
(* replaced, so no two homes of a phone both believe to be the selected    *)
(* one.                                                                    *)
THEOREM PausesStayReported == Spec => [](FleetTypeOK /\ PauseIsReported /\ OldHomesRetire)
<1>1. FleetInv => FleetTypeOK /\ PauseIsReported /\ OldHomesRetire
  BY InvTypes, InvPauses, InvRetires
<1>2. QED BY <1>1, FleetInvariance, PTL

(* queue_route_update never refuses the release of an open proof: one that *)
(* could not be released would stop claim for every phone.                 *)
THEOREM ReleasesStayPossible == Spec => []ReleaseNeverBlocked
<1>1. FleetInv => ReleaseNeverBlocked
  <2> SUFFICES ASSUME FleetInv, NEW r \in Routes, route[r].pending # None
               PROVE  ~QueueFails(route[r])
    BY DEF ReleaseNeverBlocked
  <2>1. RouteInv(route[r])  BY InvFacts
  <2>2. QED BY <2>1 DEF RouteInv, Room
<1>2. QED BY <1>1, FleetInvariance, PTL

-----------------------------------------------------------------------------
(* How selections change.                                                  *)
Dropped(R, I) == R.active # None /\ I[R.active.hub] # R.active.identity

(* The new selection is that of the open proof.                            *)
Chosen(R, N) == R.pending # None /\ N.active.proved = R.pending.occurred

(* A step keeps a selection, drops a lost one, or makes that of the open   *)
(* proof.                                                                  *)
SelectionStep ==
  \A r \in Routes : \/ route'[r].active = route[r].active
                    \/ Dropped(route[r], identity) /\ route'[r].active = None
                    \/ Chosen(route[r], route'[r]) /\ route'[r].active # None

(* What finish selects is a selection, of the device that answered.        *)
LEMMA NewSelectionFits ==
  ASSUME FleetInv, NEW g \in Gates, worker[g].pc = "proofAnswered",
         route[worker[g].r].pending # None
  PROVE  LET sel == NewSelection(route[worker[g].r], worker[g].pending, worker[g].answer)
         IN  sel \in Selection /\ sel.proved = route[worker[g].r].pending.occurred
             /\ sel.identity = worker[g].answer.identity
<1> DEFINE w == worker[g]
           R == route[w.r]
           n == Len(made) + 1
           sel == NewSelection(R, w.pending, w.answer)
<1>1. Shapes /\ clock \in 0..MaxTime /\ made \in Seq(Made) /\ Numbered(made, route)
      /\ route \in [Routes -> Route]
  BY InvFacts DEF FleetInv, Shapes
<1>2. w.r \in Routes /\ w.pending \in Pending /\ w.answer \in Answer /\ RouteInv(R)
  BY AnsweredFacts
<1>3. R \in Route /\ R.revision \in Nat /\ R.pending \in Pending /\ R.revision + 2 <= MaxRevision
  <2>1. R \in Route /\ Room(R)  BY <1>2 DEF RouteInv
  <2>2. QED BY <2>1, RouteFields DEF Room
<1>4. R.revision + 1 <= MaxRevision  BY <1>3, LimitTypes
<1>5. n \in Generations  BY <1>1, <1>2, <1>4, NumberedAppend
<1>6. sel = [hub |-> w.pending.hub, identity |-> w.answer.identity, binding |-> w.pending.id,
             gen |-> n, at |-> clock, proved |-> R.pending.occurred]
  BY DEF NewSelection
<1>7. w.pending.hub \in Hubs /\ w.pending.id \in Tokens  BY <1>2 DEF Pending
<1>8. w.answer.identity \in 0..MaxResets  BY <1>2 DEF Answer
<1>9. R.pending.occurred \in 0..(MaxTime + Skew)  BY <1>3 DEF Pending
<1>10. sel \in Selection /\ sel.proved = R.pending.occurred /\ sel.identity = w.answer.identity
  <2> HIDE DEF w, R, n
  <2>1. QED BY <1>1, <1>5, <1>6, <1>7, <1>8, <1>9 DEF Selection
<1>11. QED BY <1>10

(* finish makes a selection only of the open proof.                        *)
LEMMA FinishSelects ==
  ASSUME FleetInv, NEW g \in Gates, Finish(g)
  PROVE  SelectionStep
<1> DEFINE w == worker[g]
           r == w.r
           R == route[r]
           a == w.answer
           sel == NewSelection(R, w.pending, a)
<1>1. w.pc = "proofAnswered"  BY DEF Finish
<1>2. r \in Routes /\ a \in Answer /\ RouteInv(R)  BY <1>1, AnsweredFacts
<1>3. R \in Route /\ route \in [Routes -> Route]  BY <1>2, InvFacts DEF Shapes
<1>4. \/ UNCHANGED directory
      \/ R.pending # None /\ route' = [route EXCEPT ![r] = Released(R)]
      \/ R.pending # None /\ route' = [route EXCEPT ![r] = Pinned(R, a)]
      \/ R.pending # None /\ route' = [route EXCEPT ![r] = Bound(R, sel)]
  BY DEF Finish, SameProof
<1>5. CASE UNCHANGED directory  BY <1>5 DEF directory, SelectionStep
<1>6. ASSUME NEW N, route' = [route EXCEPT ![r] = N],
             N.active = R.active \/ (Chosen(R, N) /\ N.active # None)
      PROVE  SelectionStep
  <2>1. route'[r] = N /\ \A x \in Routes : x # r => route'[x] = route[x]
    BY <1>2, <1>3, <1>6
  <2>2. QED BY <1>6, <2>1 DEF SelectionStep
<1>7. CASE R.pending # None /\ route' = [route EXCEPT ![r] = Released(R)]
  <2>1. Released(R).active = R.active  BY <1>2, <1>7, ReleasedStep
  <2>2. QED BY <1>6, <1>7, <2>1
<1>8. CASE R.pending # None /\ route' = [route EXCEPT ![r] = Pinned(R, a)]
  <2>1. Pinned(R, a).active = R.active  BY <1>3 DEF Pinned, Route
  <2>2. QED BY <1>6, <1>8, <2>1
<1>9. CASE R.pending # None /\ route' = [route EXCEPT ![r] = Bound(R, sel)]
  <2> DEFINE Q == Queued(R, "retired")
             M == Selected(Q, sel)
             N == Queued(M, "active")
  <2>1. sel.proved = R.pending.occurred  BY DEF NewSelection
  <2>2. FleetInv'  BY FinishInv
  <2>3. Bound(R, sel) = N  BY DEF Bound
  <2>4. N.active = sel
    <3>1. "retired" \in Statuses  BY DEF Statuses
    <3>2. Q \in Route  BY <1>3, <3>1, QueuedFields DEF Queuing
    <3> HIDE DEF sel, Q
    <3>3. M.active = sel  BY <3>2 DEF Selected, Route
    <3>4. DOMAIN M = {"known", "active", "pending", "seen", "newest", "revision", "updates"}
      BY <3>2 DEF Selected, Route
    <3> HIDE DEF M
    <3>5. QED BY <3>3, <3>4 DEF Queued
  <2>5. route'[r] = N  BY <1>2, <1>3, <1>9, <2>3
  <2>6. N.active # None
    <3>1. sel \in Selection  BY <1>1, <1>9, NewSelectionFits
    <3>2. QED BY <2>4, <3>1, NullAssumption
  <2> HIDE DEF N
  <2>7. QED BY <1>6, <1>9, <2>1, <2>3, <2>4, <2>6 DEF Chosen
<1>10. QED BY <1>4, <1>5, <1>7, <1>8, <1>9

(* invalidate_identity drops only homes that lost their certificate.       *)
LEMMA InvalidateSelects ==
  ASSUME FleetInv, NEW d \in Deliveries, InvalidateIdentity(d)
  PROVE  SelectionStep
<1> DEFINE s == out[d].sel
<1>1. out[d].pc = "changed" /\ route' = [r \in Routes |-> Invalidated(route[r], s)]
  BY DEF InvalidateIdentity
<1>2. identity[s.hub] # s.identity  BY <1>1 DEF FleetInv, OutGood
<1> HIDE DEF s
<1>3. SUFFICES ASSUME NEW r \in Routes
               PROVE  \/ route'[r].active = route[r].active
                      \/ Dropped(route[r], identity) /\ route'[r].active = None
  BY DEF SelectionStep
<1> DEFINE R == route[r]
           N == Invalidated(R, s)
<1>4. RouteInv(R)  BY InvFacts
<1>5. route'[r] = N  BY <1>1
<1> HIDE DEF R
<1>6. N.active = R.active \/ (N.active = None /\ R.active # None /\ OfDevice(R.active, s))
  BY <1>4, InvalidatedStep, Zenon
<1>7. QED BY <1>2, <1>5, <1>6 DEF OfDevice, Dropped, R

(* begin, claim and finish_route_update keep every selection.              *)
LEMMA BeginSelects ==
  ASSUME FleetInv, NEW r \in Routes, NEW t \in Tokens, NEW o \in 0..(clock + Skew),
         Begin(r, t, o)
  PROVE  SelectionStep
<1> DEFINE R == route[r]
           B == BeginEntry(r)
           M == Begun(B, t, o)
           N == Queued(M, "paused")
<1>1. Shapes /\ clock \in Nat /\ RouteInv(R) /\ R \in Route /\ route \in [Routes -> Route]
  BY InvFacts DEF Shapes
<1>2. StillSeen(R) \in SUBSET R.seen  BY DEF StillSeen
<1>3. B = Forgotten(R, StillSeen(R))  BY DEF BeginEntry, Forgotten
<1>4. RouteInv(B) /\ B.active = R.active  BY <1>1, <1>2, <1>3, ForgetStep
<1>5. route' = [route EXCEPT ![r] = B] \/ route' = [route EXCEPT ![r] = N]  BY DEF Begin
<1> HIDE DEF B
<1>6. N.active = R.active
  <2>1. clock \in 0..MaxTime /\ o \in 0..(MaxTime + Skew)  BY <1>1, LimitTypes DEF Shapes
  <2>2. B \in Route  BY <1>4 DEF RouteInv
  <2>3. M \in Route /\ M.active = B.active  BY <2>1, <2>2, BegunFields
  <2>4. "paused" \in Statuses  BY DEF Statuses
  <2> HIDE DEF M
  <2>5. N.active = M.active  BY <2>3, <2>4, QueuedFields DEF Queuing
  <2>6. QED BY <1>4, <2>3, <2>5
<1> HIDE DEF N
<1>7. QED BY <1>1, <1>4, <1>5, <1>6 DEF SelectionStep

(* claim selects no home.                                                  *)
LEMMA ClaimSelects ==
  ASSUME FleetInv, NEW g \in Gates, Claim(g)
  PROVE  SelectionStep
<1>1. route' = [r \in Routes |-> IF r \in RanOut THEN Released(route[r]) ELSE route[r]]
  BY DEF Claim
<1>2. SUFFICES ASSUME NEW r \in Routes PROVE route'[r].active = route[r].active
  BY DEF SelectionStep
<1>3. CASE r \in RanOut
  <2>1. RouteInv(route[r]) /\ route[r].pending # None  BY <1>3, InvFacts DEF RanOut
  <2>2. Released(route[r]).active = route[r].active  BY <2>1, ReleasedStep
  <2>3. QED BY <1>1, <1>3, <2>2
<1>4. CASE r \notin RanOut  BY <1>1, <1>4
<1>5. QED BY <1>3, <1>4

(* The receipt of an update selects no home.                               *)
LEMMA ReceiptSelects ==
  ASSUME FleetInv, NEW g \in Gates, FinishRouteUpdate(g)
  PROVE  SelectionStep
<1> DEFINE w == worker[g]
           r == w.r
           R == route[r]
           N == Acknowledged(R, w.update)
<1>1. w.pc = "updateAnswered" /\ (route' = route \/ route' = [route EXCEPT ![r] = N])
  BY DEF FinishRouteUpdate
<1>2. w \in Worker /\ route \in [Routes -> Route]  BY InvFacts DEF Shapes
<1>3. r \in Routes  BY <1>1, <1>2, WorkerFields DEF Telling
<1>4. RouteInv(R)  BY <1>3, InvFacts
<1>5. N.active = R.active
  <2> HIDE DEF R, w
  <2>1. Thinned(R, N, w.update)  BY <1>4, AcknowledgedStep
  <2>2. QED BY <2>1 DEF Thinned
<1> HIDE DEF N, w
<1>6. QED BY <1>1, <1>2, <1>3, <1>5 DEF SelectionStep

(* Every step changes selections in one of these ways.                     *)
LEMMA StepSelects == FleetInv /\ [Next]_vars => SelectionStep
<1> SUFFICES ASSUME FleetInv, [Next]_vars PROVE SelectionStep  OBVIOUS
<1>1. ASSUME route' = route PROVE SelectionStep  BY <1>1 DEF SelectionStep
<1>2. CASE UNCHANGED vars  BY <1>1, <1>2 DEF vars
<1>3. CASE Tick  BY <1>1, <1>3 DEF Tick, directory
<1>4. ASSUME NEW r \in Routes, NEW t \in Tokens, NEW o \in 0..(clock + Skew), Begin(r, t, o)
      PROVE  SelectionStep
  BY <1>4, BeginSelects
<1>5. ASSUME NEW g \in Gates, BindingLoop(g) PROVE SelectionStep
  <2>1. CASE ProofExchangeFails(g) \/ ClaimRouteUpdate(g) \/ UpdateExchangeFails(g)
    <3>1. UNCHANGED directory
      BY <2>1 DEF ProofExchangeFails, ClaimRouteUpdate, UpdateExchangeFails
    <3>2. QED BY <1>1, <3>1 DEF directory
  <2>2. QED BY <1>5, <2>1, ClaimSelects, FinishSelects, ReceiptSelects DEF BindingLoop
<1>6. ASSUME NEW g \in Gates, AnswerProof(g) \/ AnswerRouteUpdate(g) PROVE SelectionStep
  BY <1>1, <1>6 DEF AnswerProof, AnswerRouteUpdate, directory
<1>7. ASSUME NEW d \in Deliveries, Delivering(d) PROVE SelectionStep
  <2>1. CASE InvalidateIdentity(d)  BY <2>1, InvalidateSelects
  <2>2. CASE ~InvalidateIdentity(d)
    <3>1. UNCHANGED directory
      BY <1>7, <2>2 DEF Delivering, OutboundTaskClient, FinishAuthorization, Send,
         AuthorizationFails, AnswerOut, NotificationTarget, Select
    <3>2. QED BY <1>1, <3>1 DEF directory
  <2>3. QED BY <2>1, <2>2
<1>8. ASSUME NEW t \in Tokens, OwnerConfirms(t) \/ OwnerRevokes(t) PROVE SelectionStep
  BY <1>1, <1>8 DEF OwnerConfirms, OwnerRevokes, directory
<1>9. ASSUME NEW h \in Hubs, NEW wiped \in BOOLEAN, NewCertificate(h, wiped)
      PROVE  SelectionStep
  BY <1>1, <1>9 DEF NewCertificate, directory
<1>10. QED
  BY <1>2, <1>3, <1>4, <1>5, <1>6, <1>7, <1>8, <1>9, Zenon DEF Next

(* Proofs take effect in the order in which the phone sent them: begin     *)
(* refuses older ones and finish selects only the open one.                *)
THEOREM NewestProofsWin == Spec => NewestProofWins
<1>1. FleetInv /\ [Next]_vars =>
        [\A r \in Routes : route[r].active # None /\ route'[r].active # None
           => route'[r].active.proved >= route[r].active.proved]_vars
  <2> SUFFICES ASSUME FleetInv, [Next]_vars, NEW r \in Routes,
                      route[r].active # None, route'[r].active # None
               PROVE  route'[r].active.proved >= route[r].active.proved
    OBVIOUS
  <2>1. RouteInv(route[r]) /\ route[r] \in Route  BY InvFacts
  <2>2. route[r].active \in Selection  BY <2>1, RouteFields
  <2>3. route[r].active.proved \in Int  BY <2>2, LimitTypes DEF Selection
  <2>4. CASE route'[r].active = route[r].active  BY <2>3, <2>4
  <2>5. CASE Chosen(route[r], route'[r])
    BY <2>1, <2>3, <2>5, RouteFields DEF Chosen, RouteInv, Times
  <2>6. QED BY <2>4, <2>5, StepSelects DEF SelectionStep
<1>2. QED BY <1>1, FleetInvariance, PTL DEF Spec, NewestProofWins

(* invalidate_identity leaves the selection of a new certificate alone,    *)
(* however late the news of the old one arrives.                           *)
THEOREM OnlyLostHomesAreDropped == Spec => OnlyLostHomesDropped
<1>1. FleetInv /\ [Next]_vars =>
        [\A r \in Routes : route[r].active # None /\ route'[r].active = None
           => identity[route[r].active.hub] # route[r].active.identity]_vars
  BY StepSelects DEF SelectionStep, Dropped
<1>2. QED BY <1>1, FleetInvariance, PTL DEF Spec, OnlyLostHomesDropped

(* Only finish makes selections, and only begin, the binding loop and      *)
(* invalidate_identity change routes.                                      *)
LEMMA OtherSteps ==
  ASSUME [Next]_vars, \A g \in Gates : ~Finish(g)
  PROVE  /\ UNCHANGED made
         /\ UNCHANGED route \/ UNCHANGED worker \/ \E g \in Gates : Claim(g) \/ FinishRouteUpdate(g)
<1>1. CASE UNCHANGED vars  BY <1>1 DEF vars
<1>2. CASE Tick  BY <1>2 DEF Tick, directory
<1>3. ASSUME NEW r \in Routes, NEW t \in Tokens, NEW o \in 0..(clock + Skew), Begin(r, t, o)
      PROVE  UNCHANGED made /\ UNCHANGED worker
  BY <1>3 DEF Begin
<1>4. ASSUME NEW g \in Gates, BindingLoop(g)
      PROVE  UNCHANGED made /\ (UNCHANGED route \/ Claim(g) \/ FinishRouteUpdate(g))
  BY <1>4 DEF BindingLoop, Claim, FinishRouteUpdate, ProofExchangeFails, ClaimRouteUpdate,
     UpdateExchangeFails, directory
<1>5. ASSUME NEW g \in Gates, AnswerProof(g) \/ AnswerRouteUpdate(g)
      PROVE  UNCHANGED made /\ UNCHANGED route
  BY <1>5 DEF AnswerProof, AnswerRouteUpdate, directory
<1>6. ASSUME NEW d \in Deliveries, Delivering(d)
      PROVE  UNCHANGED made /\ UNCHANGED worker
  BY <1>6 DEF Delivering, OutboundTaskClient, FinishAuthorization, Send,
     AuthorizationFails, AnswerOut, NotificationTarget, Select, InvalidateIdentity, directory
<1>7. ASSUME NEW t \in Tokens, OwnerConfirms(t) \/ OwnerRevokes(t)
      PROVE  UNCHANGED made /\ UNCHANGED route
  BY <1>7 DEF OwnerConfirms, OwnerRevokes, directory
<1>8. ASSUME NEW h \in Hubs, NEW wiped \in BOOLEAN, NewCertificate(h, wiped)
      PROVE  UNCHANGED made /\ UNCHANGED route
  BY <1>8 DEF NewCertificate, directory
<1>9. QED
  BY <1>1, <1>2, <1>3, <1>4, <1>5, <1>6, <1>7, <1>8, Zenon DEF Next

(* A stale response cannot complete a newer proof: within the deadline of  *)
(* a poll its token is remembered, so the phone cannot have begun another  *)
(* proof with it and finish can tell proofs apart by their token.          *)
THEOREM AnswersFitProofs == Spec => AnswerFitsProof
<1>1. FleetInv /\ [Next]_vars =>
        [\A r \in Routes, g \in Gates :
           /\ worker[g].pc = "proofAnswered" /\ worker'[g] # worker[g]
           /\ worker[g].r = r /\ route'[r] # route[r] /\ route[r].pending # None
           => worker[g].pending.occurred = route[r].pending.occurred]_vars
  <2> SUFFICES ASSUME FleetInv, [Next]_vars, NEW r \in Routes, NEW g \in Gates,
                      worker[g].pc = "proofAnswered", worker'[g] # worker[g],
                      worker[g].r = r, route'[r] # route[r]
               PROVE  worker[g].pending.occurred = route[r].pending.occurred
    OBVIOUS
  <2>1. worker \in [Gates -> Worker]  BY InvFacts DEF Shapes
  <2>2. ASSUME NEW x \in Gates, NEW v, worker' = [worker EXCEPT ![x] = v] PROVE x = g
    BY <2>1, <2>2
  <2>3. ASSUME NEW x \in Gates, Claim(x) \/ FinishRouteUpdate(x) PROVE FALSE
    <3>1. \E v : worker' = [worker EXCEPT ![x] = v]  BY <2>3 DEF Claim, FinishRouteUpdate
    <3>2. x = g  BY <2>2, <3>1
    <3>3. worker[g].pc = "idle" \/ worker[g].pc = "updateAnswered"
      BY <2>3, <3>2 DEF Claim, FinishRouteUpdate
    <3>4. QED BY <3>3
  <2>4. PICK x \in Gates : Finish(x)  BY <2>3, OtherSteps
  <2>5. worker' = [worker EXCEPT ![x] = AfterProof]  BY <2>4 DEF Finish
  <2>6. x = g  BY <2>2, <2>5
  <2>7. SameProof(route[r], worker[g].pending)  BY <2>4, <2>6 DEF Finish, directory
  <2>8. Asked(worker[g], route[r], clock, identity)  BY AnsweredFacts
  <2>9. QED BY <2>7, <2>8 DEF Asked
<1>2. QED BY <1>1, FleetInvariance, PTL DEF Spec, AnswerFitsProof

(* finish selects only the device whose answer was the first it recorded   *)
(* for the proof, however many answers it recorded since.                  *)
THEOREM DevicesStayPinned == Spec => DeviceIsPinned
<1>1. FleetInv /\ [Next]_vars =>
        [\A r \in Routes :
           Len(made') > Len(made) /\ made'[Len(made')].r = r
             => route[r].pending.first \in {None, made'[Len(made')].sel.identity}]_vars
  <2> SUFFICES ASSUME FleetInv, [Next]_vars, NEW r \in Routes,
                      Len(made') > Len(made), made'[Len(made')].r = r
               PROVE  route[r].pending.first \in {None, made'[Len(made')].sel.identity}
    OBVIOUS
  <2>1. made \in Seq(Made) /\ Len(made) \in Nat  BY InvFacts, LenProperties
  <2>2. made' # made  BY <2>1
  <2>3. PICK g \in Gates : Finish(g)  BY <2>2, OtherSteps
  <2> DEFINE w == worker[g]
             R == route[w.r]
             sel == NewSelection(R, w.pending, w.answer)
             m == [sel |-> sel, r |-> w.r]
  <2>4. /\ w.pc = "proofAnswered" /\ SameProof(R, w.pending)
        /\ SameDevice(R, w.answer) /\ made' = Append(made, m)
    BY <2>2, <2>3 DEF Finish, directory
  <2>5. sel \in Selection /\ sel.identity = w.answer.identity
    BY <2>4, NewSelectionFits DEF SameProof
  <2>6. w.r \in Routes  BY <2>4, AnsweredFacts
  <2>7. m.sel = sel /\ m.r = w.r  OBVIOUS
  <2>8. m \in Made  BY <2>5, <2>6 DEF Made
  <2> HIDE DEF m
  <2>9. made'[Len(made')] = m  BY <2>1, <2>4, <2>8, AppendProperties
  <2>10. w.r = r  BY <2>7, <2>9
  <2>11. R.pending.first = R.pending.identity
    <3>1. RouteInv(R)  BY <2>4, AnsweredFacts
    <3>2. QED BY <2>4, <3>1 DEF RouteInv, Times, SameProof
  <2>12. QED BY <2>4, <2>5, <2>7, <2>9, <2>10, <2>11 DEF SameDevice
<1>2. QED BY <1>1, FleetInvariance, PTL DEF Spec, DeviceIsPinned

(* Only the steps of the deliveries change them.                           *)
LEMMA SendingSteps ==
  ASSUME [Next]_vars
  PROVE  UNCHANGED out \/ \E d \in Deliveries : Delivering(d)
<1>1. CASE UNCHANGED vars  BY <1>1 DEF vars
<1>2. CASE Tick  BY <1>2 DEF Tick
<1>3. ASSUME NEW r \in Routes, NEW t \in Tokens, NEW o \in 0..(clock + Skew), Begin(r, t, o)
      PROVE  UNCHANGED out
  BY <1>3 DEF Begin
<1>4. ASSUME NEW g \in Gates, BindingLoop(g) \/ AnswerProof(g) \/ AnswerRouteUpdate(g)
      PROVE  UNCHANGED out
  BY <1>4 DEF BindingLoop, Claim, Finish, FinishRouteUpdate, ProofExchangeFails,
     ClaimRouteUpdate, UpdateExchangeFails, AnswerProof, AnswerRouteUpdate
<1>5. ASSUME NEW t \in Tokens, OwnerConfirms(t) \/ OwnerRevokes(t) PROVE UNCHANGED out
  BY <1>5 DEF OwnerConfirms, OwnerRevokes
<1>6. ASSUME NEW h \in Hubs, NEW wiped \in BOOLEAN, NewCertificate(h, wiped)
      PROVE  UNCHANGED out
  BY <1>6 DEF NewCertificate
<1>7. QED BY <1>1, <1>2, <1>3, <1>4, <1>5, <1>6, Zenon DEF Next

(* A delivery is sent only by the step that checks the route again.        *)
LEMMA SendsChecked ==
  ASSUME FleetInv, NEW d \in Deliveries, NEW x \in Deliveries, Delivering(x),
         out[d].pc # "sending", out'[d].pc = "sending"
  PROVE  CheckAgain(d) = "ok"
<1>1. out \in [Deliveries -> Outgoing]  BY InvFacts DEF Shapes
<1>2. ASSUME NEW o, out' = [out EXCEPT ![x] = o] PROVE x = d /\ o.pc = "sending"
  BY <1>1, <1>2
<1>3. Free.pc # "sending"  BY DEF Free
<1>4. ASSUME out[x] \in Sending, NEW pc, out' = [out EXCEPT ![x] = [out[x] EXCEPT !.pc = pc]]
      PROVE  pc = "sending"
  <2>1. [out[x] EXCEPT !.pc = pc].pc = pc  BY <1>4 DEF Sending
  <2>2. [out[x] EXCEPT !.pc = pc].pc = "sending"  BY <1>2, <1>4
  <2>3. QED BY <2>1, <2>2
<1>5. CASE OutboundTaskClient(x)
  <2>1. out[x] \in Sending  BY <1>5, OutFacts DEF OutboundTaskClient
  <2>2. out' = [out EXCEPT ![x] = [out[x] EXCEPT !.pc = "asking"]] \/ out' = [out EXCEPT ![x] = Free]
    BY <1>1, <1>5 DEF OutboundTaskClient
  <2>3. QED BY <1>2, <1>3, <1>4, <2>1, <2>2
<1>6. CASE FinishAuthorization(x)
  <2>1. out[x] \in Sending  BY <1>6, OutFacts DEF FinishAuthorization
  <2>2. \/ CheckAgain(x) = "ok"
        \/ out' = [out EXCEPT ![x] = [out[x] EXCEPT !.pc = "queued"]]
        \/ out' = [out EXCEPT ![x] = Free]
    BY <1>1, <1>6 DEF FinishAuthorization
  <2>3. \E o : out' = [out EXCEPT ![x] = o]  BY <1>6 DEF FinishAuthorization
  <2>4. x = d  BY <1>2, <2>3
  <2>5. out' # [out EXCEPT ![x] = Free]  BY <1>2, <1>3
  <2>6. out' # [out EXCEPT ![x] = [out[x] EXCEPT !.pc = "queued"]]  BY <1>4, <2>1
  <2>7. QED BY <2>2, <2>4, <2>5, <2>6
<1>7. CASE Send(x) \/ InvalidateIdentity(x)
  <2>1. out' = [out EXCEPT ![x] = Free]  BY <1>7 DEF Send, InvalidateIdentity
  <2>2. QED BY <1>2, <1>3, <2>1
<1>8. CASE AuthorizationFails(x)
  <2>1. out[x] \in Sending  BY <1>8, OutFacts DEF AuthorizationFails
  <2>2. out' = [out EXCEPT ![x] = [out[x] EXCEPT !.pc = "queued"]] \/ out' = [out EXCEPT ![x] = Free]
    BY <1>1, <1>8 DEF AuthorizationFails
  <2>3. out' # [out EXCEPT ![x] = Free]  BY <1>2, <1>3
  <2>4. out' # [out EXCEPT ![x] = [out[x] EXCEPT !.pc = "queued"]]  BY <1>4, <2>1
  <2>5. QED BY <2>2, <2>3, <2>4
<1>9. CASE AnswerOut(x)
  <2>1. out[x] \in Sending  BY <1>9, OutFacts DEF AnswerOut
  <2>2. \/ out' = [out EXCEPT ![x] = Free]
        \/ \E pc \in {"changed", "queued", "allowed"} :
             out' = [out EXCEPT ![x] = [out[x] EXCEPT !.pc = pc]]
    BY <1>1, <1>9 DEF AnswerOut, OutAnswers
  <2>3. out' # [out EXCEPT ![x] = Free]  BY <1>2, <1>3
  <2>4. QED BY <1>4, <2>1, <2>2, <2>3
<1>10. ASSUME NEW r \in Routes, NotificationTarget(x, r) \/ \E o \in 0..(clock + Skew) : Select(x, r, o)
       PROVE  FALSE
  <2>1. \E pc \in {"queued", "outbox"} :
          out' = [out EXCEPT ![x] = [pc |-> pc, r |-> r, sel |-> route[r].active]]
    BY <1>10 DEF NotificationTarget, Select
  <2>2. QED BY <1>2, <2>1
<1>11. QED BY <1>5, <1>6, <1>7, <1>8, <1>9, <1>10 DEF Delivering

(* A message is sent only for the home selected at that moment and while   *)
(* no newer proof is open: authorize_delivery_context checks after the     *)
(* await.                                                                  *)
THEOREM SendsStaySelected == Spec => SendsForSelectedHome
<1>1. FleetInv /\ [Next]_vars =>
        [\A d \in Deliveries :
           out[d].pc # "sending" /\ out'[d].pc = "sending"
             => LET R == route[out[d].r]
                IN  R.active = out[d].sel /\ ~Live(R.pending)]_vars
  <2> SUFFICES ASSUME FleetInv, [Next]_vars, NEW d \in Deliveries,
                      out[d].pc # "sending", out'[d].pc = "sending"
               PROVE  route[out[d].r].active = out[d].sel /\ ~Live(route[out[d].r].pending)
    OBVIOUS
  <2>1. PICK x \in Deliveries : Delivering(x)  BY SendingSteps
  <2>2. CheckAgain(d) = "ok"  BY <2>1, SendsChecked
  <2>3. QED BY <2>2 DEF CheckAgain, Check
<1>2. QED BY <1>1, FleetInvariance, PTL DEF Spec, SendsForSelectedHome
=============================================================================
