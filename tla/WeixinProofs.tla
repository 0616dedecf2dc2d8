---------------------------- MODULE WeixinProofs ----------------------------
(***************************************************************************)
(* Proofs about WeixinInbox, the long poll of weixin.rs and the account it *)
(* runs for.                                                               *)
(*                                                                         *)
(* The first part is about the account, with any number of accounts,       *)
(* logins and unbinds.  NothingLeftBehind needs three facts that it does   *)
(* not state: a login that is being saved has its file already (so         *)
(* adopting it in memory leaves no account without a file); a login in     *)
(* memory or in the thread's hands is none at all, one with a number or    *)
(* the one of the environment; and while memory holds an account without a *)
(* token, which only the environment can put there, the thread waits at    *)
(* the head of its loop.                                                   *)
(*                                                                         *)
(* The second part shows that the inbox implements InboxPromise for one    *)
(* account that nobody unbinds.  The cursor that a poll fetched must be    *)
(* followed on its way to the sync file: what it passes over is in the     *)
(* batch until the batch is stored, and in the inbox from then on.  With a *)
(* second account the promise fails (the run weixin_switch shows it), and  *)
(* an unbind drops messages on purpose.                                    *)
(***************************************************************************)
EXTENDS WeixinInbox, Integers, WellFoundedInduction, TLAPS

(* The shapes of files and memory.  A login is none, or names an account   *)
(* and is numbered from 1, so that a file which is not there has none; or  *)
(* it is the one of the environment.                                       *)
Known    == {NoLogin, Environment} \cup [acc: Accounts, n: 1..MaxLogins]
Outcomes == {"none", "succeeded", "failed", "terminal_failed"}

Item == [status: {"none", "pending", "processing", "failed", "succeeded", "terminal_failed"},
         attempts: Nat, leased: BOOLEAN]

Cursor == [of: Accounts \cup {None}, pos: 0..MaxSeq]

(* The record of the runtime thread.                                       *)
Runner ==
  [op: Operations, ph: {"discover", "adopt", "act"}, found: Known, login: Known,
   batch: SUBSET Messages, next: Cursor, m: Messages \cup {None}, token: Nat,
   again: BOOLEAN, outcome: Outcomes]

(* A setup request that logs in, or unbinds, and the account it does it    *)
(* for.                                                                    *)
Saver == {Idle} \cup [pc: {"saving"}, login: [acc: Accounts, n: 1..MaxLogins]]

Unbinder == {Idle} \cup [pc: {"discovered", "unbinding"}, login: Known]

(* The inbox file of an account.                                           *)
Box == [Messages -> Item]

(* The shape of every variable but the count of restarts.                  *)
Shapes ==
  /\ disk \in [Accounts -> 0..MaxLogins] /\ mem \in Known
  /\ inbox \in [Accounts -> Box] /\ cursor \in [Accounts -> Cursor]
  /\ rt \in Runner /\ saver \in Saver /\ unbinder \in Unbinder
  /\ logins \in 0..MaxLogins /\ posted \in [Accounts -> 0..MaxSeq]

(* What the operation of the runtime thread has in hand.                   *)
InHand(q) ==
  /\ q.op \in {"handling", "finish"} => q.m \in Messages
  /\ q.op = "finish" => q.outcome # "none"
  /\ q.op = "waiting" => q.ph = "act" /\ q.login # NoLogin

(* A login that is being saved has its file already.                       *)
SavingHasFile == saver.pc = "saving" => disk[saver.login.acc] # 0

(* With an account that has no token the thread is at the head of its loop *)
(* and has seen nothing else there.                                        *)
Waits(q, l) ==
  l.acc # None /\ l.n = 0 => q.op = "head" /\ (q.ph = "act" => q.login = l)

(* An account that may have an inbox: it has a file or the environment     *)
(* provides for it.                                                        *)
Backed(a) == disk[a] # 0 \/ Provided(a)

(* The inductive invariant of the accounts.                                *)
AccountInv ==
  Shapes /\ InHand(rt) /\ Waits(rt, mem) /\ SavingHasFile /\ NothingLeftBehind

-----------------------------------------------------------------------------
(* What is known of the constants.                                         *)
LEMMA Bounds ==
  /\ None \notin Accounts /\ Configured \in Accounts \cup {None} /\ Token \in 0..MaxLogins + 1
  /\ MaxSeq \in Nat /\ MaxLogins \in Nat /\ MaxFailures \in Nat /\ MaxRestarts \in Nat
BY WeixinAssumption

(* The account of the environment.                                         *)
LEMMA EnvironmentFacts ==
  /\ Environment \in Login
  /\ Environment.acc = Configured
  /\ Configured = None => Environment = NoLogin
  /\ Configured # None => Environment.n = Token
<1>1. CASE Configured = None
  <2>1. 0 \in 0..MaxLogins + 1  BY Bounds
  <2>2. QED BY <1>1, <2>1 DEF Environment, NoLogin, Login
<1>2. CASE Configured # None  BY <1>2, Bounds DEF Environment, Login
<1>3. QED BY <1>1, <1>2

(* A login that is known is none or names an account.                      *)
LEMMA LoginFacts ==
  ASSUME NEW l \in Known
  PROVE  /\ l \in Login
         /\ l.acc # None => l.acc \in Accounts
         /\ l.acc # None /\ l # Environment => l.n \in 1..MaxLogins
         /\ l = NoLogin <=> l.acc = None
<1>1. NoLogin.acc = None /\ NoLogin.n = 0  BY DEF NoLogin
<1>2. CASE l = NoLogin
  <2>1. 0 \in 0..MaxLogins + 1  BY Bounds
  <2>2. NoLogin \in Login  BY <2>1 DEF NoLogin, Login
  <2>3. QED BY <1>1, <1>2, <2>2
<1>3. CASE l = Environment  BY <1>1, <1>3, EnvironmentFacts, Bounds
<1>4. CASE l \in [acc: Accounts, n: 1..MaxLogins]
  <2>1. l.acc \in Accounts /\ l.n \in 1..MaxLogins  BY <1>4
  <2>2. l \in Login  BY <1>4, Bounds DEF Login
  <2>3. QED BY <1>1, <2>1, <2>2, Bounds
<1>5. QED BY <1>2, <1>3, <1>4 DEF Known

(* A non-empty set of accounts has one with the newest file.               *)
LEMMA Largest ==
  ASSUME NEW k \in Nat, NEW A, A # {}, NEW f, \A a \in A : f[a] \in 0..k
  PROVE  \E a \in A : \A b \in A : f[b] <= f[a]
<1> DEFINE T == {k - f[a] : a \in A}
           R == {ss \in Nat \X Nat : ss[1] < ss[2]}
<1>1. T \subseteq Nat /\ T # {}  OBVIOUS
<1>2. IsWellFoundedOn(R, Nat)  BY NatLessThanWellFounded DEF OpToRel
<1>3. \E x \in T : \A y \in T : ~(<<y, x>> \in R)
  <2> HIDE DEF T, R
  <2>1. QED BY <1>1, <1>2, WFMin
<1>4. PICK x \in T : \A y \in T : ~(<<y, x>> \in R)  BY <1>3
<1>5. PICK a \in A : x = k - f[a]  OBVIOUS
<1>6. ASSUME NEW b \in A PROVE f[b] <= f[a]
  <2>1. k - f[b] \in T /\ k - f[b] \in Nat /\ x \in Nat  BY <1>1
  <2>2. ~(k - f[b] < x)  BY <1>4, <2>1
  <2>3. f[a] \in Int /\ f[b] \in Int  OBVIOUS
  <2>4. QED BY <1>5, <2>2, <2>3
<1>7. QED BY <1>6

(* The login in a file that is there.                                      *)
LEMMA SavedFacts ==
  ASSUME Shapes, NEW a \in Accounts, disk[a] # 0
  PROVE  Saved(a) \in Known /\ Saved(a).acc = a
<1>1. disk[a] \in 1..MaxLogins  BY Bounds DEF Shapes
<1>2. QED BY <1>1 DEF Saved, Known

(* The account written last has a file.                                    *)
LEMMA NewestFacts ==
  ASSUME Shapes
  PROVE  Newest \in Known /\ (Newest.acc # None => disk[Newest.acc] # 0)
<1> DEFINE have == {a \in Accounts : disk[a] # 0}
           c == CHOOSE a \in have : \A b \in have : disk[b] <= disk[a]
<1>1. CASE have = {}
  <2>1. Newest = NoLogin  BY <1>1 DEF Newest
  <2>2. QED BY <2>1 DEF Known, NoLogin
<1>2. CASE have # {}
  <2>1. \A a \in have : disk[a] \in 0..MaxLogins  BY DEF Shapes
  <2> HIDE DEF have
  <2>2. \E a \in have : \A b \in have : disk[b] <= disk[a]  BY <1>2, <2>1, Bounds, Largest
  <2>3. c \in have  BY <2>2
  <2>4. Newest = Saved(c)  BY <1>2 DEF Newest, have
  <2> HIDE DEF c
  <2>5. c \in Accounts /\ disk[c] # 0  BY <2>3 DEF have
  <2>6. QED BY <2>4, <2>5, SavedFacts
<1>3. QED BY <1>1, <1>2

(* So has the account that a search finds.                                 *)
LEMMA LookupFacts ==
  ASSUME Shapes, NEW id \in Accounts \cup {None}
  PROVE  Lookup(id) \in Known /\ (Lookup(id).acc # None => disk[Lookup(id).acc] # 0)
<1>1. CASE id = None  BY <1>1, NewestFacts DEF Lookup
<1>2. CASE id # None /\ disk[id] # 0
  <2>1. Lookup(id) = Saved(id) /\ id \in Accounts  BY <1>2 DEF Lookup
  <2>2. QED BY <1>2, <2>1, SavedFacts
<1>3. CASE id # None /\ disk[id] = 0
  <2>1. Lookup(id) = NoLogin  BY <1>3 DEF Lookup
  <2>2. QED BY <2>1 DEF Known, NoLogin
<1>4. QED BY <1>1, <1>2, <1>3

(* The account in memory or that of the environment is looked for.         *)
LEMMA DiscoveredFacts ==
  ASSUME Shapes
  PROVE  Discovered \in Known
<1>1. mem.acc \in Accounts \cup {None}  BY LoginFacts DEF Shapes
<1>2. Discovered \in {Lookup(mem.acc), Lookup(Configured)}  BY DEF Discovered
<1>3. QED BY <1>1, <1>2, LookupFacts, Bounds

(* What account() adopts has a file and a number, or was in memory         *)
(* already.                                                                *)
LEMMA AdoptedFacts ==
  ASSUME Shapes, NEW found \in Known
  PROVE  /\ Adopted(found) \in Known
         /\ Adopted(found) = mem
            \/ (Adopted(found).n # 0 /\ Adopted(found).acc # None /\ disk[Adopted(found).acc] # 0)
<1>1. mem \in Known  BY DEF Shapes
<1>2. CASE found # NoLogin /\ StillSaved(found)
  <2>1. Adopted(found) = found  BY <1>2 DEF Adopted
  <2>2. found.acc # None  BY <1>2, LoginFacts
  <2>3. disk[found.acc] = found.n /\ found.n # 0  BY <1>2 DEF StillSaved
  <2>4. QED BY <2>1, <2>2, <2>3
<1>3. CASE ~(found # NoLogin /\ StillSaved(found))
  <2>1. Adopted(found) = mem  BY <1>3 DEF Adopted
  <2>2. QED BY <1>1, <2>1
<1>4. QED BY <1>2, <1>3

(* An operation of the loop that goes on for the current account has its   *)
(* file, or the environment's token.                                       *)
LEMMA CurrentFacts ==
  ASSUME AccountInv, NEW l, Current(l), rt.op # "head"
  PROVE  l.acc \in Accounts /\ l = mem /\ Backed(l.acc)
<1>1. mem \in Known /\ l = mem /\ l.acc # None  BY DEF Current, AccountInv, Shapes
<1>2. l.acc \in Accounts  BY <1>1, LoginFacts
<1>3. l.n # 0  BY <1>1 DEF AccountInv, Waits
<1>4. ASSUME disk[l.acc] = 0 PROVE Provided(l.acc)
  <2>1. l = Environment  BY <1>1, <1>2, <1>4 DEF AccountInv, NothingLeftBehind
  <2>2. Configured = l.acc /\ l.n = Token  BY <1>1, <2>1, EnvironmentFacts
  <2>3. QED BY <1>3, <2>2 DEF Provided
<1>5. QED BY <1>1, <1>2, <1>4 DEF Backed

-----------------------------------------------------------------------------
(* The runtime thread's record.                                            *)
Begun(q, op) ==
  /\ q \in Runner /\ q.op = op /\ q.ph = "discover" /\ q.found = NoLogin /\ q.login = NoLogin

(* The thread begins an operation with no login and keeps what it has.     *)
LEMMA BeginFacts ==
  ASSUME rt \in Runner, NEW op \in Operations
  PROVE  LET q == Begin(op) IN
         /\ Begun(q, op) /\ q.batch = rt.batch /\ q.next = rt.next /\ q.m = rt.m
         /\ q.token = rt.token /\ q.again = rt.again /\ q.outcome = rt.outcome
<1>1. NoLogin \in Known  BY DEF Known
<1>2. QED BY <1>1 DEF Begin, Begun, Runner

(* A runtime that starts has nothing in hand.                              *)
LEMMA StartFacts == Start \in Runner /\ InHand(Start) /\ Start.op = "head" /\ Start.ph = "discover"
<1>1. NoLogin \in Known /\ NoCursor \in Cursor  BY Bounds DEF Known, NoCursor, Cursor
<1>2. Start \in Runner  BY <1>1 DEF Start, Runner, Operations, Outcomes
<1>3. QED BY <1>2 DEF Start, InHand

(* After a drain comes the head of the loop or a poll.                     *)
LEMMA AfterDrainFacts ==
  ASSUME rt \in Runner
  PROVE  /\ AfterDrain \in Runner /\ InHand(AfterDrain) /\ AfterDrain.ph = "discover"
         /\ AfterDrain.op \in {"head", "poll"} /\ AfterDrain.next = rt.next
<1> DEFINE op == IF rt.again THEN "head" ELSE "poll"
           q == Begin(op)
<1>1. op \in Operations /\ op \in {"head", "poll"}  BY DEF Operations
<1> HIDE DEF op
<1>2. q \in Runner /\ q.op \in {"head", "poll"} /\ q.next = rt.next /\ q.ph = "discover"
  BY <1>1, BeginFacts DEF Begun
<1>3. AfterDrain = [q EXCEPT !.again = FALSE, !.m = None, !.token = 0, !.outcome = "none"]
  BY DEF AfterDrain, op
<1> HIDE DEF q
<1>4. AfterDrain \in Runner /\ AfterDrain.op = q.op /\ AfterDrain.next = q.next
      /\ AfterDrain.ph = q.ph
  BY <1>2, <1>3 DEF Runner, Outcomes
<1>5. QED BY <1>2, <1>4 DEF InHand

(* A step of the thread that touches neither the account nor the files.    *)
LEMMA ThreadStep ==
  ASSUME AccountInv, rt' \in Runner, InHand(rt'), rt.op # "head" \/ Waits(rt', mem),
         UNCHANGED <<disk, mem, files, saver, unbinder, logins, posted>>
  PROVE  AccountInv'
<1>1. Waits(rt', mem')  BY DEF AccountInv, Waits
<1>2. QED BY <1>1 DEF AccountInv, Shapes, SavingHasFile, NothingLeftBehind, Backed, files

(* Looking for the account changes nothing but the thread.                 *)
LEMMA DiscoverInv == AccountInv /\ Discover => AccountInv'
<1> SUFFICES ASSUME AccountInv, Discover PROVE AccountInv'  OBVIOUS
<1>1. rt \in Runner /\ InHand(rt) /\ Discovered \in Known
  BY DiscoveredFacts DEF AccountInv, Shapes
<1>2. rt.ph = "discover" /\ rt' = [rt EXCEPT !.ph = "adopt", !.found = Discovered]
  BY DEF Discover
<1>3. rt' \in Runner  BY <1>1, <1>2 DEF Runner
<1>4. rt'.op = rt.op /\ rt'.m = rt.m /\ rt'.outcome = rt.outcome  BY <1>1, <1>2 DEF Runner
<1>5. InHand(rt')  BY <1>1, <1>2, <1>4 DEF InHand
<1>6. rt'.ph = "adopt"  BY <1>1, <1>2 DEF Runner
<1>7. Waits(rt', mem)  BY <1>4, <1>6 DEF AccountInv, Waits
<1>8. QED BY <1>3, <1>5, <1>7, ThreadStep DEF Discover

(* A step that changes memory to a login with a file, or to that of the    *)
(* environment.                                                            *)
LEMMA MemoryStep ==
  ASSUME AccountInv, mem' \in Known,
         mem'.acc # None => disk[mem'.acc] # 0 \/ mem' \in {mem, Environment},
         rt' \in Runner, InHand(rt'), Waits(rt', mem'),
         saver' \in Saver, saver' = Idle \/ saver' = saver,
         unbinder' \in Unbinder, UNCHANGED <<disk, files, logins, posted>>
  PROVE  AccountInv'
<1>1. Shapes'  BY DEF AccountInv, Shapes, files
<1>2. SavingHasFile'  BY DEF AccountInv, SavingHasFile, Idle
<1>3. NothingLeftBehind'
  BY Bounds DEF AccountInv, NothingLeftBehind, files
<1>4. QED BY <1>1, <1>2, <1>3 DEF AccountInv

(* An account is adopted only if its file is still there.                  *)
LEMMA AdoptInv == AccountInv /\ Adopt => AccountInv'
<1> SUFFICES ASSUME AccountInv, Adopt PROVE AccountInv'  OBVIOUS
<1>1. rt \in Runner /\ InHand(rt) /\ saver \in Saver /\ unbinder \in Unbinder
  BY DEF AccountInv, Shapes
<1> DEFINE l == Adopted(rt.found)
<1>2. l \in Known /\ (l = mem \/ (l.n # 0 /\ l.acc # None /\ disk[l.acc] # 0))
  <2>1. rt.found \in Known  BY <1>1 DEF Runner
  <2>2. QED BY <2>1, AdoptedFacts DEF AccountInv
<1>3. rt.ph = "adopt" /\ rt' = [rt EXCEPT !.ph = "act", !.login = l] /\ mem' = l
  BY DEF Adopt
<1> HIDE DEF l
<1>4. rt' \in Runner  BY <1>1, <1>2, <1>3 DEF Runner
<1>5. rt'.op = rt.op /\ rt'.m = rt.m /\ rt'.outcome = rt.outcome  BY <1>1, <1>3 DEF Runner
<1>6. InHand(rt')  BY <1>1, <1>3, <1>5 DEF InHand
<1>7. UNCHANGED <<disk, files, logins, posted>> /\ saver' = saver /\ unbinder' = unbinder
  BY DEF Adopt
<1>8. rt'.ph = "act" /\ rt'.login = l  BY <1>1, <1>3 DEF Runner
<1>9. Waits(rt', mem')  BY <1>2, <1>3, <1>5, <1>8 DEF AccountInv, Waits
<1>10. QED BY <1>1, <1>2, <1>3, <1>4, <1>6, <1>7, <1>9, MemoryStep

(* The loop goes on when there is an account with a token.                 *)
LEMMA LoopHeadInv == AccountInv /\ LoopHead => AccountInv'
<1> SUFFICES ASSUME AccountInv, LoopHead PROVE AccountInv'  OBVIOUS
<1> DEFINE op == IF IsConfigured(rt.login) THEN "drain" ELSE "head"
<1>1. rt \in Runner /\ rt.op = "head" /\ rt.ph = "act" /\ rt' = Begin(op)
  BY DEF AccountInv, Shapes, LoopHead, Acts
<1>2. op \in Operations /\ op \in {"drain", "head"}  BY DEF Operations
<1>3. mem.acc # None /\ mem.n = 0 => op = "head"
  BY <1>1 DEF AccountInv, Waits, IsConfigured
<1> HIDE DEF op
<1>4. Begun(rt', op)  BY <1>1, <1>2, BeginFacts
<1>5. InHand(rt')  BY <1>2, <1>4 DEF Begun, InHand
<1>6. Waits(rt', mem)  BY <1>3, <1>4 DEF Begun, Waits
<1>7. QED BY <1>4, <1>5, <1>6, ThreadStep DEF Begun, LoopHead

(* A poll begins with the cursor of its account.                           *)
LEMMA PollUpdatesInv == AccountInv /\ PollUpdates => AccountInv'
<1> SUFFICES ASSUME AccountInv, PollUpdates PROVE AccountInv'  OBVIOUS
<1>1. rt \in Runner /\ cursor \in [Accounts -> Cursor]  BY DEF AccountInv, Shapes
<1>2. rt' \in Runner /\ InHand(rt')
  <2>1. CASE ~IsConfigured(rt.login)
    <3> DEFINE q == Begin("persist")
    <3>1. rt' = [q EXCEPT !.batch = {}, !.next = NoCursor]  BY <2>1 DEF PollUpdates
    <3>2. Begun(q, "persist")  BY <1>1, BeginFacts DEF Operations
    <3>3. NoCursor \in Cursor  BY Bounds DEF NoCursor, Cursor
    <3> HIDE DEF q
    <3>4. rt' \in Runner /\ rt'.op = "persist"  BY <3>1, <3>2, <3>3 DEF Begun, Runner
    <3>5. QED BY <3>4 DEF InHand
  <2>2. CASE IsConfigured(rt.login)
    <3>1. rt' = [rt EXCEPT !.op = "waiting", !.next = cursor[rt.login.acc]] /\ rt.ph = "act"
      BY <2>2 DEF PollUpdates, Acts
    <3>2. rt.login.acc \in Accounts /\ rt.login # NoLogin
      BY <1>1, <2>2, LoginFacts DEF Runner, IsConfigured
    <3>3. cursor[rt.login.acc] \in Cursor  BY <1>1, <3>2
    <3>4. rt' \in Runner /\ rt'.op = "waiting" /\ rt'.ph = "act" /\ rt'.login = rt.login
      BY <1>1, <3>1, <3>3 DEF Runner, Operations
    <3>5. QED BY <3>2, <3>4 DEF InHand
  <2>3. QED BY <2>1, <2>2
<1>3. rt.op # "head"  BY DEF PollUpdates, Acts
<1>4. QED BY <1>2, <1>3, ThreadStep DEF PollUpdates

(* The provider's answer holds messages of the account that was polled.    *)
LEMMA PollReturnsInv == AccountInv /\ PollReturns => AccountInv'
<1> SUFFICES ASSUME AccountInv, PollReturns PROVE AccountInv'  OBVIOUS
<1> DEFINE a == rt.login.acc
           got == {<<a, i>> : i \in (rt.next.pos + 1)..posted[a]}
           next == [of |-> a, pos |-> posted[a]]
           q == Begin("persist")
<1>1. rt \in Runner /\ InHand(rt) /\ posted \in [Accounts -> 0..MaxSeq]
  BY DEF AccountInv, Shapes
<1>2. rt.op = "waiting" /\ rt' = [q EXCEPT !.batch = got, !.next = next]  BY DEF PollReturns
<1>3. a \in Accounts /\ rt.next \in Cursor  BY <1>1, <1>2, LoginFacts DEF InHand, Runner
<1>4. posted[a] \in 0..MaxSeq /\ rt.next.pos \in 0..MaxSeq  BY <1>1, <1>3 DEF Cursor
<1>5. got \subseteq Messages
  <2>1. (rt.next.pos + 1)..posted[a] \subseteq 1..MaxSeq  BY <1>4, Bounds
  <2>2. QED BY <1>3, <2>1 DEF Messages
<1>6. next \in Cursor  BY <1>3, <1>4 DEF Cursor
<1>7. Begun(q, "persist")  BY <1>1, BeginFacts DEF Operations
<1> HIDE DEF got, next, q
<1>8. rt' \in Runner /\ rt'.op = "persist"  BY <1>2, <1>5, <1>6, <1>7 DEF Begun, Runner
<1>9. InHand(rt')  BY <1>8 DEF InHand
<1>10. QED BY <1>2, <1>8, <1>9, ThreadStep DEF PollReturns

(* A poll that fails leaves the files alone.                               *)
LEMMA PollFailsInv == AccountInv /\ PollFails => AccountInv'
<1> SUFFICES ASSUME AccountInv, PollFails PROVE AccountInv'  OBVIOUS
<1> DEFINE q == Begin("head")
<1>1. rt \in Runner /\ rt.op = "waiting" /\ rt' = [q EXCEPT !.next = NoCursor]
  BY DEF AccountInv, Shapes, PollFails
<1>2. Begun(q, "head")  BY <1>1, BeginFacts DEF Operations
<1>3. NoCursor \in Cursor  BY Bounds DEF NoCursor, Cursor
<1> HIDE DEF q
<1>4. rt' \in Runner /\ rt'.op = "head"  BY <1>1, <1>2, <1>3 DEF Begun, Runner
<1>5. InHand(rt')  BY <1>4 DEF InHand
<1>6. QED BY <1>1, <1>4, <1>5, ThreadStep DEF PollFails

(* A turn ends with an outcome and leaves the files alone.                 *)
LEMMA HandleInboundInv == AccountInv /\ HandleInbound => AccountInv'
<1> SUFFICES ASSUME AccountInv, HandleInbound PROVE AccountInv'  OBVIOUS
<1> DEFINE q == Begin("finish")
<1>1. rt \in Runner /\ InHand(rt) /\ rt.op = "handling"
  BY DEF AccountInv, Shapes, HandleInbound
<1>2. PICK o \in {"succeeded", "failed", "terminal_failed"} : rt' = [q EXCEPT !.outcome = o]
  BY DEF HandleInbound
<1>3. Begun(q, "finish") /\ q.m = rt.m  BY <1>1, BeginFacts DEF Operations
<1> HIDE DEF q
<1>4. rt' \in Runner /\ rt'.op = "finish" /\ rt'.m = rt.m /\ rt'.outcome = o
  BY <1>2, <1>3 DEF Begun, Runner, Outcomes
<1>5. InHand(rt')  BY <1>1, <1>4 DEF InHand
<1>6. QED BY <1>1, <1>4, <1>5, ThreadStep DEF HandleInbound

(* A step that writes the files of an account that may have some.          *)
LEMMA FilesStep ==
  ASSUME AccountInv, rt' \in Runner, InHand(rt'), rt.op # "head" \/ rt' = rt,
         inbox' \in [Accounts -> Box], cursor' \in [Accounts -> Cursor],
         \A a \in Accounts : ~Backed(a) => inbox'[a] = inbox[a] /\ cursor'[a] = cursor[a],
         UNCHANGED <<disk, mem, saver, unbinder, logins, posted>>
  PROVE  AccountInv'
<1>1. Shapes'  BY DEF AccountInv, Shapes
<1>2. SavingHasFile'  BY DEF AccountInv, SavingHasFile
<1>3. NothingLeftBehind'  BY DEF AccountInv, NothingLeftBehind, Backed
<1>4. Waits(rt', mem')  BY DEF AccountInv, Waits
<1>5. QED BY <1>1, <1>2, <1>3, <1>4 DEF AccountInv

(* A batch is stored only for an account that is in memory.                *)
LEMMA PersistInv == AccountInv /\ PersistInboundBatch => AccountInv'
<1> SUFFICES ASSUME AccountInv, PersistInboundBatch PROVE AccountInv'  OBVIOUS
<1>1. rt \in Runner /\ inbox \in [Accounts -> Box] /\ cursor \in [Accounts -> Cursor]
      /\ cursor' = cursor /\ rt.op # "head"
  BY DEF AccountInv, Shapes, PersistInboundBatch, Acts
<1>2. NoCursor \in Cursor  BY Bounds DEF NoCursor, Cursor
<1>3. CASE Current(rt.login)
  <2> DEFINE a == rt.login.acc
             b == Stored(inbox[a], rt.batch)
             q == Begin("commit")
  <2>1. a \in Accounts /\ Backed(a)  BY <1>1, <1>3, CurrentFacts
  <2>2. inbox' = [inbox EXCEPT ![a] = b] /\ rt' = [q EXCEPT !.batch = {}]
    BY <1>1, <1>3 DEF PersistInboundBatch
  <2>3. inbox[a] \in Box  BY <1>1, <2>1
  <2>4. [NoItem EXCEPT !.status = "pending"] \in Item  BY DEF NoItem, Item
  <2>5. b \in Box  BY <2>3, <2>4 DEF Stored, Box
  <2>6. Begun(q, "commit")  BY <1>1, BeginFacts DEF Operations
  <2> HIDE DEF q, b
  <2>7. rt' \in Runner /\ rt'.op = "commit"  BY <2>2, <2>6 DEF Begun, Runner
  <2>8. InHand(rt')  BY <2>7 DEF InHand
  <2>9. inbox' \in [Accounts -> Box] /\ \A x \in Accounts : ~Backed(x) => inbox'[x] = inbox[x]
    BY <1>1, <2>1, <2>2, <2>5
  <2>10. QED BY <1>1, <2>7, <2>8, <2>9, FilesStep DEF PersistInboundBatch
<1>4. CASE ~Current(rt.login)
  <2> DEFINE q == Begin("head")
  <2>1. inbox' = inbox /\ rt' = [q EXCEPT !.batch = {}, !.next = NoCursor]
    BY <1>4 DEF PersistInboundBatch
  <2>2. Begun(q, "head")  BY <1>1, BeginFacts DEF Operations
  <2> HIDE DEF q
  <2>3. rt' \in Runner /\ rt'.op = "head"  BY <1>2, <2>1, <2>2 DEF Begun, Runner
  <2>4. InHand(rt')  BY <2>3 DEF InHand
  <2>5. QED BY <1>1, <2>1, <2>3, <2>4, FilesStep DEF PersistInboundBatch
<1>5. QED BY <1>3, <1>4

(* So is a cursor.                                                         *)
LEMMA CommitInv == AccountInv /\ CommitPollCursor => AccountInv'
<1> SUFFICES ASSUME AccountInv, CommitPollCursor PROVE AccountInv'  OBVIOUS
<1> DEFINE again == Current(rt.login)
           op == IF again THEN "drain" ELSE "head"
           q == Begin(op)
<1>1. rt \in Runner /\ inbox \in [Accounts -> Box] /\ cursor \in [Accounts -> Cursor]
      /\ inbox' = inbox /\ rt' = [q EXCEPT !.next = NoCursor, !.again = again]
      /\ rt.op # "head"
  BY DEF AccountInv, Shapes, CommitPollCursor, Acts
<1>2. NoCursor \in Cursor /\ rt.next \in Cursor  BY <1>1, Bounds DEF NoCursor, Cursor, Runner
<1>3. again \in BOOLEAN  BY DEF Current
<1>4. op \in Operations /\ op \in {"drain", "head"}  BY DEF Operations
<1>5. cursor' \in [Accounts -> Cursor] /\ \A a \in Accounts : ~Backed(a) => cursor'[a] = cursor[a]
  <2>1. CASE Current(rt.login)
    <3>1. cursor' = [cursor EXCEPT ![rt.login.acc] = rt.next]  BY <2>1 DEF CommitPollCursor
    <3>2. rt.login.acc \in Accounts /\ Backed(rt.login.acc)  BY <1>1, <2>1, CurrentFacts
    <3>3. QED BY <1>1, <1>2, <3>1, <3>2
  <2>2. CASE ~Current(rt.login)  BY <1>1, <2>2 DEF CommitPollCursor
  <2>3. QED BY <2>1, <2>2
<1> HIDE DEF op
<1>6. Begun(q, op)  BY <1>1, <1>4, BeginFacts
<1> HIDE DEF q, again
<1>7. rt' \in Runner /\ rt'.op = op  BY <1>1, <1>2, <1>3, <1>6 DEF Begun, Runner
<1>8. InHand(rt')  BY <1>4, <1>7 DEF InHand
<1>9. QED BY <1>1, <1>5, <1>7, <1>8, FilesStep DEF CommitPollCursor

(* A step that writes one item of the inbox of an account.                 *)
LEMMA OneItem ==
  ASSUME AccountInv, NEW a \in Accounts, Backed(a), NEW m \in Messages, NEW it \in Item,
         inbox' = [inbox EXCEPT ![a][m] = it]
  PROVE  /\ inbox' \in [Accounts -> Box]
         /\ inbox'[a][m] = it
         /\ \A x \in Accounts, y \in Messages : ~(x = a /\ y = m) => inbox'[x][y] = inbox[x][y]
         /\ \A x \in Accounts : ~Backed(x) => inbox'[x] = inbox[x]
<1>1. inbox \in [Accounts -> Box]  BY DEF AccountInv, Shapes
<1>2. inbox' = [inbox EXCEPT ![a] = [inbox[a] EXCEPT ![m] = it]]  BY <1>1
<1> DEFINE b == [inbox[a] EXCEPT ![m] = it]
<1>3. b \in Box /\ b[m] = it /\ \A y \in Messages : y # m => b[y] = inbox[a][y]
  <2>1. inbox[a] \in Box  BY <1>1
  <2>2. QED BY <2>1 DEF Box
<1> HIDE DEF b
<1>4. inbox'[a] = b /\ \A x \in Accounts : x # a => inbox'[x] = inbox[x]  BY <1>1, <1>2 DEF b
<1>5. inbox' \in [Accounts -> Box]  BY <1>1, <1>2, <1>3 DEF b
<1>6. QED BY <1>3, <1>4, <1>5

(* A claim is written to the inbox of an account that may have one.        *)
LEMMA ClaimInv == AccountInv /\ ClaimInbound => AccountInv'
<1> SUFFICES ASSUME AccountInv, ClaimInbound PROVE AccountInv'  OBVIOUS
<1> DEFINE a == rt.login.acc
           free == {m \in Messages : Current(rt.login) /\ Claimable(inbox[a][m])}
<1>1. rt \in Runner /\ inbox \in [Accounts -> Box] /\ cursor \in [Accounts -> Cursor]
      /\ cursor' = cursor /\ rt.op # "head"
  BY DEF AccountInv, Shapes, ClaimInbound, Acts
<1>2. CASE rt' = AfterDrain /\ UNCHANGED inbox
  <2>1. rt' \in Runner /\ InHand(rt')  BY <1>1, <1>2, AfterDrainFacts
  <2>2. QED BY <1>1, <1>2, <2>1, FilesStep DEF ClaimInbound
<1>3. ASSUME NEW m \in free, inbox' = [inbox EXCEPT ![a][m] = Claimed(@)],
             rt' = [rt EXCEPT !.op = "handling", !.m = m, !.token = inbox[a][m].attempts + 1]
      PROVE  AccountInv'
  <2>1. m \in Messages /\ a \in Accounts /\ Backed(a)  BY <1>1, <1>3, CurrentFacts
  <2>2. inbox[a][m] \in Item  BY <1>1, <2>1 DEF Box
  <2>3. inbox[a][m].attempts + 1 \in Nat  BY <2>2 DEF Item
  <2>4. Claimed(inbox[a][m]) \in Item  BY <2>3 DEF Claimed, Item
  <2>5. inbox' = [inbox EXCEPT ![a][m] = Claimed(inbox[a][m])]  BY <1>1, <1>3, <2>1 DEF Box
  <2> HIDE DEF a, free
  <2>6. inbox' \in [Accounts -> Box] /\ \A x \in Accounts : ~Backed(x) => inbox'[x] = inbox[x]
    BY <2>1, <2>4, <2>5, OneItem
  <2>7. rt' \in Runner /\ rt'.op = "handling" /\ rt'.m = m
    BY <1>1, <1>3, <2>1, <2>3 DEF Runner, Operations
  <2>8. InHand(rt')  BY <2>1, <2>7 DEF InHand
  <2>9. QED BY <1>1, <2>6, <2>7, <2>8, FilesStep DEF ClaimInbound
<1>4. QED BY <1>2, <1>3 DEF ClaimInbound

(* So is the end of a claim.                                               *)
LEMMA FinishInv == AccountInv /\ FinishInbound => AccountInv'
<1> SUFFICES ASSUME AccountInv, FinishInbound PROVE AccountInv'  OBVIOUS
<1> DEFINE a == rt.login.acc
           own == Current(rt.login) /\ OwnClaim(inbox[a][rt.m])
           q == Begin("drain")
<1>1. rt \in Runner /\ InHand(rt) /\ inbox \in [Accounts -> Box]
      /\ cursor \in [Accounts -> Cursor] /\ cursor' = cursor
  BY DEF AccountInv, Shapes, FinishInbound
<1>2. rt.op = "finish" /\ rt.m \in Messages /\ rt.outcome \in Outcomes
  BY <1>1 DEF FinishInbound, Acts, InHand, Runner
<1>3. rt' \in Runner /\ InHand(rt')
  <2>1. rt' = AfterDrain \/ rt' = [q EXCEPT !.m = None, !.token = 0, !.outcome = "none"]
    BY DEF FinishInbound
  <2>2. Begun(q, "drain")  BY <1>1, BeginFacts DEF Operations
  <2> HIDE DEF q
  <2>3. CASE rt' = AfterDrain  BY <1>1, <2>3, AfterDrainFacts
  <2>4. CASE rt' = [q EXCEPT !.m = None, !.token = 0, !.outcome = "none"]
    <3>1. rt' \in Runner /\ rt'.op = "drain"  BY <2>2, <2>4 DEF Begun, Runner, Outcomes
    <3>2. QED BY <3>1 DEF InHand
  <2>5. QED BY <2>1, <2>3, <2>4
<1>4. inbox' \in [Accounts -> Box] /\ \A x \in Accounts : ~Backed(x) => inbox'[x] = inbox[x]
  <2>1. CASE own
    <3>1. a \in Accounts /\ Backed(a)  BY <1>2, <2>1, CurrentFacts
    <3>2. inbox[a][rt.m] \in Item  BY <1>1, <1>2, <3>1 DEF Box
    <3>3. Finished(inbox[a][rt.m]) \in Item  BY <1>2, <3>2 DEF Finished, Item, Outcomes
    <3>4. inbox' = [inbox EXCEPT ![a][rt.m] = Finished(inbox[a][rt.m])]
      BY <1>1, <1>2, <2>1, <3>1 DEF FinishInbound, Box
    <3> HIDE DEF a
    <3>5. QED BY <1>2, <3>1, <3>3, <3>4, OneItem
  <2>2. CASE ~own  BY <1>1, <2>2 DEF FinishInbound
  <2>3. QED BY <2>1, <2>2
<1>5. QED BY <1>1, <1>2, <1>3, <1>4, FilesStep DEF FinishInbound

(* A lease lapses in an inbox that is there.                               *)
LEMMA LeaseLapsesInv ==
  ASSUME AccountInv, NEW a \in Accounts, NEW m \in Messages, LeaseLapses(a, m)
  PROVE  AccountInv'
<1>1. rt \in Runner /\ InHand(rt) /\ inbox \in [Accounts -> Box]
      /\ cursor \in [Accounts -> Cursor] /\ cursor' = cursor /\ rt' = rt
  BY DEF AccountInv, Shapes, LeaseLapses
<1>2. inbox[a][m].leased /\ inbox[a][m] \in Item  BY <1>1 DEF LeaseLapses, Box
<1>3. Backed(a)  BY <1>2 DEF AccountInv, NothingLeftBehind, NoItem, Backed
<1>4. inbox' = [inbox EXCEPT ![a][m] = [inbox[a][m] EXCEPT !.leased = FALSE]]
  BY <1>1 DEF LeaseLapses, Box
<1>5. [inbox[a][m] EXCEPT !.leased = FALSE] \in Item  BY <1>2 DEF Item
<1>6. inbox' \in [Accounts -> Box] /\ \A x \in Accounts : ~Backed(x) => inbox'[x] = inbox[x]
  BY <1>3, <1>4, <1>5, OneItem
<1>7. QED BY <1>1, <1>6, FilesStep DEF LeaseLapses

-----------------------------------------------------------------------------
(* The setup pages.                                                        *)
LEMMA SaveFileInv ==
  ASSUME AccountInv, NEW a \in Accounts, SaveAccountFile(a)
  PROVE  AccountInv'
<1> DEFINE k == logins + 1
           l == [acc |-> a, n |-> k]
<1>1. Shapes /\ disk \in [Accounts -> 0..MaxLogins]  BY DEF AccountInv, Shapes
<1>2. k \in 1..MaxLogins  BY <1>1, Bounds DEF Shapes, SaveAccountFile
<1>3. disk' = [disk EXCEPT ![a] = k] /\ saver' = [pc |-> "saving", login |-> l] /\ logins' = k
  BY DEF SaveAccountFile
<1>4. UNCHANGED <<mem, inbox, cursor, rt, unbinder, posted>>  BY DEF SaveAccountFile, files
<1>5. l \in [acc: Accounts, n: 1..MaxLogins] /\ l.acc = a  BY <1>2
<1> HIDE DEF k, l
<1>6. saver' \in Saver /\ saver'.login.acc = a  BY <1>3, <1>5 DEF Saver
<1>7. disk' \in [Accounts -> 0..MaxLogins] /\ disk'[a] # 0
      /\ \A x \in Accounts : disk'[x] = 0 => disk[x] = 0
  BY <1>1, <1>2, <1>3, Bounds
<1>8. logins' \in 0..MaxLogins  BY <1>2, <1>3, Bounds
<1>9. Shapes'  BY <1>1, <1>4, <1>6, <1>7, <1>8 DEF Shapes
<1>10. SavingHasFile'  BY <1>6, <1>7 DEF SavingHasFile
<1>11. NothingLeftBehind'  BY <1>4, <1>7 DEF AccountInv, NothingLeftBehind
<1>12. InHand(rt') /\ Waits(rt', mem')  BY <1>4 DEF AccountInv
<1>13. QED BY <1>9, <1>10, <1>11, <1>12 DEF AccountInv

(* The login that memory takes over has its file already.                  *)
LEMMA SaveStateInv == AccountInv /\ SaveAccountState => AccountInv'
<1> SUFFICES ASSUME AccountInv, SaveAccountState PROVE AccountInv'  OBVIOUS
<1>1. Shapes /\ InHand(rt) /\ saver.pc = "saving" /\ disk[saver.login.acc] # 0
  BY DEF AccountInv, SavingHasFile, SaveAccountState
<1>2. saver.login \in Known /\ saver.login.n # 0
  <2>1. saver # Idle  BY <1>1 DEF Idle
  <2>2. saver.login \in [acc: Accounts, n: 1..MaxLogins]  BY <1>1, <2>1 DEF Shapes, Saver
  <2>3. QED BY <2>2, Bounds DEF Known
<1>3. mem' = saver.login /\ saver' = Idle /\ UNCHANGED <<disk, files, logins, posted>>
      /\ rt' = rt /\ unbinder' = unbinder
  BY DEF SaveAccountState
<1>4. Idle \in Saver  BY DEF Saver
<1>5. Waits(rt', mem')  BY <1>2, <1>3 DEF Waits
<1>6. QED BY <1>1, <1>2, <1>3, <1>4, <1>5, MemoryStep DEF Shapes

(* An unbind first looks for the account.                                  *)
LEMMA UnbindAsksInv == AccountInv /\ UnbindAsks => AccountInv'
<1> SUFFICES ASSUME AccountInv, UnbindAsks PROVE AccountInv'  OBVIOUS
<1>1. Shapes /\ Discovered \in Known  BY DiscoveredFacts DEF AccountInv
<1>2. unbinder' \in Unbinder  BY <1>1 DEF UnbindAsks, Unbinder
<1>3. UNCHANGED <<disk, mem, inbox, cursor, rt, saver, logins, posted>>
  BY DEF UnbindAsks, files
<1>4. QED
  BY <1>1, <1>2, <1>3 DEF AccountInv, Shapes, SavingHasFile, NothingLeftBehind

(* Then it adopts what it found, as the thread does.                       *)
LEMMA UnbindAdoptsInv == AccountInv /\ UnbindAdopts => AccountInv'
<1> SUFFICES ASSUME AccountInv, UnbindAdopts PROVE AccountInv'  OBVIOUS
<1> DEFINE l == Adopted(unbinder.login)
<1>1. Shapes /\ InHand(rt)  BY DEF AccountInv
<1>2. unbinder.login \in Known
  <2>1. unbinder # Idle  BY DEF UnbindAdopts, Idle
  <2>2. QED BY <1>1, <2>1 DEF Shapes, Unbinder
<1>3. l \in Known /\ (l = mem \/ (l.n # 0 /\ l.acc # None /\ disk[l.acc] # 0))
  BY <1>1, <1>2, AdoptedFacts
<1>4. mem' = l /\ unbinder' = [pc |-> "unbinding", login |-> l]  BY DEF UnbindAdopts
<1> HIDE DEF l
<1>5. unbinder' \in Unbinder  BY <1>3, <1>4 DEF Unbinder
<1>6. UNCHANGED <<disk, files, logins, posted>> /\ rt' = rt /\ saver' = saver
  BY DEF UnbindAdopts
<1>7. Waits(rt', mem')  BY <1>3, <1>4, <1>6 DEF AccountInv, Waits
<1>8. QED BY <1>1, <1>3, <1>4, <1>5, <1>6, <1>7, MemoryStep DEF Shapes

(* unbind removes the account file last, so what is left behind when it    *)
(* stops half way belongs to an account that is still there.               *)
LEMMA UnbindInv ==
  ASSUME AccountInv, NEW removed \in Removals, Unbind(removed)
  PROVE  AccountInv'
<1> DEFINE login == unbinder.login
           a == login.acc
<1>1. Shapes /\ InHand(rt) /\ unbinder.pc = "unbinding" /\ unbinder' = Idle
      /\ UNCHANGED <<rt, saver, logins, posted>>
  BY DEF AccountInv, Unbind
<1>2. login \in Known
  <2>1. unbinder # Idle  BY <1>1 DEF Idle
  <2>2. QED BY <1>1, <2>1 DEF Shapes, Unbinder
<1>3. Idle \in Unbinder /\ NoLogin \in Known  BY DEF Unbinder, Known
<1>4. CASE a = None
  <2>1. mem' = NoLogin /\ UNCHANGED <<disk, files>>  BY <1>4 DEF Unbind
  <2>2. mem'.acc = None  BY <2>1 DEF NoLogin
  <2>3. Waits(rt', mem')  BY <2>2 DEF Waits
  <2>4. QED BY <1>1, <1>3, <2>1, <2>2, <2>3, MemoryStep DEF Shapes
<1>5. CASE a # None
  <2>1. a \in Accounts  BY <1>2, <1>5, LoginFacts
  <2>2. ~SavesAccount(a)  BY <1>5 DEF Unbind
  <2>3. CASE disk[a] # 0 /\ disk[a] = login.n /\ mem = login
    <3> DEFINE empty == [m \in Messages |-> NoItem]
    <3>1. /\ cursor' = IF "sync" \in removed THEN [cursor EXCEPT ![a] = NoCursor] ELSE cursor
          /\ inbox' = IF "inbox" \in removed THEN [inbox EXCEPT ![a] = empty] ELSE inbox
          /\ disk' = IF "account" \in removed THEN [disk EXCEPT ![a] = 0] ELSE disk
          /\ mem' = IF "account" \in removed THEN NoLogin ELSE mem
      BY <1>5, <2>3 DEF Unbind
    <3>2. empty \in Box /\ NoCursor \in Cursor
      BY Bounds DEF NoItem, Item, Box, NoCursor, Cursor
    <3>3. \A m \in Messages : empty[m] = NoItem  OBVIOUS
    <3> HIDE DEF empty, a, login
    <3>4. /\ disk \in [Accounts -> 0..MaxLogins] /\ inbox \in [Accounts -> Box]
          /\ cursor \in [Accounts -> Cursor] /\ mem \in Known
      BY <1>1 DEF Shapes
    <3>5. 0 \in 0..MaxLogins  BY Bounds
    <3>6. /\ disk' \in [Accounts -> 0..MaxLogins] /\ inbox' \in [Accounts -> Box]
          /\ cursor' \in [Accounts -> Cursor] /\ mem' \in Known
      BY <1>3, <2>1, <3>1, <3>2, <3>4, <3>5
    <3>7. Shapes'  BY <1>1, <1>3, <3>6 DEF Shapes
    <3>8. ASSUME saver'.pc = "saving" PROVE disk'[saver'.login.acc] # 0
      <4>1. saver.pc = "saving" /\ saver.login.acc # a  BY <1>1, <2>2, <3>8 DEF SavesAccount
      <4>2. disk[saver.login.acc] # 0  BY <4>1 DEF AccountInv, SavingHasFile
      <4>3. saver.login.acc \in Accounts
        <5>1. saver # Idle  BY <4>1 DEF Idle
        <5>2. QED BY <1>1, <5>1 DEF Shapes, Saver
      <4>4. disk'[saver.login.acc] = disk[saver.login.acc]  BY <2>1, <3>1, <3>4, <4>1, <4>3
      <4>5. QED BY <1>1, <4>2, <4>4
    <3>9. ASSUME NEW x \in Accounts, disk'[x] = 0
          PROVE  /\ mem'.acc = x => mem' = Environment
                 /\ Provided(x) \/ (cursor'[x] = NoCursor
                                   /\ \A m \in Messages : inbox'[x][m] = NoItem)
      <4>1. CASE x = a
        <5>1. disk[a] # 0  BY <2>3
        <5>2. "account" \in removed  BY <3>1, <3>9, <4>1, <5>1
        <5>3. "sync" \in removed /\ "inbox" \in removed  BY <5>2 DEF Removals
        <5>4. mem' = NoLogin /\ inbox'[x] = empty /\ cursor'[x] = NoCursor
          BY <2>1, <3>1, <3>4, <4>1, <5>2, <5>3
        <5>5. mem'.acc # x  BY <5>4, Bounds DEF NoLogin
        <5>6. QED BY <3>3, <5>4, <5>5
      <4>2. CASE x # a
        <5>1. disk[x] = 0 /\ inbox'[x] = inbox[x] /\ cursor'[x] = cursor[x]
          BY <2>1, <3>1, <3>4, <3>9, <4>2
        <5>2. /\ mem.acc = x => mem = Environment
              /\ Provided(x) \/ (cursor[x] = NoCursor /\ \A m \in Messages : inbox[x][m] = NoItem)
          BY <5>1 DEF AccountInv, NothingLeftBehind
        <5>3. mem'.acc = x => mem' = Environment  BY <3>1, <5>2, Bounds DEF NoLogin
        <5>4. QED BY <5>1, <5>2, <5>3
      <4>3. QED BY <4>1, <4>2
    <3>10. NothingLeftBehind'  BY <3>9 DEF NothingLeftBehind
    <3>11. SavingHasFile'  BY <3>8 DEF SavingHasFile
    <3>12. Waits(rt', mem')  BY <1>1, <3>1 DEF AccountInv, Waits, NoLogin
    <3>13. QED BY <1>1, <3>7, <3>10, <3>11, <3>12 DEF AccountInv
  <2>4. CASE ~(disk[a] # 0 /\ disk[a] = login.n /\ mem = login)
    <3>1. UNCHANGED <<disk, mem, files>>  BY <1>5, <2>4 DEF Unbind
    <3>2. QED
      BY <1>1, <1>3, <3>1 DEF AccountInv, Shapes, SavingHasFile, NothingLeftBehind, files
  <2>5. QED BY <2>3, <2>4
<1>6. QED BY <1>4, <1>5

(* A restart takes an account with a file, or that of the environment.     *)
LEMMA RestartInv == AccountInv /\ Restart => AccountInv'
<1> SUFFICES ASSUME AccountInv, Restart PROVE AccountInv'  OBVIOUS
<1>1. NewAccount \in Known
      /\ (NewAccount.acc # None => disk[NewAccount.acc] # 0 \/ NewAccount = Environment)
  <2>1. NewAccount \in {Lookup(Configured), Environment}  BY DEF NewAccount
  <2>2. QED BY <2>1, LookupFacts, Bounds DEF AccountInv, Known
<1>2. mem' = NewAccount /\ rt' = Start /\ saver' = Idle /\ unbinder' = Idle
      /\ UNCHANGED <<disk, files, logins, posted>>
  BY DEF Restart
<1>3. Idle \in Saver /\ Idle \in Unbinder  BY DEF Saver, Unbinder
<1>4. Waits(rt', mem')  BY <1>2, StartFacts DEF Waits
<1>5. QED BY <1>1, <1>2, <1>3, <1>4, StartFacts, MemoryStep

(* What the provider has is none of the account's files.                   *)
LEMMA PostInv ==
  ASSUME AccountInv, NEW a \in Accounts, Post(a)
  PROVE  AccountInv'
<1>1. posted \in [Accounts -> 0..MaxSeq]  BY DEF AccountInv, Shapes
<1>2. posted[a] + 1 \in 0..MaxSeq  BY <1>1, Bounds DEF Post
<1>3. posted' \in [Accounts -> 0..MaxSeq]  BY <1>1, <1>2 DEF Post
<1>4. UNCHANGED <<disk, mem, inbox, cursor, rt, saver, unbinder, logins>>  BY DEF Post, files
<1>5. QED BY <1>3, <1>4 DEF AccountInv, Shapes, SavingHasFile, NothingLeftBehind

-----------------------------------------------------------------------------
(* There is no account at first.                                           *)
LEMMA AccountInvInit == Init => AccountInv
<1> SUFFICES ASSUME Init PROVE AccountInv  OBVIOUS
<1>1. 0 \in 0..MaxLogins /\ 0 \in 0..MaxSeq  BY Bounds
<1>2. NoItem \in Item /\ NoCursor \in Cursor  BY <1>1 DEF NoItem, Item, NoCursor, Cursor
<1>3. inbox \in [Accounts -> Box]  BY <1>2 DEF Init, Box
<1>4. disk \in [Accounts -> 0..MaxLogins] /\ posted \in [Accounts -> 0..MaxSeq]
      /\ cursor \in [Accounts -> Cursor]
  BY <1>1, <1>2 DEF Init
<1>5. mem \in Known /\ saver \in Saver /\ unbinder \in Unbinder /\ rt = Start /\ logins = 0
      /\ saver.pc = "idle" /\ mem = Environment
  BY DEF Init, Known, Saver, Unbinder, Idle
<1>6. Shapes /\ InHand(rt)  BY <1>1, <1>3, <1>4, <1>5, StartFacts DEF Shapes
<1>7. NothingLeftBehind  BY <1>5, Bounds DEF Init, NothingLeftBehind
<1>8. Waits(rt, mem)  BY <1>5, StartFacts DEF Waits
<1>9. QED BY <1>5, <1>6, <1>7, <1>8 DEF AccountInv, SavingHasFile

(* Every step keeps the accounts sound.                                    *)
LEMMA AccountInvNext == AccountInv /\ [Next]_vars => AccountInv'
<1> SUFFICES ASSUME AccountInv, [Next]_vars PROVE AccountInv'  OBVIOUS
<1>1. CASE UNCHANGED vars
  BY <1>1 DEF vars, AccountInv, Shapes, SavingHasFile, NothingLeftBehind
<1>2. CASE Runtime
  BY <1>2, DiscoverInv, AdoptInv, LoopHeadInv, PollUpdatesInv, PollReturnsInv, PollFailsInv,
     PersistInv, CommitInv, ClaimInv, HandleInboundInv, FinishInv
  DEF Runtime
<1>3. CASE Setup
  BY <1>3, SaveFileInv, SaveStateInv, UnbindAsksInv, UnbindAdoptsInv, UnbindInv DEF Setup
<1>4. CASE Restart  BY <1>4, RestartInv
<1>5. ASSUME NEW a \in Accounts, Post(a) \/ \E m \in Messages : LeaseLapses(a, m)
      PROVE  AccountInv'
  BY <1>5, PostInv, LeaseLapsesInv
<1>6. QED BY <1>1, <1>2, <1>3, <1>4, <1>5 DEF Next

(* The invariant of the accounts holds throughout, for any number of       *)
(* accounts and messages.                                                  *)
THEOREM AccountInvariance == Spec => []AccountInv
  BY AccountInvInit, AccountInvNext, PTL DEF Spec

(* An account without a file, one that was unbound among them, has neither *)
(* inbox nor cursor and is not in memory, however its unbind (weixin.rs,   *)
(* clear_weixin_account_state) met a poll, a login or a restart.  The one  *)
(* exception is the account that the environment names: memory may hold    *)
(* it just as the environment has it, and with a token it may be stored    *)
(* for.  What the environment says is a parameter.                         *)
THEOREM AccountsStaySound == Spec => []AccountsAreSound
<1>1. AccountInv => AccountsAreSound
  <2> SUFFICES ASSUME AccountInv PROVE AccountsAreSound  OBVIOUS
  <2>1. Shapes  BY DEF AccountInv
  <2>2. mem \in Login /\ rt.login \in Login /\ rt.found \in Login /\ rt.op \in Operations
        /\ rt.ph \in {"discover", "adopt", "act"}
    BY <2>1, LoginFacts DEF Shapes, Runner
  <2>3. saver.pc \in {"idle", "saving"} /\ unbinder.pc \in {"idle", "discovered", "unbinding"}
    BY <2>1 DEF Shapes, Saver, Unbinder, Idle
  <2>4. ASSUME NEW a \in Accounts, NEW m \in Messages
        PROVE  inbox[a][m] \in Item
    BY <2>1 DEF Shapes, Box
  <2>5. WeixinTypeOK
    BY <2>1, <2>2, <2>3, <2>4 DEF WeixinTypeOK, Shapes, Item
  <2>6. QED BY <2>5 DEF AccountInv, AccountsAreSound
<1>2. QED BY <1>1, AccountInvariance, PTL

(* Memory takes up an account that has no file.                            *)
TakesUp == mem' # mem /\ mem'.acc # None /\ disk'[mem'.acc] = 0

(* Only a restart puts an account without a file in memory: one that was   *)
(* unbound stays away while the gateway runs, also when it is the account  *)
(* of the environment (refresh_account_from_disk of weixin.rs adopts files *)
(* only, and asks for them again under the lock).                          *)
THEOREM OnlyARestartTakesUp == Spec => [][TakesUp => Restart]_vars
<1>1. ASSUME AccountInv, [Next]_vars, TakesUp PROVE Restart
  <2>1. Shapes /\ mem' # mem  BY <1>1 DEF AccountInv, TakesUp
  <2>2. ASSUME Adopt PROVE FALSE
    <3>1. rt.found \in Known  BY <2>1 DEF Shapes, Runner
    <3>2. mem' = Adopted(rt.found) /\ disk' = disk  BY <2>2 DEF Adopt
    <3>3. QED BY <1>1, <2>1, <3>1, <3>2, AdoptedFacts DEF TakesUp
  <2>3. ASSUME UnbindAdopts PROVE FALSE
    <3>1. unbinder # Idle  BY <2>3 DEF UnbindAdopts, Idle
    <3>2. unbinder.login \in Known  BY <2>1, <3>1 DEF Shapes, Unbinder
    <3>3. mem' = Adopted(unbinder.login) /\ disk' = disk  BY <2>3 DEF UnbindAdopts
    <3>4. QED BY <1>1, <2>1, <3>2, <3>3, AdoptedFacts DEF TakesUp
  <2>4. ASSUME SaveAccountState PROVE FALSE
    BY <1>1, <2>4 DEF SaveAccountState, AccountInv, SavingHasFile, TakesUp
  <2>5. ASSUME NEW removed \in Removals, Unbind(removed) PROVE FALSE
    <3>1. mem' = mem \/ mem' = NoLogin  BY <2>5 DEF Unbind
    <3>2. QED BY <1>1, <3>1 DEF TakesUp, NoLogin
  <2>6. Runtime => Adopt
    BY <2>1 DEF Runtime, Discover, LoopHead, PollUpdates, PollReturns, PollFails,
       PersistInboundBatch, CommitPollCursor, ClaimInbound, HandleInbound, FinishInbound
  <2>7. ~Setup
    <3>1. \A a \in Accounts : ~SaveAccountFile(a)  BY <2>1 DEF SaveAccountFile
    <3>2. ~UnbindAsks  BY <2>1 DEF UnbindAsks
    <3>3. QED BY <2>3, <2>4, <2>5, <3>1, <3>2 DEF Setup
  <2>8. ~UNCHANGED vars  BY <2>1 DEF vars
  <2>9. \A a \in Accounts : ~Post(a) /\ \A m \in Messages : ~LeaseLapses(a, m)
    BY <2>1 DEF Post, LeaseLapses
  <2>10. QED BY <1>1, <2>2, <2>6, <2>7, <2>8, <2>9 DEF Next
<1>2. AccountInv /\ [Next]_vars => [TakesUp => Restart]_vars  BY <1>1
<1>3. QED BY <1>2, AccountInvariance, PTL DEF Spec

-----------------------------------------------------------------------------
(* The promise of the inbox, for one account that nobody unbinds.          *)
Held    == {"pending", "processing", "failed"}
Settled == {"succeeded", "terminal_failed"}

(* Stored messages are never lost and settled ones never touched.          *)
Evolves(i, j) ==
  \/ j.status = i.status
  \/ i.status = "none" /\ j.status \in Held
  \/ i.status \in Held /\ j.status \in Held \cup Settled

(* The cursor that a poll fetched passes over messages that are in the     *)
(* batch at first and in the inbox when it is saved.                       *)
Fetching(q, B, C, P) ==
  /\ q.op = "waiting" => \A a \in Accounts : q.next = C[a]
  /\ q.op \in {"persist", "commit"} =>
       \A a \in Accounts : q.next.of = a /\ C[a].pos <= q.next.pos /\ q.next.pos <= P[a]
  /\ q.op = "persist" => \A m \in Messages : m[2] <= q.next.pos =>
                           m \in q.batch \/ B[m[1]][m].status # "none"
  /\ q.op = "commit" => \A m \in Messages : m[2] <= q.next.pos => B[m[1]][m].status # "none"

(* So does the cursor that was saved.                                      *)
Passed(B, C, P) ==
  /\ \A a \in Accounts : C[a].pos <= P[a]
  /\ \A m \in Messages : m[2] <= C[m[1]].pos => B[m[1]][m].status # "none"

(* A message without a status was never stored.                            *)
Blank(B) == \A a \in Accounts, m \in Messages : B[a][m].status = "none" => B[a][m] = NoItem

(* Past the head of the loop there is an account with a token, and nobody  *)
(* unbinds it: no poll ends with an empty cursor for want of one.          *)
Serving(q, l) ==
  /\ q.op # "head" \/ (q.ph = "act" /\ IsConfigured(q.login)) => IsConfigured(l)
  /\ q.op # "head" /\ q.ph = "act" => IsConfigured(q.login)

(* The inductive invariant of the promise.                                 *)
PromiseInv ==
  /\ AccountInv /\ unbinder = Idle /\ Serving(rt, mem) /\ Blank(inbox)
  /\ Fetching(rt, inbox, cursor, posted) /\ Passed(inbox, cursor, posted)

(* What a step does to the files.                                          *)
PromiseStep ==
  /\ \A a \in Accounts, m \in Messages : Evolves(inbox[a][m], inbox'[a][m])
  /\ \A a \in Accounts : /\ cursor[a].pos <= cursor'[a].pos
                         /\ cursor[a].of = a => cursor'[a].of = a

(* A message names its account and its number.                             *)
LEMMA MessageFacts ==
  ASSUME NEW m \in Messages
  PROVE  m[1] \in Accounts /\ m[2] \in 1..MaxSeq /\ m = <<m[1], m[2]>>
BY DEF Messages

(* Cursors and the provider's counts are within the bound.                 *)
LEMMA Positions ==
  ASSUME AccountInv, NEW a \in Accounts
  PROVE  /\ cursor[a] \in Cursor /\ cursor[a].pos \in 0..MaxSeq /\ posted[a] \in 0..MaxSeq
         /\ rt.next \in Cursor /\ rt.next.pos \in 0..MaxSeq
BY DEF AccountInv, Shapes, Cursor, Runner

(* The thread holds no cursor, or the same as before.                      *)
Quiet(q, p) ==
  \/ p.op \notin {"waiting", "persist", "commit"}
  \/ p.op = q.op /\ p.next = q.next /\ p.batch = q.batch

(* An operation follows another for the account in memory.                 *)
LEMMA ServingNext ==
  ASSUME PromiseInv, rt.op # "head", rt'.ph = "discover", mem' = mem
  PROVE  Serving(rt', mem')
BY DEF PromiseInv, Serving

(* Steps that leave the cursor alone and lose no message keep the promise. *)
LEMMA QuietStep ==
  ASSUME PromiseInv, AccountInv', unbinder' = Idle, Serving(rt', mem'), Quiet(rt, rt'),
         cursor' = cursor,
         \A a \in Accounts, m \in Messages : Evolves(inbox[a][m], inbox'[a][m]),
         \A a \in Accounts : posted[a] <= posted'[a], Blank(inbox')
  PROVE  PromiseInv' /\ PromiseStep
<1>1. \A m \in Messages : m[1] \in Accounts  BY MessageFacts
<1>2. \A m \in Messages : inbox[m[1]][m].status # "none" => inbox'[m[1]][m].status # "none"
  BY <1>1 DEF Evolves, Held, Settled
<1>3. \A a \in Accounts : cursor[a].pos \in Int /\ posted[a] \in Int /\ posted'[a] \in Int
                          /\ rt.next.pos \in Int
  BY Positions DEF PromiseInv, AccountInv, Shapes
<1>4. Passed(inbox', cursor', posted')
  BY <1>1, <1>2, <1>3 DEF PromiseInv, Passed
<1>5. Fetching(rt', inbox', cursor', posted')
  <2>1. CASE rt'.op \notin {"waiting", "persist", "commit"}  BY <2>1 DEF Fetching
  <2>2. CASE rt'.op = rt.op /\ rt'.next = rt.next /\ rt'.batch = rt.batch
    BY <1>1, <1>2, <1>3, <2>2 DEF PromiseInv, Fetching
  <2>3. QED BY <2>1, <2>2 DEF Quiet
<1>6. PromiseStep  BY <1>3 DEF PromiseStep
<1>7. QED BY <1>4, <1>5, <1>6 DEF PromiseInv

(* Steps that write no file.                                               *)
LEMMA NoFileStep ==
  ASSUME PromiseInv, AccountInv', unbinder' = Idle, Serving(rt', mem'), Quiet(rt, rt'),
         UNCHANGED files,
         \A a \in Accounts : posted[a] <= posted'[a]
  PROVE  PromiseInv' /\ PromiseStep
<1>1. inbox' = inbox /\ cursor' = cursor  BY DEF files
<1>2. \A a \in Accounts, m \in Messages : Evolves(inbox[a][m], inbox'[a][m])
  BY <1>1 DEF Evolves
<1>3. Blank(inbox')  BY <1>1 DEF PromiseInv
<1>4. QED BY <1>1, <1>2, <1>3, QuietStep

(* A step in which the provider gets no message.                           *)
LEMMA SamePosted ==
  ASSUME PromiseInv, posted' = posted
  PROVE  \A a \in Accounts : posted[a] <= posted'[a]
BY Positions DEF PromiseInv

(* Steps that write one item.                                              *)
LEMMA OneItemStep ==
  ASSUME PromiseInv, AccountInv', unbinder' = Idle, Serving(rt', mem'), Quiet(rt, rt'),
         cursor' = cursor, posted' = posted,
         NEW a \in Accounts, NEW m \in Messages, NEW it \in Item,
         inbox' = [inbox EXCEPT ![a][m] = it], Evolves(inbox[a][m], it),
         it.status = "none" => it = NoItem
  PROVE  PromiseInv' /\ PromiseStep
<1>1. AccountInv  BY DEF PromiseInv
<1>2. inbox'[a][m] = it
      /\ \A x \in Accounts, y \in Messages : ~(x = a /\ y = m) => inbox'[x][y] = inbox[x][y]
  <2>1. inbox \in [Accounts -> Box]  BY <1>1 DEF AccountInv, Shapes
  <2>2. inbox[a] \in Box /\ inbox' = [inbox EXCEPT ![a] = [inbox[a] EXCEPT ![m] = it]]  BY <2>1
  <2> DEFINE b == [inbox[a] EXCEPT ![m] = it]
  <2>3. b[m] = it /\ \A y \in Messages : y # m => b[y] = inbox[a][y]  BY <2>2 DEF Box
  <2> HIDE DEF b
  <2>4. inbox'[a] = b /\ \A x \in Accounts : x # a => inbox'[x] = inbox[x]
    BY <2>1, <2>2 DEF b
  <2>5. QED BY <2>3, <2>4
<1>3. ASSUME NEW x \in Accounts, NEW y \in Messages
      PROVE  /\ Evolves(inbox[x][y], inbox'[x][y])
             /\ inbox'[x][y].status = "none" => inbox'[x][y] = NoItem
  <2>1. CASE x = a /\ y = m  BY <1>2, <2>1
  <2>2. CASE ~(x = a /\ y = m)
    <3>1. inbox'[x][y] = inbox[x][y]  BY <1>2, <2>2
    <3>2. QED BY <3>1 DEF Evolves, PromiseInv, Blank
  <2>3. QED BY <2>1, <2>2
<1>4. Blank(inbox')  BY <1>3 DEF Blank
<1>5. QED BY <1>3, <1>4, QuietStep, SamePosted

(* A poll takes the cursor as it is saved.                                 *)
LEMMA PollUpdatesKeeps ==
  ASSUME PromiseInv, \A x, y \in Accounts : x = y, PollUpdates
  PROVE  PromiseInv' /\ PromiseStep
<1>1. AccountInv /\ AccountInv' /\ rt \in Runner /\ unbinder' = Idle /\ posted' = posted
      /\ inbox' = inbox /\ cursor' = cursor /\ mem' = mem
  BY PollUpdatesInv DEF PromiseInv, AccountInv, Shapes, PollUpdates, files
<1>2. IsConfigured(rt.login) /\ rt.op = "poll" /\ rt.ph = "act"
  BY DEF PromiseInv, Serving, PollUpdates, Acts
<1>3. rt' = [rt EXCEPT !.op = "waiting", !.next = cursor[rt.login.acc]]
  BY <1>2 DEF PollUpdates
<1>4. rt'.op = "waiting" /\ rt'.next = cursor[rt.login.acc] /\ rt'.ph = rt.ph
      /\ rt'.login = rt.login
  BY <1>1, <1>3 DEF Runner
<1>5. rt.login.acc \in Accounts  BY <1>1, <1>2, LoginFacts DEF Runner, IsConfigured
<1>6. Fetching(rt', inbox', cursor', posted')  BY <1>1, <1>4, <1>5 DEF Fetching
<1>7. \A a \in Accounts : cursor[a].pos <= cursor'[a].pos  BY <1>1, Positions
<1>8. PromiseStep  BY <1>1, <1>7 DEF PromiseStep, Evolves
<1>9. Serving(rt', mem')  BY <1>1, <1>2, <1>4 DEF PromiseInv, Serving
<1>10. QED BY <1>1, <1>6, <1>8, <1>9 DEF PromiseInv

(* The answer holds every message between the saved cursor and the new     *)
(* one.                                                                    *)
LEMMA PollReturnsKeeps ==
  ASSUME PromiseInv, \A x, y \in Accounts : x = y, PollReturns
  PROVE  PromiseInv' /\ PromiseStep
<1> DEFINE a == rt.login.acc
           got == {<<a, i>> : i \in (rt.next.pos + 1)..posted[a]}
           next == [of |-> a, pos |-> posted[a]]
           q == Begin("persist")
<1>1. AccountInv /\ AccountInv' /\ rt \in Runner /\ InHand(rt) /\ unbinder' = Idle
      /\ posted' = posted /\ inbox' = inbox /\ cursor' = cursor /\ mem' = mem
  BY PollReturnsInv DEF PromiseInv, AccountInv, Shapes, PollReturns, files
<1>2. rt.op = "waiting" /\ rt' = [q EXCEPT !.batch = got, !.next = next]  BY DEF PollReturns
<1>3. a \in Accounts  BY <1>1, <1>2, LoginFacts DEF InHand, Runner
<1>4. rt.next = cursor[a] /\ cursor[a].pos <= posted[a]
  BY <1>2, <1>3 DEF PromiseInv, Fetching, Passed
<1>5. cursor[a].pos \in Int /\ posted[a] \in Int  BY <1>1, <1>3, Positions
<1>6. q \in Runner /\ q.op = "persist" /\ q.ph = "discover"
    BY <1>1, BeginFacts DEF Begun, Operations
<1>7. next.of = a /\ next.pos = posted[a]  OBVIOUS
<1> HIDE DEF q, next
<1>8. rt'.op = "persist" /\ rt'.batch = got /\ rt'.next = next /\ rt'.ph = "discover"
  <2> HIDE DEF got
  <2>1. QED BY <1>2, <1>6 DEF Runner
<1>9. ASSUME NEW m \in Messages, m[2] <= posted[a]
      PROVE  m \in got \/ inbox[m[1]][m].status # "none"
  <2>1. m[1] = a /\ m[2] \in 1..MaxSeq /\ m = <<m[1], m[2]>>  BY <1>3, MessageFacts
  <2>2. CASE m[2] <= cursor[a].pos  BY <2>1, <2>2 DEF PromiseInv, Passed
  <2>3. CASE ~(m[2] <= cursor[a].pos)
    <3>1. m[2] \in (rt.next.pos + 1)..posted[a]  BY <1>4, <1>5, <1>9, <2>1, <2>3
    <3>2. m = <<a, m[2]>>  BY <2>1
    <3>3. QED BY <3>1, <3>2
  <2>4. QED BY <2>2, <2>3
<1>10. Fetching(rt', inbox', cursor', posted')
  <2> HIDE DEF got, a
  <2>1. \A x \in Accounts : x = a  BY <1>3
  <2>2. QED BY <1>1, <1>4, <1>5, <1>7, <1>8, <1>9, <2>1 DEF Fetching
<1>11. \A x \in Accounts : cursor[x].pos <= cursor'[x].pos  BY <1>1, Positions
<1>12. PromiseStep  BY <1>1, <1>11 DEF PromiseStep, Evolves
<1>13. Serving(rt', mem')  BY <1>1, <1>2, <1>8, ServingNext
<1>14. QED BY <1>1, <1>10, <1>12, <1>13 DEF PromiseInv

(* Storing the batch puts everything the new cursor passes over in the     *)
(* inbox.                                                                  *)
LEMMA PersistKeeps ==
  ASSUME PromiseInv, \A x, y \in Accounts : x = y, PersistInboundBatch
  PROVE  PromiseInv' /\ PromiseStep
<1>1. AccountInv /\ AccountInv' /\ rt \in Runner /\ unbinder' = Idle /\ posted' = posted
      /\ cursor' = cursor /\ inbox \in [Accounts -> Box] /\ rt.op = "persist" /\ mem' = mem
  BY PersistInv DEF PromiseInv, AccountInv, Shapes, PersistInboundBatch, Acts
<1>2. CASE Current(rt.login)
  <2> DEFINE a == rt.login.acc
             b == Stored(inbox[a], rt.batch)
             q == Begin("commit")
  <2>1. a \in Accounts  BY <1>1, <1>2, CurrentFacts
  <2>2. inbox' = [inbox EXCEPT ![a] = b] /\ rt' = [q EXCEPT !.batch = {}]
    BY <1>1, <1>2 DEF PersistInboundBatch
  <2>3. ASSUME NEW m \in Messages
        PROVE  /\ Evolves(inbox[a][m], b[m]) /\ (b[m].status = "none" => b[m] = NoItem)
               /\ m \in rt.batch => b[m].status # "none"
    <3>1. [NoItem EXCEPT !.status = "pending"].status = "pending"  BY DEF NoItem
    <3>2. NoItem.status = "none"  BY DEF NoItem
    <3>3. b[m] = IF m \in rt.batch /\ inbox[a][m] = NoItem
                 THEN [NoItem EXCEPT !.status = "pending"] ELSE inbox[a][m]
      BY DEF Stored
    <3>4. inbox[a][m].status = "none" => inbox[a][m] = NoItem
      BY <2>1 DEF PromiseInv, Blank
    <3>5. QED BY <3>1, <3>2, <3>3, <3>4 DEF Evolves, Held
  <2>4. q \in Runner /\ q.op = "commit" /\ q.ph = "discover" /\ q.next = rt.next
    BY <1>1, BeginFacts DEF Begun, Operations
  <2> HIDE DEF q, b, a
  <2>5. rt'.op = "commit" /\ rt'.ph = "discover" /\ rt'.next = rt.next  BY <2>2, <2>4 DEF Runner
  <2>6. inbox'[a] = b /\ \A x \in Accounts : x = a  BY <1>1, <2>1, <2>2
  <2>7. \A x \in Accounts, m \in Messages : Evolves(inbox[x][m], inbox'[x][m])
    BY <2>3, <2>6
  <2>8. Blank(inbox')  BY <2>3, <2>6 DEF Blank
  <2>9. ASSUME NEW m \in Messages
        PROVE  /\ inbox[m[1]][m].status # "none" => inbox'[m[1]][m].status # "none"
               /\ m \in rt.batch => inbox'[m[1]][m].status # "none"
    <3>1. m[1] = a  BY <2>6, MessageFacts
    <3>2. QED BY <2>3, <2>6, <3>1 DEF Evolves, Held, Settled
  <2>10. Fetching(rt', inbox', cursor', posted')
    BY <1>1, <2>5, <2>9 DEF PromiseInv, Fetching
  <2>11. Passed(inbox', cursor', posted')  BY <1>1, <2>9 DEF PromiseInv, Passed
  <2>12. \A x \in Accounts : cursor[x].pos <= cursor'[x].pos  BY <1>1, Positions
  <2>13. PromiseStep  BY <1>1, <2>7, <2>12 DEF PromiseStep
  <2>14. Serving(rt', mem')  BY <1>1, <2>5, ServingNext
  <2>15. QED BY <1>1, <2>8, <2>10, <2>11, <2>13, <2>14 DEF PromiseInv
<1>3. CASE ~Current(rt.login)
  <2> DEFINE q == Begin("head")
  <2>1. inbox' = inbox /\ rt' = [q EXCEPT !.batch = {}, !.next = NoCursor]
    BY <1>3 DEF PersistInboundBatch
  <2>2. q \in Runner /\ q.op = "head" /\ q.ph = "discover"
    BY <1>1, BeginFacts DEF Begun, Operations
  <2> HIDE DEF q
  <2>3. rt'.op = "head" /\ rt'.ph = "discover"  BY <2>1, <2>2 DEF Runner
  <2>4. Quiet(rt, rt') /\ Serving(rt', mem')  BY <2>3 DEF Quiet, Serving
  <2>5. QED BY <1>1, <2>1, <2>4, NoFileStep, SamePosted DEF files
<1>4. QED BY <1>2, <1>3

(* The cursor moves forward over messages that are stored.                 *)
LEMMA CommitKeeps ==
  ASSUME PromiseInv, \A x, y \in Accounts : x = y, CommitPollCursor
  PROVE  PromiseInv' /\ PromiseStep
<1> DEFINE again == Current(rt.login)
           op == IF again THEN "drain" ELSE "head"
           q == Begin(op)
<1>1. AccountInv /\ AccountInv' /\ rt \in Runner /\ unbinder' = Idle /\ posted' = posted
      /\ inbox' = inbox /\ cursor \in [Accounts -> Cursor] /\ rt.op = "commit"
      /\ mem' = mem /\ rt' = [q EXCEPT !.next = NoCursor, !.again = again]
  BY CommitInv DEF PromiseInv, AccountInv, Shapes, CommitPollCursor, Acts
<1>2. op \in Operations /\ op \in {"drain", "head"}  BY DEF Operations
<1> HIDE DEF op
<1>3. q \in Runner /\ q.op = op /\ q.ph = "discover"  BY <1>1, <1>2, BeginFacts DEF Begun
<1> HIDE DEF q, again
<1>4. /\ rt'.op \in {"drain", "head"} /\ rt'.ph = "discover" /\ Quiet(rt, rt')
      /\ Serving(rt', mem') /\ Fetching(rt', inbox', cursor', posted')
  <2>1. rt'.op = op /\ rt'.ph = "discover"  BY <1>1, <1>3 DEF Runner
  <2>2. QED BY <1>1, <1>2, <2>1, ServingNext DEF Quiet, Fetching
<1>5. CASE Current(rt.login)
  <2> DEFINE a == rt.login.acc
  <2>1. a \in Accounts /\ \A x \in Accounts : x = a  BY <1>1, <1>5, CurrentFacts
  <2>2. cursor' = [cursor EXCEPT ![a] = rt.next]  BY <1>5 DEF CommitPollCursor
  <2> HIDE DEF a
  <2>3. cursor'[a] = rt.next  BY <1>1, <2>1, <2>2
  <2>4. rt.next.of = a /\ cursor[a].pos <= rt.next.pos /\ rt.next.pos <= posted[a]
        /\ \A m \in Messages : m[2] <= rt.next.pos => inbox[m[1]][m].status # "none"
    BY <1>1, <2>1 DEF PromiseInv, Fetching
  <2>5. Passed(inbox', cursor', posted')
    BY <1>1, <2>1, <2>3, <2>4, MessageFacts DEF Passed
  <2>6. \A x \in Accounts : cursor[x].pos <= cursor'[x].pos /\ cursor'[x].of = x
    BY <2>1, <2>3, <2>4
  <2>7. PromiseStep  BY <1>1, <2>6 DEF PromiseStep, Evolves
  <2>8. QED BY <1>1, <1>4, <2>5, <2>7 DEF PromiseInv
<1>6. CASE ~Current(rt.login)
  <2>1. cursor' = cursor  BY <1>6 DEF CommitPollCursor
  <2>2. QED BY <1>1, <1>4, <2>1, NoFileStep, SamePosted DEF files
<1>7. QED BY <1>5, <1>6

(* The other steps of the thread write no file, or one item.               *)
LEMMA DiscoverKeeps == ASSUME PromiseInv, Discover PROVE PromiseInv' /\ PromiseStep
<1>1. AccountInv /\ AccountInv' /\ rt \in Runner /\ unbinder' = Idle /\ posted' = posted
      /\ UNCHANGED files
  BY DiscoverInv DEF PromiseInv, AccountInv, Shapes, Discover
<1> DEFINE d == Discovered
<1>2. rt' = [rt EXCEPT !.ph = "adopt", !.found = d]  BY DEF Discover
<1> HIDE DEF d
<1>3. Quiet(rt, rt') /\ rt'.op = rt.op /\ rt'.ph = "adopt"  BY <1>1, <1>2 DEF Runner, Quiet
<1>4. Serving(rt', mem')  BY <1>3 DEF PromiseInv, Serving, Discover
<1>5. QED BY <1>1, <1>3, <1>4, NoFileStep, SamePosted

(* What the thread adopts in place of an account with a token has one too. *)
LEMMA AdoptKeeps == ASSUME PromiseInv, Adopt PROVE PromiseInv' /\ PromiseStep
<1>1. AccountInv /\ AccountInv' /\ rt \in Runner /\ unbinder' = Idle /\ posted' = posted
      /\ UNCHANGED files
  BY AdoptInv DEF PromiseInv, AccountInv, Shapes, Adopt
<1> DEFINE d == Adopted(rt.found)
<1>2. rt' = [rt EXCEPT !.ph = "act", !.login = d] /\ mem' = d  BY DEF Adopt
<1>3. d = mem \/ IsConfigured(d)
  <2>1. rt.found \in Known  BY <1>1 DEF Runner
  <2>2. QED BY <1>1, <2>1, AdoptedFacts DEF AccountInv, IsConfigured
<1> HIDE DEF d
<1>4. Quiet(rt, rt') /\ rt'.op = rt.op /\ rt'.login = d  BY <1>1, <1>2 DEF Runner, Quiet
<1>5. Serving(rt', mem')  BY <1>2, <1>3, <1>4 DEF PromiseInv, Serving
<1>6. QED BY <1>1, <1>4, <1>5, NoFileStep, SamePosted

(* The loop goes on for an account with a token.                           *)
LEMMA LoopHeadKeeps == ASSUME PromiseInv, LoopHead PROVE PromiseInv' /\ PromiseStep
<1> DEFINE op == IF IsConfigured(rt.login) THEN "drain" ELSE "head"
<1>1. AccountInv' /\ rt \in Runner /\ unbinder' = Idle /\ posted' = posted /\ mem' = mem
      /\ UNCHANGED files /\ rt' = Begin(op) /\ rt.ph = "act"
  BY LoopHeadInv DEF PromiseInv, AccountInv, Shapes, LoopHead, Acts
<1>2. op \in Operations /\ op \in {"drain", "head"} /\ (op = "drain" => IsConfigured(mem))
  BY <1>1 DEF Operations, PromiseInv, Serving
<1> HIDE DEF op
<1>3. rt'.op = op /\ rt'.ph = "discover"  BY <1>1, <1>2, BeginFacts DEF Begun
<1>4. Quiet(rt, rt') /\ Serving(rt', mem')  BY <1>1, <1>2, <1>3 DEF Quiet, Serving
<1>5. QED BY <1>1, <1>4, NoFileStep, SamePosted

(* A failed poll drops the cursor it took.                                 *)
LEMMA PollFailsKeeps == ASSUME PromiseInv, PollFails PROVE PromiseInv' /\ PromiseStep
<1> DEFINE q == Begin("head")
<1>1. AccountInv /\ AccountInv' /\ rt \in Runner /\ unbinder' = Idle /\ posted' = posted
      /\ UNCHANGED files /\ rt' = [q EXCEPT !.next = NoCursor]
  BY PollFailsInv DEF PromiseInv, AccountInv, Shapes, PollFails
<1>2. q \in Runner /\ q.op = "head" /\ q.ph = "discover"
    BY <1>1, BeginFacts DEF Begun, Operations
<1> HIDE DEF q
<1>3. rt'.op = "head" /\ rt'.ph = "discover"  BY <1>1, <1>2 DEF Runner
<1>4. Quiet(rt, rt') /\ Serving(rt', mem')  BY <1>3 DEF Quiet, Serving
<1>5. QED BY <1>1, <1>4, NoFileStep, SamePosted

(* A turn writes no file.                                                  *)
LEMMA HandleKeeps == ASSUME PromiseInv, HandleInbound PROVE PromiseInv' /\ PromiseStep
<1> DEFINE q == Begin("finish")
<1>1. AccountInv /\ AccountInv' /\ rt \in Runner /\ unbinder' = Idle /\ posted' = posted
      /\ UNCHANGED files /\ mem' = mem /\ rt.op = "handling"
  BY HandleInboundInv DEF PromiseInv, AccountInv, Shapes, HandleInbound
<1>2. PICK outcome : rt' = [q EXCEPT !.outcome = outcome]  BY DEF HandleInbound
<1>3. q \in Runner /\ q.op = "finish" /\ q.ph = "discover"
    BY <1>1, BeginFacts DEF Begun, Operations
<1> HIDE DEF q
<1>4. rt'.op = "finish" /\ rt'.ph = "discover"  BY <1>2, <1>3 DEF Runner
<1>5. Quiet(rt, rt') /\ Serving(rt', mem')  BY <1>1, <1>4, ServingNext DEF Quiet
<1>6. QED BY <1>1, <1>5, NoFileStep, SamePosted

(* A claim is made of a message that is held.                              *)
LEMMA ClaimKeeps == ASSUME PromiseInv, ClaimInbound PROVE PromiseInv' /\ PromiseStep
<1> DEFINE a == rt.login.acc
           free == {m \in Messages : Current(rt.login) /\ Claimable(inbox[a][m])}
<1>1. AccountInv /\ AccountInv' /\ rt \in Runner /\ unbinder' = Idle /\ posted' = posted
      /\ cursor' = cursor /\ inbox \in [Accounts -> Box] /\ mem' = mem
      /\ rt.op = "drain" /\ rt.ph = "act"
  BY ClaimInv DEF PromiseInv, AccountInv, Shapes, ClaimInbound, Acts
<1>2. CASE rt' = AfterDrain /\ UNCHANGED inbox
  <2>1. rt'.op \in {"head", "poll"} /\ rt'.ph = "discover"  BY <1>1, <1>2, AfterDrainFacts
  <2>2. Quiet(rt, rt') /\ Serving(rt', mem')  BY <1>1, <2>1, ServingNext DEF Quiet
  <2>3. QED BY <1>1, <1>2, <2>2, NoFileStep, SamePosted DEF files
<1>3. ASSUME NEW m \in free, inbox' = [inbox EXCEPT ![a][m] = Claimed(@)],
             rt' = [rt EXCEPT !.op = "handling", !.m = m, !.token = inbox[a][m].attempts + 1]
      PROVE  PromiseInv' /\ PromiseStep
  <2>1. m \in Messages /\ a \in Accounts  BY <1>1, <1>3, CurrentFacts
  <2>2. inbox[a][m] \in Item /\ Claimable(inbox[a][m])  BY <1>1, <1>3, <2>1 DEF Box
  <2> DEFINE it == Claimed(inbox[a][m])
  <2>3. inbox' = [inbox EXCEPT ![a][m] = it]  BY <1>1, <1>3, <2>1 DEF Box
  <2>4. it \in Item /\ it.status = "processing"  BY <2>2 DEF Claimed, Item
  <2>5. Evolves(inbox[a][m], it)  BY <2>2, <2>4 DEF Evolves, Claimable, Held
  <2> DEFINE t == inbox[a][m].attempts + 1
  <2>6. rt' = [rt EXCEPT !.op = "handling", !.m = m, !.token = t]  BY <1>3
  <2> HIDE DEF it, t
  <2>7. rt'.op = "handling" /\ rt'.ph = rt.ph /\ rt'.login = rt.login
    BY <1>1, <2>6 DEF Runner
  <2>8. Quiet(rt, rt') /\ Serving(rt', mem')  BY <1>1, <2>7 DEF Quiet, PromiseInv, Serving
  <2>9. it.status = "none" => it = NoItem  BY <2>4
  <2> HIDE DEF a
  <2>10. QED BY <1>1, <2>1, <2>3, <2>4, <2>5, <2>8, <2>9, OneItemStep
<1>4. QED BY <1>2, <1>3 DEF ClaimInbound

(* A claim of the thread's own ends with one of the three outcomes.        *)
LEMMA FinishKeeps == ASSUME PromiseInv, FinishInbound PROVE PromiseInv' /\ PromiseStep
<1> DEFINE a == rt.login.acc
           own == Current(rt.login) /\ OwnClaim(inbox[a][rt.m])
           q == Begin("drain")
<1>1. AccountInv /\ AccountInv' /\ rt \in Runner /\ InHand(rt) /\ unbinder' = Idle
      /\ posted' = posted /\ cursor' = cursor /\ mem' = mem /\ inbox \in [Accounts -> Box]
  BY FinishInv DEF PromiseInv, AccountInv, Shapes, FinishInbound
<1>2. rt.op = "finish" /\ rt.m \in Messages /\ rt.outcome \in Outcomes /\ rt.outcome # "none"
  BY <1>1 DEF FinishInbound, Acts, InHand, Runner
<1>3. rt'.op \in {"head", "drain", "poll"} /\ rt'.ph = "discover"
  <2>1. rt' = AfterDrain \/ rt' = [q EXCEPT !.m = None, !.token = 0, !.outcome = "none"]
    BY DEF FinishInbound
  <2>2. q \in Runner /\ q.op = "drain" /\ q.ph = "discover"
    BY <1>1, BeginFacts DEF Begun, Operations
  <2> HIDE DEF q
  <2>3. QED BY <1>1, <2>1, <2>2, AfterDrainFacts DEF Runner
<1>4. Quiet(rt, rt') /\ Serving(rt', mem')  BY <1>1, <1>2, <1>3, ServingNext DEF Quiet
<1>5. CASE own
  <2>1. a \in Accounts  BY <1>1, <1>2, <1>5, CurrentFacts
  <2> DEFINE m == rt.m
             it == Finished(inbox[a][m])
  <2>2. inbox[a][m] \in Item /\ inbox[a][m].status = "processing" /\ m \in Messages
    BY <1>1, <1>2, <1>5, <2>1 DEF Box, OwnClaim
  <2>3. inbox' = [inbox EXCEPT ![a][m] = it]  BY <1>1, <1>5, <2>1, <2>2 DEF FinishInbound, Box
  <2>4. it \in Item /\ it.status = rt.outcome  BY <1>2, <2>2 DEF Finished, Item, Outcomes
  <2>5. Evolves(inbox[a][m], it)
    BY <1>2, <2>2, <2>4 DEF Evolves, Outcomes, Held, Settled
  <2>6. it.status = "none" => it = NoItem  BY <1>2, <2>4
  <2> HIDE DEF it, m, a
  <2>7. QED BY <1>1, <1>4, <2>1, <2>2, <2>3, <2>4, <2>5, <2>6, OneItemStep
<1>6. CASE ~own
  <2>1. inbox' = inbox  BY <1>6 DEF FinishInbound
  <2>2. QED BY <1>1, <1>4, <2>1, NoFileStep, SamePosted DEF files
<1>7. QED BY <1>5, <1>6

(* A message whose lease lapses keeps its status.                          *)
LEMMA LeaseLapsesKeeps ==
  ASSUME PromiseInv, NEW a \in Accounts, NEW m \in Messages, LeaseLapses(a, m)
  PROVE  PromiseInv' /\ PromiseStep
<1>1. AccountInv /\ AccountInv' /\ rt' = rt /\ unbinder' = Idle
      /\ posted' = posted /\ cursor' = cursor /\ inbox \in [Accounts -> Box]
  BY LeaseLapsesInv DEF PromiseInv, AccountInv, Shapes, LeaseLapses
<1> DEFINE it == [inbox[a][m] EXCEPT !.leased = FALSE]
<1>2. inbox[a][m].leased /\ inbox[a][m] \in Item  BY <1>1 DEF LeaseLapses, Box
<1>3. Serving(rt', mem')  BY DEF PromiseInv, LeaseLapses
<1>4. inbox' = [inbox EXCEPT ![a][m] = it]  BY <1>1 DEF LeaseLapses, Box
<1>5. it \in Item /\ it.status = inbox[a][m].status  BY <1>2 DEF Item
<1>6. inbox[a][m].status # "none"  BY <1>2 DEF PromiseInv, Blank, NoItem
<1>7. Evolves(inbox[a][m], it) /\ (it.status = "none" => it = NoItem)
  BY <1>5, <1>6 DEF Evolves
<1>8. Quiet(rt, rt')  BY <1>1 DEF Quiet
<1> HIDE DEF it
<1>9. QED BY <1>1, <1>3, <1>4, <1>5, <1>7, <1>8, OneItemStep

(* The setup pages touch neither inbox nor cursor unless they unbind.      *)
LEMMA SaveFileKeeps ==
  ASSUME PromiseInv, NEW a \in Accounts, SaveAccountFile(a)
  PROVE  PromiseInv' /\ PromiseStep
<1>1. AccountInv'  BY SaveFileInv DEF PromiseInv
<1>2. unbinder' = Idle /\ posted' = posted /\ UNCHANGED files /\ Quiet(rt, rt')
      /\ Serving(rt', mem')
  BY DEF PromiseInv, SaveAccountFile, Quiet
<1>3. QED BY <1>1, <1>2, NoFileStep, SamePosted

(* Nor does the end of a login.                                            *)
LEMMA SaveStateKeeps == ASSUME PromiseInv, SaveAccountState PROVE PromiseInv' /\ PromiseStep
<1>1. AccountInv'  BY SaveStateInv DEF PromiseInv
<1>2. unbinder' = Idle /\ posted' = posted /\ UNCHANGED files /\ Quiet(rt, rt')
  BY DEF PromiseInv, SaveAccountState, Quiet
<1>3. IsConfigured(mem')
  <2>1. saver # Idle /\ saver \in Saver
    BY DEF PromiseInv, AccountInv, Shapes, SaveAccountState, Idle
  <2>2. saver.login \in [acc: Accounts, n: 1..MaxLogins]  BY <2>1 DEF Saver
  <2>3. QED BY <2>2, Bounds DEF SaveAccountState, IsConfigured
<1>4. Serving(rt', mem')  BY <1>3 DEF PromiseInv, Serving, SaveAccountState
<1>5. QED BY <1>1, <1>2, <1>4, NoFileStep, SamePosted

(* A restart forgets a cursor that was fetched and not saved.              *)
LEMMA RestartKeeps == ASSUME PromiseInv, Restart PROVE PromiseInv' /\ PromiseStep
<1>1. AccountInv'  BY RestartInv DEF PromiseInv
<1>2. unbinder' = Idle /\ posted' = posted /\ UNCHANGED files /\ rt' = Start  BY DEF Restart
<1>3. Quiet(rt, rt') /\ Serving(rt', mem')  BY <1>2, StartFacts DEF Quiet, Serving
<1>4. QED BY <1>1, <1>2, <1>3, NoFileStep, SamePosted

(* New messages are beyond every cursor.                                   *)
LEMMA PostKeeps ==
  ASSUME PromiseInv, NEW a \in Accounts, Post(a)
  PROVE  PromiseInv' /\ PromiseStep
<1>1. AccountInv /\ AccountInv'  BY PostInv DEF PromiseInv
<1>2. unbinder' = Idle /\ UNCHANGED files /\ Quiet(rt, rt') /\ Serving(rt', mem')
      /\ posted' = [posted EXCEPT ![a] = posted[a] + 1]
  BY DEF PromiseInv, Post, Quiet
<1>3. posted \in [Accounts -> 0..MaxSeq]  BY <1>1 DEF AccountInv, Shapes
<1>4. \A x \in Accounts : posted[x] <= posted'[x]  BY <1>2, <1>3
<1>5. QED BY <1>1, <1>2, <1>4, NoFileStep

(* Every step keeps the invariant of the promise and loses no message.     *)
LEMMA PromiseNext ==
  ASSUME MayUnbind = FALSE, \A x, y \in Accounts : x = y, PromiseInv, [Next]_vars
  PROVE  PromiseInv' /\ PromiseStep
<1>1. CASE UNCHANGED vars
  <2>1. AccountInv'  BY <1>1, AccountInvNext DEF PromiseInv
  <2>2. unbinder' = Idle /\ posted' = posted /\ UNCHANGED files /\ Quiet(rt, rt')
      /\ Serving(rt', mem')
    BY <1>1 DEF PromiseInv, vars, files, Quiet
  <2>3. QED BY <2>1, <2>2, NoFileStep, SamePosted
<1>2. CASE Runtime
  BY <1>2, DiscoverKeeps, AdoptKeeps, LoopHeadKeeps, PollUpdatesKeeps, PollReturnsKeeps,
     PollFailsKeeps, PersistKeeps, CommitKeeps, ClaimKeeps, HandleKeeps, FinishKeeps, Zenon
  DEF Runtime
<1>3. CASE Setup
  <2>1. unbinder.pc = "idle"  BY DEF PromiseInv, Idle
  <2>2. ~UnbindAsks /\ ~UnbindAdopts /\ \A removed \in Removals : ~Unbind(removed)
    BY <2>1 DEF UnbindAsks, UnbindAdopts, Unbind
  <2>3. QED BY <1>3, <2>2, SaveFileKeeps, SaveStateKeeps, Zenon DEF Setup
<1>4. CASE Restart  BY <1>4, RestartKeeps
<1>5. ASSUME NEW a \in Accounts, Post(a) \/ \E m \in Messages : LeaseLapses(a, m)
      PROVE  PromiseInv' /\ PromiseStep
  BY <1>5, PostKeeps, LeaseLapsesKeeps, Zenon
<1>6. QED BY <1>1, <1>2, <1>3, <1>4, <1>5, Zenon DEF Next

(* At first nothing is stored and no cursor saved.                         *)
LEMMA PromiseInit == Init => PromiseInv
<1> SUFFICES ASSUME Init PROVE PromiseInv  OBVIOUS
<1>1. AccountInv /\ unbinder = Idle  BY AccountInvInit DEF Init
<1>2. \A a \in Accounts : cursor[a] = NoCursor /\ posted[a] = 0
      /\ \A m \in Messages : inbox[a][m] = NoItem
  BY DEF Init
<1>3. Blank(inbox)  BY <1>2 DEF Blank
<1>4. rt.op = "head" /\ rt.ph = "discover"  BY DEF Init, Start
<1>5. Fetching(rt, inbox, cursor, posted) /\ Serving(rt, mem)  BY <1>4 DEF Fetching, Serving
<1>6. Passed(inbox, cursor, posted)
  <2>1. NoCursor.pos = 0  BY DEF NoCursor
  <2>2. \A m \in Messages : ~(m[2] <= 0) /\ m[1] \in Accounts  BY MessageFacts, Bounds
  <2>3. QED BY <1>2, <2>1, <2>2 DEF Passed
<1>7. QED BY <1>1, <1>3, <1>5, <1>6 DEF PromiseInv

(* What the provider sees of a message, by its status.                     *)
Seen(status) ==
  CASE status = "none" -> "new"
    [] status \in Settled -> "settled"
    [] OTHER -> "held"

(* The refinement mapping, now and after a step.                           *)
LEMMA StateFacts ==
  /\ State = [m \in Messages |-> Seen(inbox[m[1]][m].status)]
  /\ State' = [m \in Messages |-> Seen(inbox'[m[1]][m].status)]
BY DEF State, Seen, Settled

(* A step that loses no message is a step of the promise.                  *)
LEMMA PromiseSteps ==
  ASSUME PromiseInv, PromiseInv', PromiseStep
  PROVE  Promise!Next
<1>1. \A m \in Messages : m[1] \in Accounts /\ m[2] \in Int  BY MessageFacts, Bounds
<1>2. Promise!Advance
  <2>1. State' \in [Messages -> {"new", "held", "settled"}]  BY StateFacts DEF Seen
  <2>2. ASSUME NEW m \in Messages, State'[m] # State[m]
        PROVE  <<State[m], State'[m]>> \in Promise!Order
    <3>1. Evolves(inbox[m[1]][m], inbox'[m[1]][m])  BY <1>1 DEF PromiseStep
    <3>2. State[m] = Seen(inbox[m[1]][m].status) /\ State'[m] = Seen(inbox'[m[1]][m].status)
      BY StateFacts
    <3>3. QED BY <2>2, <3>1, <3>2 DEF Evolves, Seen, Held, Settled, Promise!Order
  <2>3. QED BY <2>1, <2>2 DEF Promise!Advance
<1>3. Promise!Acknowledge
  <2>1. \A a \in Accounts : cursor[a].pos \in Int /\ cursor'[a].pos \in Int
    BY Positions DEF PromiseInv, AccountInv, Shapes, Cursor
  <2>2. Acked \subseteq Acked'
    BY <1>1, <2>1 DEF PromiseStep, Acked
  <2>3. Acked' \subseteq Messages  BY DEF Acked
  <2>4. ASSUME NEW m \in Acked' PROVE State'[m] # "new"
    <3>1. m \in Messages /\ m[2] <= cursor'[m[1]].pos  BY DEF Acked
    <3>2. inbox'[m[1]][m].status # "none"  BY <3>1 DEF PromiseInv, Passed
    <3>3. QED BY <3>1, <3>2, StateFacts DEF Seen, Settled
  <2>5. QED BY <2>2, <2>3, <2>4 DEF Promise!Acknowledge
<1>4. QED BY <1>2, <1>3 DEF Promise!Next

(* The inbox starts as the promise does.                                   *)
LEMMA PromiseStarts == Init => Promise!Init
<1> SUFFICES ASSUME Init PROVE Promise!Init  OBVIOUS
<1>1. \A m \in Messages : m[1] \in Accounts /\ inbox[m[1]][m] = NoItem
                          /\ cursor[m[1]] = NoCursor
  BY MessageFacts DEF Init
<1>2. NoItem.status = "none" /\ NoCursor.of = None  BY DEF NoItem, NoCursor
<1>3. State = [m \in Messages |-> "new"]
  <2>1. \A m \in Messages : Seen(inbox[m[1]][m].status) = "new"  BY <1>1, <1>2 DEF Seen, Settled
  <2>2. QED BY <2>1, StateFacts
<1>4. Acked = {}  BY <1>1, <1>2, Bounds DEF Acked
<1>5. QED BY <1>3, <1>4 DEF Promise!Init

(* For one account that nobody unbinds, whatever the restarts, logins,     *)
(* failures, lapsed leases and the environment: the inbox of weixin.rs implements           *)
(* InboxPromise.  A message is stored before the cursor passes over it,    *)
(* settled once, and never taken up again (commit_poll_cursor comes after  *)
(* persist_inbound_batch).                                                 *)
THEOREM InboxKeepsPromise ==
  ASSUME MayUnbind = FALSE, \A x, y \in Accounts : x = y
  PROVE  Spec => KeepsPromise
<1>1. Init => PromiseInv /\ Promise!Init  BY PromiseInit, PromiseStarts
<1>2. PromiseInv /\ [Next]_vars => PromiseInv'  BY PromiseNext
<1>3. PromiseInv /\ PromiseInv' /\ [Next]_vars => [Promise!Next]_(Promise!promise)
  BY PromiseNext, PromiseSteps
<1>4. QED BY <1>1, <1>2, <1>3, PTL DEF Spec, KeepsPromise, Promise!Spec
=============================================================================
