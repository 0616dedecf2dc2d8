---------------------------- MODULE WeixinInbox ----------------------------
(***************************************************************************)
(* The Weixin long poll, its durable inbox and the account it runs for     *)
(* (src/src/adapters/weixin.rs, run_weixin_poll_runtime in                 *)
(* src/src/runtime.rs).  The runtime thread drains the inbox, polls the    *)
(* provider from the saved cursor, stores the batch, saves the new cursor  *)
(* and drains again.  Meanwhile the setup pages log an account in          *)
(* (save_account) and out (unbind).                                        *)
(*                                                                         *)
(* The account is kept in memory and on disk.  Nearly every operation      *)
(* first calls account(), which looks for the account on disk and adopts   *)
(* what it found if it is still there; then it takes the inbox lock and    *)
(* goes on only if memory still holds that account.  The environment may   *)
(* name an account and a token (WEIXIN_ACCOUNT_ID, WEIXIN_BOT_TOKEN): a    *)
(* gateway that finds no file when it starts goes on with these, and a     *)
(* search that finds none tries that account.                              *)
(*                                                                         *)
(* A login is named by its number, which stands for the token and for the  *)
(* time of the file; 0 is no token, MaxLogins + 1 one that no login got.   *)
(* A claim token is fresh with every attempt; a lease is a Boolean.        *)
(***************************************************************************)
EXTENDS Naturals

CONSTANTS
  Accounts,    \* provider accounts
  None,        \* no account
  Configured,  \* config.account_id: the account the environment names, if any
  Token,       \* config.token, by its number
  MaxSeq,      \* bound of the model: messages an account receives
  MaxLogins,   \* bound of the model: logins, of whatever account
  MaxFailures, \* bound of the model: attempts at a message that may fail
  MaxRestarts, \* bound of the model: restarts of the gateway
  MayUnbind    \* whether the setup pages are asked to unbind

ASSUME WeixinAssumption ==
  /\ None \notin Accounts /\ Configured \in Accounts \cup {None}
  /\ Token \in 0..MaxLogins + 1
  /\ {MaxSeq, MaxLogins, MaxFailures, MaxRestarts} \subseteq Nat
  /\ MayUnbind \in BOOLEAN

VARIABLES
  disk,     \* the account files: the login saved in each, 0 for no file
  mem,      \* state.account
  inbox,    \* the inbox files
  cursor,   \* the sync files
  rt,       \* the runtime thread
  saver,    \* a setup request that logs in
  unbinder, \* a setup request that unbinds
  logins,   \* how many logins there have been
  restarts, \* how many restarts there have been
  posted    \* the messages the provider has for every account

vars == <<disk, mem, inbox, cursor, rt, saver, unbinder, logins, restarts, posted>>
files == <<inbox, cursor>>

Messages == Accounts \X (1..MaxSeq)
Login    == [acc: Accounts \cup {None}, n: 0..MaxLogins + 1]
NoLogin  == [acc |-> None, n |-> 0]
NoCursor == [of |-> None, pos |-> 0]
NoItem   == [status |-> "none", attempts |-> 0, leased |-> FALSE]
Idle     == [pc |-> "idle"]

(* The account that the environment describes; whether an account is       *)
(* configured (WeixinAccount::configured).                                 *)
Environment ==
  IF Configured = None THEN NoLogin ELSE [acc |-> Configured, n |-> Token]

IsConfigured(login) == login.acc # None /\ login.n # 0

-----------------------------------------------------------------------------
(* discover_weixin_account: the file of an account that is named, else the *)
(* one written last.                                                       *)
Saved(a) == [acc |-> a, n |-> disk[a]]

Newest ==
  LET have == {a \in Accounts : disk[a] # 0}
  IN  IF have = {} THEN NoLogin
      ELSE Saved(CHOOSE a \in have : \A b \in have : disk[b] <= disk[a])

Lookup(id) ==
  IF id = None THEN Newest ELSE IF disk[id] # 0 THEN Saved(id) ELSE NoLogin

(* refresh_account_from_disk: the account in memory is looked for, then    *)
(* the one of the environment.                                             *)
Discovered ==
  IF Lookup(mem.acc) # NoLogin THEN Lookup(mem.acc) ELSE Lookup(Configured)

(* Its second half: the account found is adopted under the state lock      *)
(* unless its file has changed since.                                      *)
AlwaysSaved(login) == TRUE              \* mutant: adopts what it saw before

StillSaved(login) == disk[login.acc] # 0 /\ disk[login.acc] = login.n

Adopted(found) ==
  IF found # NoLogin /\ StillSaved(found) THEN found ELSE mem

(* account_is_current, asked under the inbox lock.                         *)
Current(login) == login.acc # None /\ mem = login

InboxLockFree == unbinder.pc = "idle"

-----------------------------------------------------------------------------
(* The runtime thread.  rt.op is the operation it is in, rt.ph how far the *)
(* operation has got: looking for the account, adopting it, or acting for  *)
(* the login it adopted.                                                   *)
Operations ==
  {"head", "drain", "poll", "waiting", "persist", "commit", "handling", "finish"}

Start == [op |-> "head", ph |-> "discover", found |-> NoLogin, login |-> NoLogin,
          batch |-> {}, next |-> NoCursor, m |-> None, token |-> 0, again |-> FALSE,
          outcome |-> "none"]

Begin(op) == [rt EXCEPT !.op = op, !.ph = "discover", !.found = NoLogin,
                        !.login = NoLogin]

Discover ==
  /\ rt.ph = "discover"
  /\ rt' = [rt EXCEPT !.ph = "adopt", !.found = Discovered]
  /\ UNCHANGED <<disk, mem, files, saver, unbinder, logins, restarts, posted>>

Adopt ==
  /\ rt.ph = "adopt"
  /\ mem' = Adopted(rt.found)
  /\ rt' = [rt EXCEPT !.ph = "act", !.login = Adopted(rt.found)]
  /\ UNCHANGED <<disk, files, saver, unbinder, logins, restarts, posted>>

Acts(op) == rt.op = op /\ rt.ph = "act"

(* The head of the loop: nothing is done until an account is configured.   *)
LoopHead ==
  /\ Acts("head")
  /\ rt' = Begin(IF IsConfigured(rt.login) THEN "drain" ELSE "head")
  /\ UNCHANGED <<disk, mem, files, saver, unbinder, logins, restarts, posted>>

(* poll_updates: the cursor of the account is sent and the answer awaited. *)
(* The provider (external) answers with what it has beyond the cursor.  A  *)
(* cursor of another account gets no answer.  Without an account the poll  *)
(* ends at once, with an empty batch and an empty cursor.                  *)
PollUpdates ==
  /\ Acts("poll")
  /\ rt' = IF IsConfigured(rt.login)
           THEN [rt EXCEPT !.op = "waiting", !.next = cursor[rt.login.acc]]
           ELSE [Begin("persist") EXCEPT !.batch = {}, !.next = NoCursor]
  /\ UNCHANGED <<disk, mem, files, saver, unbinder, logins, restarts, posted>>

PollReturns ==
  LET a == rt.login.acc
      got == {<<a, i>> : i \in (rt.next.pos + 1)..posted[a]}
  IN  /\ rt.op = "waiting"
      /\ rt.next.of \in {None, a}
      /\ rt' = [Begin("persist") EXCEPT !.batch = got,
                  !.next = [of |-> a, pos |-> posted[a]]]
      /\ UNCHANGED <<disk, mem, files, saver, unbinder, logins, restarts, posted>>

PollFails ==
  /\ rt.op = "waiting"
  /\ rt' = [Begin("head") EXCEPT !.next = NoCursor]
  /\ UNCHANGED <<disk, mem, files, saver, unbinder, logins, restarts, posted>>

(* persist_inbound_batch: messages that are in the inbox already, whatever *)
(* became of them, are left alone.  (An id names one payload here, so the  *)
(* conflict of two fingerprints does not arise.)                           *)
StoredAfresh(box, batch) ==               \* mutant: replays start over
  [m \in Messages |-> IF m \in batch THEN [NoItem EXCEPT !.status = "pending"]
                      ELSE box[m]]

Stored(box, batch) ==
  [m \in Messages |-> IF m \in batch /\ box[m] = NoItem
                      THEN [NoItem EXCEPT !.status = "pending"] ELSE box[m]]

PersistInboundBatch ==
  /\ Acts("persist") /\ InboxLockFree
  /\ IF Current(rt.login)
     THEN /\ inbox' = [inbox EXCEPT ![rt.login.acc] = Stored(@, rt.batch)]
          /\ rt' = [Begin("commit") EXCEPT !.batch = {}]
     ELSE /\ UNCHANGED inbox
          /\ rt' = [Begin("head") EXCEPT !.batch = {}, !.next = NoCursor]
  /\ UNCHANGED <<disk, mem, cursor, saver, unbinder, logins, restarts, posted>>

CommitPollCursor ==
  /\ Acts("commit") /\ InboxLockFree
  /\ cursor' = IF Current(rt.login) THEN [cursor EXCEPT ![rt.login.acc] = rt.next]
               ELSE cursor
  /\ rt' = [Begin(IF Current(rt.login) THEN "drain" ELSE "head")
              EXCEPT !.next = NoCursor, !.again = Current(rt.login)]
  /\ UNCHANGED <<disk, mem, inbox, saver, unbinder, logins, restarts, posted>>

(* claim_inbound; the drain before a poll and the one after it differ in   *)
(* what follows only.  (A drain stops after 100 messages; the bound is far *)
(* beyond the model's and the next drain would go on.)                     *)
ClaimableFirst(it) ==                     \* mutant: forgets lapsed claims
  it.status \in {"pending", "failed"}

Claimable(it) ==
  it.status \in {"pending", "failed"} \/ (it.status = "processing" /\ ~it.leased)

Claimed(it) == [status |-> "processing", attempts |-> it.attempts + 1, leased |-> TRUE]

AfterDrain ==
  [Begin(IF rt.again THEN "head" ELSE "poll")
    EXCEPT !.again = FALSE, !.m = None, !.token = 0, !.outcome = "none"]

ClaimInbound ==
  LET a == rt.login.acc
      free == {m \in Messages : Current(rt.login) /\ Claimable(inbox[a][m])}
  IN  /\ Acts("drain") /\ InboxLockFree
      /\ \/ /\ free = {} /\ rt' = AfterDrain /\ UNCHANGED inbox
         \/ \E m \in free :
              /\ inbox' = [inbox EXCEPT ![a][m] = Claimed(@)]
              /\ rt' = [rt EXCEPT !.op = "handling", !.m = m,
                                  !.token = inbox[a][m].attempts + 1]
      /\ UNCHANGED <<disk, mem, cursor, saver, unbinder, logins, restarts, posted>>

(* handle_inbound: the turn, and what its error means for the message.     *)
HandleInbound ==
  /\ rt.op = "handling"
  /\ \E outcome \in {"succeeded", "failed", "terminal_failed"} :
       /\ outcome = "failed" => rt.token <= MaxFailures    \* bound of the model
       /\ rt' = [Begin("finish") EXCEPT !.outcome = outcome]
  /\ UNCHANGED <<disk, mem, files, saver, unbinder, logins, restarts, posted>>

(* finish_inbound, and what drain_weixin_inbox does then: a failure that   *)
(* is to be retried ends the drain.                                        *)
OwnClaim(it) == it.status = "processing" /\ it.attempts = rt.token

Finished(it) == [it EXCEPT !.status = rt.outcome, !.leased = FALSE]

FinishInbound ==
  LET a == rt.login.acc
      own == Current(rt.login) /\ OwnClaim(inbox[a][rt.m])
  IN  /\ Acts("finish") /\ InboxLockFree
      /\ inbox' = IF own THEN [inbox EXCEPT ![a][rt.m] = Finished(@)] ELSE inbox
      /\ rt' = IF rt.outcome = "failed" \/ (rt.outcome = "succeeded" /\ ~own)
               THEN AfterDrain
               ELSE [Begin("drain") EXCEPT !.m = None, !.token = 0, !.outcome = "none"]
      /\ UNCHANGED <<disk, mem, cursor, saver, unbinder, logins, restarts, posted>>

-----------------------------------------------------------------------------
(* save_account, with the lock of the account file: the file first, then   *)
(* memory.                                                                 *)
SaveAccountFile(a) ==
  /\ saver.pc = "idle" /\ logins < MaxLogins
  /\ logins' = logins + 1
  /\ disk' = [disk EXCEPT ![a] = logins + 1]
  /\ saver' = [pc |-> "saving", login |-> [acc |-> a, n |-> logins + 1]]
  /\ UNCHANGED <<mem, files, rt, unbinder, restarts, posted>>

SaveAccountState ==
  /\ saver.pc = "saving"
  /\ mem' = saver.login
  /\ saver' = Idle
  /\ UNCHANGED <<disk, files, rt, unbinder, logins, restarts, posted>>

(* unbind: takes the inbox lock and asks for the account; then, with the   *)
(* lock of the account file, clears everything if the account is still the *)
(* same.  A file that cannot be removed ends the clearing half way.        *)
UnbindAsks ==
  /\ MayUnbind /\ unbinder.pc = "idle"
  /\ unbinder' = [pc |-> "discovered", login |-> Discovered]
  /\ UNCHANGED <<disk, mem, files, rt, saver, logins, restarts, posted>>

UnbindAdopts ==
  /\ unbinder.pc = "discovered"
  /\ mem' = Adopted(unbinder.login)
  /\ unbinder' = [pc |-> "unbinding", login |-> Adopted(unbinder.login)]
  /\ UNCHANGED <<disk, files, rt, saver, logins, restarts, posted>>

SavesAccount(a) == saver.pc = "saving" /\ saver.login.acc = a

Unbind(removed) ==
  LET login == unbinder.login
      a == login.acc
  IN  /\ unbinder.pc = "unbinding"
      /\ unbinder' = Idle
      /\ IF a = None
         THEN /\ mem' = NoLogin /\ removed = {}
              /\ UNCHANGED <<disk, files>>
         ELSE /\ ~SavesAccount(a)
              /\ IF disk[a] # 0 /\ disk[a] = login.n /\ mem = login
                 THEN /\ cursor' = IF "sync" \in removed
                                   THEN [cursor EXCEPT ![a] = NoCursor] ELSE cursor
                      /\ inbox' = IF "inbox" \in removed
                                  THEN [inbox EXCEPT ![a] = [m \in Messages |-> NoItem]]
                                  ELSE inbox
                      /\ disk' = IF "account" \in removed
                                 THEN [disk EXCEPT ![a] = 0] ELSE disk
                      /\ mem' = IF "account" \in removed THEN NoLogin ELSE mem
                 ELSE removed = {} /\ UNCHANGED <<disk, mem, files>>
      /\ UNCHANGED <<rt, saver, logins, restarts, posted>>

(* clear_weixin_account_state removes the files in this order.             *)
Removals == {{}, {"sync"}, {"sync", "inbox"}, {"sync", "inbox", "account"}}

-----------------------------------------------------------------------------
Post(a) ==
  /\ posted[a] < MaxSeq
  /\ posted' = [posted EXCEPT ![a] = @ + 1]
  /\ UNCHANGED <<disk, mem, files, rt, saver, unbinder, logins, restarts>>

LeaseLapses(a, m) ==
  /\ inbox[a][m].leased
  /\ inbox' = [inbox EXCEPT ![a][m].leased = FALSE]
  /\ UNCHANGED <<disk, mem, cursor, rt, saver, unbinder, logins, restarts, posted>>

(* A restart loses memory; WeixinAdapter::new discovers the account, or    *)
(* takes it from the environment.                                          *)
NewAccount ==
  IF Lookup(Configured) # NoLogin THEN Lookup(Configured) ELSE Environment

Restart ==
  /\ restarts < MaxRestarts
  /\ restarts' = restarts + 1
  /\ mem' = NewAccount
  /\ rt' = Start /\ saver' = Idle /\ unbinder' = Idle
  /\ UNCHANGED <<disk, files, logins, posted>>

Init ==
  /\ disk = [a \in Accounts |-> 0]
  /\ mem = Environment
  /\ inbox = [a \in Accounts |-> [m \in Messages |-> NoItem]]
  /\ cursor = [a \in Accounts |-> NoCursor]
  /\ rt = Start /\ saver = Idle /\ unbinder = Idle
  /\ logins = 0 /\ restarts = 0
  /\ posted = [a \in Accounts |-> 0]

Runtime ==
  \/ Discover \/ Adopt \/ LoopHead \/ PollUpdates \/ PollReturns \/ PollFails
  \/ PersistInboundBatch \/ CommitPollCursor
  \/ ClaimInbound \/ HandleInbound \/ FinishInbound

Setup ==
  \/ \E a \in Accounts : SaveAccountFile(a)
  \/ SaveAccountState \/ UnbindAsks \/ UnbindAdopts
  \/ \E removed \in Removals : Unbind(removed)

Next ==
  \/ Runtime \/ Setup \/ Restart
  \/ \E a \in Accounts : Post(a) \/ \E m \in Messages : LeaseLapses(a, m)

Spec == Init /\ [][Next]_vars

(* The thread never stops, the provider answers polls again and again, and *)
(* leases run out.  That no message fails with a server error for ever is  *)
(* the bound MaxFailures; one that did would keep the drain at its head.   *)
Fairness ==
  /\ WF_vars(Discover) /\ WF_vars(Adopt) /\ WF_vars(LoopHead) /\ WF_vars(PollUpdates)
  /\ SF_vars(PollReturns) /\ WF_vars(PersistInboundBatch) /\ WF_vars(CommitPollCursor)
  /\ WF_vars(ClaimInbound) /\ WF_vars(HandleInbound) /\ WF_vars(FinishInbound)
  /\ WF_vars(SaveAccountState)
  /\ \A a \in Accounts, m \in Messages : WF_vars(LeaseLapses(a, m))

FairSpec == Spec /\ Fairness

-----------------------------------------------------------------------------
(* Every variable has the shape that weixin.rs gives its files and state.  *)
WeixinTypeOK ==
  /\ disk \in [Accounts -> 0..MaxLogins] /\ mem \in Login
  /\ \A a \in Accounts, m \in Messages :
       inbox[a][m].status \in {"none", "pending", "processing", "failed",
                               "succeeded", "terminal_failed"}
       /\ inbox[a][m].attempts \in Nat
  /\ rt.op \in Operations /\ rt.ph \in {"discover", "adopt", "act"}
  /\ rt.login \in Login /\ rt.found \in Login
  /\ saver.pc \in {"idle", "saving"}
  /\ unbinder.pc \in {"idle", "discovered", "unbinding"}

(* An inbox holds messages of its own account only: a batch that was       *)
(* polled for one login is not stored for another one.                     *)
BatchStaysWithItsAccount ==
  \A a \in Accounts, m \in Messages : inbox[a][m] # NoItem => m[1] = a

(* What the environment provides for without a file.                       *)
Provided(a) == Configured = a /\ Token # 0

(* An account without a file is in memory only as the environment has it,  *)
(* and nothing is stored for it unless the environment has a token for it: *)
(* neither the batch of a poll that was under way nor an account that was  *)
(* seen on disk before survives a successful unbind.                       *)
NothingLeftBehind ==
  \A a \in Accounts : disk[a] = 0 =>
    /\ mem.acc = a => mem = Environment
    /\ Provided(a) \/ (cursor[a] = NoCursor /\ \A m \in Messages : inbox[a][m] = NoItem)

(* An account that was unbound leaves nothing in memory or on disk that a  *)
(* later poll would act on, however the unbind met the poll; only what the *)
(* environment names comes back, when the gateway is started again.        *)
AccountsAreSound == WeixinTypeOK /\ NothingLeftBehind

(* The inbox of an account that is not unbound keeps the promise of a      *)
(* durable inbox; the provider is answered by the cursor, which is saved   *)
(* only after the messages it passes over: none is skipped when the        *)
(* process stops in between.                                               *)
State == [m \in Messages |->
  LET it == inbox[m[1]][m]
  IN  CASE it.status = "none" -> "new"
        [] it.status \in {"succeeded", "terminal_failed"} -> "settled"
        [] OTHER -> "held"]

Acked == {m \in Messages : cursor[m[1]].of = m[1] /\ m[2] <= cursor[m[1]].pos}

Promise == INSTANCE InboxPromise WITH state <- State, acked <- Acked

KeepsPromise == Promise!Spec

(* While its account stays logged in, by a file or by the environment,     *)
(* each message the provider has is fetched and settled, whatever the      *)
(* restarts: the claim that one leaves behind lapses.                      *)
Fetched ==
  \A m \in Messages :
    (posted[m[1]] >= m[2] /\ (disk[m[1]] # 0 \/ Provided(m[1]))) ~> (State[m] = "settled")
=============================================================================
