--------------------------- MODULE WhatsAppInbox ---------------------------
(***************************************************************************)
(* The inbox between the signed WhatsApp webhook and the conversation      *)
(* turns: one file per message in the directory whatsapp-inbox             *)
(* (src/src/adapters/whatsapp.rs), filled by the webhook handler and       *)
(* emptied by the worker that every gateway process starts                 *)
(* (start_whatsapp_inbox in src/src/server.rs).  enqueue, claim_message    *)
(* and finish_message run under the directory's file lock, so each is one  *)
(* step; between claim and finish a turn is taken, which may last longer   *)
(* than the claim does.                                                    *)
(*                                                                         *)
(* Timestamps are kept as the time that has passed since them (age) or     *)
(* that is left until they matter (lease, retry).  claimed_at, which       *)
(* finish_message compares besides attempts, is left out: two claims of a  *)
(* file differ in attempts already.                                        *)
(***************************************************************************)
EXTENDS Naturals, FiniteSets

CONSTANTS
  Messages,     \* provider message ids of the official number
  Gates,        \* gateway processes
  Lease,        \* a claim lapses after 600 s
  RetryDelay,   \* a failed message waits 60 s
  Life,         \* a message is given up after a day ...
  MaxAttempts,  \* ... or 30 attempts
  Keep,         \* the file of a finished message is kept for 7 days
  Replay,       \* for so long the provider hands a message in again
  Capacity      \* 10000 directory entries, the lock file included

ASSUME WhatsAppAssumption ==
  /\ IsFiniteSet(Messages)
  /\ {Lease, RetryDelay, Life, MaxAttempts, Keep, Replay, Capacity} \subseteq Nat
  /\ Replay <= Keep /\ MaxAttempts > 0

VARIABLES
  file,     \* the inbox directory
  worker,   \* what every process's worker holds
  sent,     \* time since the provider first handed a message in
  known,    \* history: the messages that were ever stored
  accepted  \* the messages the webhook answered with 200

vars == <<file, worker, sent, known, accepted>>

NoFile == [status |-> "none"]
Unsent == Keep + 2
Idle   == [pc |-> "idle"]

NewFile == [status |-> "pending", age |-> 0, attempts |-> 0, lease |-> 0,
            retry |-> 0, payload |-> TRUE]

Stored == {m \in Messages : file[m] # NoFile}

-----------------------------------------------------------------------------
(* enqueue: the messages of a batch are stored one after the other.  When  *)
(* the directory is full, or the process stops half way, the webhook does  *)
(* not answer with 200 and the provider hands in the whole batch again.  A *)
(* message that has a file is left alone.                                  *)
Full(stored) == Cardinality(stored) + 1 > Capacity

Skips(m) == file[m] # NoFile

Enqueue(batch, written) ==
  LET new == {m \in batch : ~Skips(m)} IN
  /\ written \subseteq new
  /\ written # {} => \E last \in written : ~Full(Stored \cup (written \ {last}))
  /\ \/ written = new /\ accepted' = accepted \cup batch
     \/ UNCHANGED accepted
  /\ file' = [m \in Messages |-> IF m \in written THEN NewFile ELSE file[m]]
  /\ known' = known \cup written

(* The provider (external) hands in batches, again and again until it is   *)
(* answered or the messages are too old, and now and then once more.       *)
Webhook(batch, written) ==
  /\ batch # {}
  /\ \A m \in batch : sent[m] = Unsent \/ sent[m] <= Replay
  /\ Enqueue(batch, written)
  /\ sent' = [m \in Messages |-> IF m \in batch /\ sent[m] = Unsent THEN 0 ELSE sent[m]]
  /\ UNCHANGED worker

-----------------------------------------------------------------------------
(* claim_message: the directory is scanned in some order; finished files   *)
(* that are old are removed, unfinished ones that are too old or failed    *)
(* too often are given up, and the first one that is free is claimed.      *)
PurgeSoon(f) == f.status = "done" /\ f.age > Life     \* mutant: kept for a day

PurgeDue(f)  == f.status = "done" /\ f.age > Keep

GivenUp(f)  == f.status \in {"pending", "running"}
               /\ (f.age > Life \/ f.attempts >= MaxAttempts)

Claimable(f) ==
  /\ ~GivenUp(f) /\ f.retry = 0
  /\ f.status = "pending" \/ (f.status = "running" /\ f.lease = 0)

VisitedOnly(f) == IF PurgeDue(f) THEN NoFile ELSE f   \* mutant: gives up in passing

Visited(f) ==
  IF PurgeDue(f) THEN NoFile
  ELSE IF GivenUp(f) THEN [f EXCEPT !.status = "done", !.payload = FALSE]
  ELSE f

ClaimedUncounted(f) ==                \* mutant: a takeover is no new attempt
  [f EXCEPT !.status = "running", !.lease = Lease + 1,
            !.attempts = IF f.status = "running" THEN @ ELSE @ + 1]

Claimed(f) == [f EXCEPT !.status = "running", !.lease = Lease + 1,
                        !.attempts = @ + 1]

ClaimMessage(g) ==
  /\ worker[g].pc = "idle"
  /\ \/ \E m \in Stored : \E before \in SUBSET (Stored \ {m}) :
          /\ Claimable(file[m]) /\ \A x \in before : ~Claimable(file[x])
          /\ file' = [x \in Messages |-> IF x = m THEN Claimed(file[m])
                                         ELSE IF x \in before THEN Visited(file[x])
                                         ELSE file[x]]
          /\ worker' = [worker EXCEPT ![g] =
               [pc |-> "handling", m |-> m, item |-> Claimed(file[m])]]
     \/ /\ \A m \in Stored : ~Claimable(file[m])
        /\ file' = [x \in Messages |-> IF x \in Stored THEN Visited(file[x]) ELSE NoFile]
        /\ UNCHANGED worker
  /\ UNCHANGED <<sent, known, accepted>>

(* handle_inbound takes the turn; an error of the server or 429 asks for a *)
(* retry, everything else finishes the message.                            *)
HandleInbound(g) ==
  /\ worker[g].pc = "handling"
  /\ \E retry \in BOOLEAN :
       worker' = [worker EXCEPT ![g] = [pc |-> "finishing", m |-> @.m,
                                        item |-> @.item, retry |-> retry]]
  /\ UNCHANGED <<file, sent, known, accepted>>

(* finish_message: writes the worker's copy of the file back, unless the   *)
(* claim is no longer the worker's.                                        *)
Unfenced(f, item) == f.status = "running"       \* mutant: whoever claimed it

OwnClaim(f, item) == f.status = "running" /\ f.attempts = item.attempts

Finished(f, retry) ==
  IF retry THEN [f EXCEPT !.status = "pending", !.retry = RetryDelay]
           ELSE [f EXCEPT !.status = "done", !.payload = FALSE]

FinishMessage(g) ==
  LET w == worker[g] IN
  /\ w.pc = "finishing"
  /\ file' = IF file[w.m] # NoFile /\ OwnClaim(file[w.m], w.item)
             THEN [file EXCEPT ![w.m] = Finished(@, w.retry)] ELSE file
  /\ worker' = [worker EXCEPT ![g] = Idle]
  /\ UNCHANGED <<sent, known, accepted>>

(* A process stops in the middle of a turn, or cannot save its end.        *)
Crash(g) ==
  /\ worker[g].pc # "idle"
  /\ worker' = [worker EXCEPT ![g] = Idle]
  /\ UNCHANGED <<file, sent, known, accepted>>

Less(n) == IF n > 0 THEN n - 1 ELSE 0

Tick ==
  /\ file' = [m \in Messages |-> IF file[m] = NoFile THEN NoFile
       ELSE [file[m] EXCEPT !.age = IF @ > Keep THEN @ ELSE @ + 1,
                            !.lease = Less(@), !.retry = Less(@)]]
  /\ sent' = [m \in Messages |-> IF sent[m] > Keep THEN sent[m] ELSE sent[m] + 1]
  /\ UNCHANGED <<worker, known, accepted>>

-----------------------------------------------------------------------------
Init ==
  /\ file = [m \in Messages |-> NoFile]
  /\ worker = [g \in Gates |-> Idle]
  /\ sent = [m \in Messages |-> Unsent]
  /\ known = {} /\ accepted = {}

Next ==
  \/ Tick
  \/ \E batch \in SUBSET Messages : \E written \in SUBSET batch : Webhook(batch, written)
  \/ \E g \in Gates : ClaimMessage(g) \/ HandleInbound(g) \/ FinishMessage(g) \/ Crash(g)

Spec == Init /\ [][Next]_vars

(* The worker loop claims again within seconds and a turn ends (every call *)
(* it makes has a timeout); time passes.  Nothing is assumed of the        *)
(* provider, of crashes or of the outcome of a turn.                       *)
Fairness ==
  /\ WF_vars(Tick)
  /\ \A g \in Gates : WF_vars(ClaimMessage(g)) /\ WF_vars(HandleInbound(g))
                      /\ WF_vars(FinishMessage(g))

FairSpec == Spec /\ Fairness

-----------------------------------------------------------------------------
(* Every variable has the shape that whatsapp.rs gives its files, and the  *)
(* directory never holds more than its capacity.                           *)
InboxTypeOK ==
  /\ \A m \in Stored :
       /\ file[m].status \in {"pending", "running", "done"}
       /\ file[m].attempts \in 0..MaxAttempts
       /\ file[m].age \in 0..(Keep + 1)
       /\ file[m].lease \in 0..(Lease + 1) /\ file[m].retry \in 0..RetryDelay
  /\ Cardinality(Stored) <= Capacity
  /\ accepted \subseteq known /\ known \subseteq Messages

(* Two workers take a turn for the same message only when the claim of the *)
(* first has lapsed: whoever holds the current claim works alone.          *)
OneTurnPerClaim ==
  \A g, h \in Gates :
    g # h /\ worker[g].pc # "idle" /\ worker[h].pc # "idle"
          /\ worker[g].m = worker[h].m
      => worker[g].item.attempts # worker[h].item.attempts

(* An unfinished message keeps the payload that its next turn needs,       *)
(* although every worker writes back a copy it read long before.           *)
PayloadIsKept ==
  \A m \in Stored : file[m].status \in {"pending", "running"} <=> file[m].payload

(* What the files say is enough to go on with: every running claim has at  *)
(* most one worker that may finish it, and an unfinished message its text. *)
InboxIsSound == InboxTypeOK /\ OneTurnPerClaim /\ PayloadIsKept

(* A worker whose claim was taken over changes nothing when it finishes.   *)
LateFinishIsIgnored ==
  [][\A g \in Gates :
       worker[g].pc = "finishing" /\ worker'[g].pc = "idle"
         /\ (\E h \in Gates : /\ worker[h].pc # "idle" /\ worker[h].m = worker[g].m
                              /\ worker[h].item.attempts > worker[g].item.attempts)
       => file' = file]_vars

(* A message with a live claim is not claimed again.                       *)
LeaseIsRespected ==
  [][\A m \in Messages :
       file[m] # NoFile /\ file'[m] # NoFile /\ file[m].status = "running"
         /\ file[m].lease > 0
       => file'[m].attempts = file[m].attempts]_vars

(* enqueue, claim and finish of two gateway processes never undo each      *)
(* other: a live lease keeps others out and a lost claim stays lost.       *)
ClaimsAreRespected == LateFinishIsIgnored /\ LeaseIsRespected

(* The inbox keeps the promise of a durable inbox for as long as the       *)
(* provider hands a message in again.                                      *)
State == [m \in Messages |->
  IF file[m] # NoFile THEN IF file[m].status = "done" THEN "settled" ELSE "held"
  ELSE IF m \in known THEN "settled" ELSE "new"]

Promise == INSTANCE InboxPromise WITH state <- State, acked <- accepted

KeepsPromise == Promise!Spec

(* Every stored message is done with in the end, whatever the turns come   *)
(* to: the limits on age and attempts stop retries, and a claim that a     *)
(* crash left behind lapses.                                               *)
Settles == \A m \in Messages : (State[m] = "held") ~> (State[m] = "settled")
=============================================================================
