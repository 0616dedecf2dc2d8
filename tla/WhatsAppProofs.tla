--------------------------- MODULE WhatsAppProofs ---------------------------
(***************************************************************************)
(* The WhatsApp inbox is sound, respects claims and implements             *)
(* InboxPromise, for all messages, processes, times and limits.            *)
(*                                                                         *)
(* A claim is told from a later one by the number of attempts in the file, *)
(* and a file can be purged while a worker still holds its claim; that     *)
(* numbers never begin again rests on the times: what was purged is older  *)
(* than what the provider still hands in (WhatsAppAssumption).             *)
(***************************************************************************)
EXTENDS WhatsAppInbox, FiniteSetTheorems, TLAPS

(* The content of a file of the inbox; the payload goes when the message   *)
(* is done.                                                                *)
FileRecord == [status : {"pending", "running", "done"}, age : 0..(Keep + 1),
               attempts : 0..MaxAttempts, lease : 0..(Lease + 1),
               retry : 0..RetryDelay, payload : BOOLEAN]

GoodFile == {f \in FileRecord : f.payload <=> f.status # "done"}

Holding == [pc : {"handling"}, m : Messages, item : FileRecord]
             \cup [pc : {"finishing"}, m : Messages, item : FileRecord, retry : BOOLEAN]

(* The inductive invariant.                                                *)
FilesInv == file \in [Messages -> GoodFile \cup {NoFile}]

(* A message that was stored has been handed in, at least as long ago as   *)
(* its file is old; if its file was purged, too long ago to come again.    *)
TimesInv ==
  /\ sent \in [Messages -> 0..Unsent]
  /\ accepted \subseteq known /\ known \subseteq Messages
  /\ \A m \in Messages : file[m] # NoFile => m \in known /\ file[m].age <= sent[m]
  /\ \A m \in known : sent[m] # Unsent /\ (file[m] = NoFile => sent[m] > Keep)

(* Who holds a claim holds one that was made, of a message that was stored.*)
ClaimsInv ==
  /\ worker \in [Gates -> Holding \cup {Idle}]
  /\ \A g \in Gates : worker[g] # Idle =>
       /\ worker[g].m \in known
       /\ file[worker[g].m] # NoFile => worker[g].item.attempts <= file[worker[g].m].attempts

(* The directory stays within its capacity.                                *)
RoomInv == Cardinality(Stored) <= Capacity

(* All of it.                                                              *)
InboxInv == FilesInv /\ TimesInv /\ ClaimsInv /\ RoomInv /\ OneTurnPerClaim

-----------------------------------------------------------------------------
(* What the operations of whatsapp.rs do to one file.                      *)

(* What is assumed of the constants.                                       *)
LEMMA Constants ==
  /\ IsFiniteSet(Messages) /\ Lease \in Nat /\ RetryDelay \in Nat /\ Life \in Nat
  /\ MaxAttempts \in Nat /\ Keep \in Nat /\ Replay \in Nat /\ Capacity \in Nat
  /\ Replay <= Keep /\ MaxAttempts > 0
  BY WhatsAppAssumption

(* The placeholder of a missing file is not the content of a file.         *)
LEMMA NoFileIsNone == \A f \in FileRecord : f # NoFile /\ f.status # "none"
  BY DEF FileRecord, NoFile

(* enqueue writes a good file.                                             *)
LEMMA NewFileGood == NewFile \in GoodFile /\ NewFile.age = 0 /\ NewFile.status = "pending"
<1>1. NewFile \in FileRecord  BY Constants DEF NewFile, FileRecord
<1>2. QED BY <1>1 DEF NewFile, GoodFile

(* claim_message leaves a good file or removes an old one.                 *)
LEMMA VisitedGood ==
  ASSUME NEW f \in GoodFile
  PROVE  \/ Visited(f) = NoFile /\ f.status = "done" /\ f.age > Keep
         \/ /\ Visited(f) \in GoodFile /\ Visited(f).age = f.age
            /\ Visited(f).attempts = f.attempts /\ Visited(f).status \in {f.status, "done"}
<1>1. CASE PurgeDue(f)  BY <1>1 DEF PurgeDue, Visited
<1>2. CASE ~PurgeDue(f) /\ GivenUp(f)
  <2> DEFINE v == [f EXCEPT !.status = "done", !.payload = FALSE]
  <2>1. v \in FileRecord /\ v.status = "done" /\ v.payload = FALSE /\ v.age = f.age
        /\ v.attempts = f.attempts
    BY DEF GoodFile, FileRecord
  <2>2. Visited(f) = v  BY <1>2 DEF Visited
  <2> HIDE DEF v
  <2>3. v \in GoodFile  BY <2>1 DEF GoodFile
  <2>4. QED BY <2>1, <2>2, <2>3
<1>3. CASE ~PurgeDue(f) /\ ~GivenUp(f)  BY <1>3 DEF Visited
<1>4. QED BY <1>1, <1>2, <1>3

(* claim_message claims a file that is not done, under its next number.    *)
LEMMA ClaimedGood ==
  ASSUME NEW f \in GoodFile, Claimable(f)
  PROVE  /\ Claimed(f) \in GoodFile /\ Claimed(f).age = f.age
         /\ Claimed(f).attempts = f.attempts + 1 /\ Claimed(f).status = "running"
         /\ f.status # "done"
<1> DEFINE v == [f EXCEPT !.status = "running", !.lease = Lease + 1, !.attempts = @ + 1]
<1>0. f \in FileRecord  BY DEF GoodFile
<1>1. f.attempts + 1 \in 0..MaxAttempts /\ f.status # "done" /\ Lease + 1 \in 0..(Lease + 1)
  BY <1>0, Constants DEF Claimable, GivenUp, FileRecord
<1>2. v \in FileRecord /\ v.status = "running" /\ v.payload = f.payload /\ v.age = f.age
      /\ v.attempts = f.attempts + 1
  BY <1>0, <1>1 DEF FileRecord
<1>3. Claimed(f) = v  BY DEF Claimed
<1> HIDE DEF v
<1>4. v \in GoodFile  BY <1>1, <1>2 DEF GoodFile
<1>5. QED BY <1>1, <1>2, <1>3, <1>4

(* finish_message writes a good file over a running one.                   *)
LEMMA FinishedGood ==
  ASSUME NEW f \in GoodFile, f.status = "running", NEW retry \in BOOLEAN
  PROVE  /\ Finished(f, retry) \in GoodFile /\ Finished(f, retry).age = f.age
         /\ Finished(f, retry).attempts = f.attempts
<1>1. CASE retry
  <2> DEFINE v == [f EXCEPT !.status = "pending", !.retry = RetryDelay]
  <2>1. v \in FileRecord /\ v.status = "pending" /\ v.payload = f.payload /\ v.age = f.age
        /\ v.attempts = f.attempts
    <3>1. f \in FileRecord /\ RetryDelay \in 0..RetryDelay  BY Constants DEF GoodFile
    <3>2. QED BY <3>1 DEF FileRecord
  <2>2. Finished(f, retry) = v  BY <1>1 DEF Finished
  <2> HIDE DEF v
  <2>3. v \in GoodFile  BY <2>1 DEF GoodFile
  <2>4. QED BY <2>1, <2>2, <2>3
<1>2. CASE ~retry
  <2> DEFINE v == [f EXCEPT !.status = "done", !.payload = FALSE]
  <2>1. v \in FileRecord /\ v.status = "done" /\ v.payload = FALSE /\ v.age = f.age
        /\ v.attempts = f.attempts
    BY DEF GoodFile, FileRecord
  <2>2. Finished(f, retry) = v  BY <1>2 DEF Finished
  <2> HIDE DEF v
  <2>3. v \in GoodFile  BY <2>1 DEF GoodFile
  <2>4. QED BY <2>1, <2>2, <2>3
<1>3. QED BY <1>1, <1>2

(* Time passes for a file.                                                 *)
Aged(f) == [f EXCEPT !.age = IF @ > Keep THEN @ ELSE @ + 1,
                     !.lease = Less(@), !.retry = Less(@)]

(* Time passes for a file.                                                 *)
LEMMA AgedGood ==
  ASSUME NEW f \in GoodFile
  PROVE  /\ Aged(f) \in GoodFile /\ Aged(f).status = f.status /\ Aged(f).attempts = f.attempts
         /\ Aged(f).age = IF f.age > Keep THEN f.age ELSE f.age + 1
<1> DEFINE a == IF f.age > Keep THEN f.age ELSE f.age + 1
           v == [f EXCEPT !.age = a, !.lease = Less(f.lease), !.retry = Less(f.retry)]
<1>1. f \in FileRecord  BY DEF GoodFile
<1>2. a \in 0..(Keep + 1)  BY <1>1, Constants DEF FileRecord
<1>3. Less(f.lease) \in 0..(Lease + 1) /\ Less(f.retry) \in 0..RetryDelay
  BY <1>1, Constants DEF FileRecord, Less
<1>4. Aged(f) = v  BY <1>1, Zenon DEF Aged
<1> HIDE DEF a
<1>5. v \in FileRecord /\ v.status = f.status /\ v.payload = f.payload
      /\ v.attempts = f.attempts /\ v.age = a
  BY <1>1, <1>2, <1>3 DEF FileRecord
<1> HIDE DEF v
<1>6. v \in GoodFile  BY <1>5 DEF GoodFile
<1>7. QED BY <1>4, <1>5, <1>6 DEF a

-----------------------------------------------------------------------------
(* What one step does to the file of one message, whoever takes it: the    *)
(* file is written once, for a message that was never stored; it is        *)
(* removed when it is old and done; and otherwise goes on from what it     *)
(* was, with a new claim only where no other one is live.                  *)
Evolves(m) ==
  \/ file[m] = NoFile /\ file'[m] = NoFile /\ (m \in known' => m \in known)
  \/ /\ file[m] = NoFile /\ m \notin known /\ m \in known' /\ file'[m] \in GoodFile
     /\ file'[m].status = "pending" /\ file'[m].age = 0
  \/ /\ file[m] \in GoodFile /\ file'[m] = NoFile
     /\ file[m].status = "done" /\ file[m].age > Keep
  \/ /\ file[m] \in GoodFile /\ file'[m] \in GoodFile /\ file'[m].age <= sent'[m]
     /\ file[m].status = "done" => file'[m].status = "done"
     /\ file'[m].attempts >= file[m].attempts
     /\ file[m].status = "running" /\ file[m].lease > 0
          => file'[m].attempts = file[m].attempts

(* What a step does to the times and to the sets of messages.              *)
TimesStep ==
  /\ file' = [m \in Messages |-> file'[m]]
  /\ sent' \in [Messages -> 0..Unsent]
  /\ known \subseteq known' /\ known' \subseteq Messages /\ accepted' \subseteq known'
  /\ accepted \subseteq accepted'
  /\ \A m \in known' : sent'[m] # Unsent
  /\ \A m \in known : sent'[m] >= sent[m]

Step == TimesStep /\ \A m \in Messages : Evolves(m)

(* A file that does not change evolves, and one that claim_message visits. *)
LEMMA StaysEvolves ==
  ASSUME InboxInv, NEW m \in Messages, file'[m] = file[m], known' = known, sent' = sent
  PROVE  Evolves(m)
<1>1. file[m] \in GoodFile \cup {NoFile}  BY DEF InboxInv, FilesInv
<1>2. CASE file[m] = NoFile  BY <1>2 DEF Evolves
<1>3. CASE file[m] \in GoodFile
  <2>1. file[m].age <= sent[m] /\ file[m].attempts \in Nat
    BY <1>3, NoFileIsNone, Constants DEF InboxInv, TimesInv, GoodFile, FileRecord
  <2>2. QED BY <1>3, <2>1 DEF Evolves
<1>4. QED BY <1>1, <1>2, <1>3

(* claim_message visits a file in passing.                                 *)
LEMMA VisitedEvolves ==
  ASSUME InboxInv, NEW m \in Messages, file[m] # NoFile, file'[m] = Visited(file[m]),
         known' = known, sent' = sent
  PROVE  Evolves(m)
<1>1. file[m] \in GoodFile  BY DEF InboxInv, FilesInv
<1>2. file[m].age <= sent[m] /\ file[m].attempts \in Nat
  BY <1>1, NoFileIsNone, Constants DEF InboxInv, TimesInv, GoodFile, FileRecord
<1>3. \/ file'[m] = NoFile /\ file[m].status = "done" /\ file[m].age > Keep
      \/ /\ file'[m] \in GoodFile /\ file'[m].age = file[m].age
         /\ file'[m].attempts = file[m].attempts /\ file'[m].status \in {file[m].status, "done"}
  BY <1>1, VisitedGood
<1>4. QED BY <1>1, <1>2, <1>3 DEF Evolves

(* Steps of the workers leave times and sets as they are.                  *)
LEMMA TimesStay ==
  ASSUME InboxInv, known' = known, sent' = sent, accepted' = accepted,
         file' = [m \in Messages |-> file'[m]]
  PROVE  TimesStep
<1>1. \A m \in known : sent[m] \in Nat  BY Constants DEF InboxInv, TimesInv, Unsent
<1>2. QED BY <1>1 DEF InboxInv, TimesInv, TimesStep

(* Time passes for all files and messages alike.                           *)
LEMMA TickStep ==
  ASSUME InboxInv, Tick  PROVE Step
<1>1. \A m \in Messages : sent[m] \in 0..Unsent
  BY DEF InboxInv, TimesInv
<1>2. \A m \in Messages :
        /\ sent'[m] = IF sent[m] > Keep THEN sent[m] ELSE sent[m] + 1
        /\ file'[m] = IF file[m] = NoFile THEN NoFile ELSE Aged(file[m])
  BY DEF Tick, Aged
<1>3. \A m \in Messages : /\ sent'[m] \in 0..Unsent /\ sent'[m] >= sent[m]
                          /\ sent[m] # Unsent => sent'[m] # Unsent
  BY <1>1, <1>2, Constants DEF Unsent
<1>4. file' = [m \in Messages |-> file'[m]] /\ sent' = [m \in Messages |-> sent'[m]]
      /\ known' = known /\ accepted' = accepted
  BY DEF Tick
<1>5. TimesStep
  <2>1. known \subseteq Messages /\ accepted \subseteq known /\ \A m \in known : sent[m] # Unsent
    BY DEF InboxInv, TimesInv
  <2>2. sent' \in [Messages -> 0..Unsent]  BY <1>3, <1>4
  <2>3. \A m \in known : sent'[m] # Unsent /\ sent'[m] >= sent[m]  BY <1>3, <2>1
  <2>4. QED BY <1>4, <2>1, <2>2, <2>3 DEF TimesStep
<1>6. ASSUME NEW m \in Messages  PROVE Evolves(m)
  <2>1. file[m] \in GoodFile \cup {NoFile}  BY DEF InboxInv, FilesInv
  <2>2. CASE file[m] = NoFile  BY <2>2, <1>2, <1>4 DEF Evolves
  <2>3. CASE file[m] # NoFile
    <3>1. file[m] \in GoodFile /\ file'[m] = Aged(file[m])  BY <2>1, <2>3, <1>2
    <3>2. file[m].age <= sent[m] /\ file[m].age \in Nat /\ file[m].attempts \in Nat
      BY <3>1, <2>3, Constants DEF InboxInv, TimesInv, GoodFile, FileRecord
    <3>3. /\ file'[m] \in GoodFile /\ file'[m].status = file[m].status
          /\ file'[m].attempts = file[m].attempts
          /\ file'[m].age = IF file[m].age > Keep THEN file[m].age ELSE file[m].age + 1
      BY <3>1, AgedGood
    <3>4. file'[m].age <= sent'[m]  BY <3>2, <3>3, <1>1, <1>2, Constants DEF Unsent
    <3>5. QED BY <3>1, <3>2, <3>3, <3>4 DEF Evolves
  <2>4. QED BY <2>2, <2>3
<1>7. QED BY <1>5, <1>6 DEF Step

(* A message that the provider still hands in and that has no file was     *)
(* never stored: what was purged is too old to come again.                 *)
LEMMA WebhookStep ==
  ASSUME InboxInv, NEW batch \in SUBSET Messages, NEW written \in SUBSET batch,
         Webhook(batch, written)
  PROVE  Step /\ \A m \in written : m \notin known
<1>1. \A m \in Messages : sent[m] \in 0..Unsent  BY DEF InboxInv, TimesInv
<1>2. \A m \in Messages :
        /\ sent'[m] = IF m \in batch /\ sent[m] = Unsent THEN 0 ELSE sent[m]
        /\ file'[m] = IF m \in written THEN NewFile ELSE file[m]
  BY DEF Webhook, Enqueue
<1>3. /\ file' = [m \in Messages |-> file'[m]] /\ sent' = [m \in Messages |-> sent'[m]]
      /\ known' = known \cup written
      /\ \A m \in written : file[m] = NoFile
      /\ \A m \in batch : sent[m] = Unsent \/ sent[m] <= Replay
  BY DEF Webhook, Enqueue, Skips
<1>4. \A m \in written : m \notin known
  BY <1>1, <1>3, Constants DEF InboxInv, TimesInv, Unsent
<1>5. \A m \in Messages : sent'[m] \in 0..Unsent  BY <1>1, <1>2, Constants DEF Unsent
<1>6. \A m \in known : sent'[m] = sent[m] /\ sent[m] # Unsent /\ sent[m] \in Nat
  BY <1>1, <1>2, Constants DEF InboxInv, TimesInv, Unsent
<1>7. \A m \in written : sent'[m] # Unsent
  BY <1>2, <1>3, <1>1, Constants DEF Unsent
<1>8. \A m \in batch : file[m] # NoFile => m \in known  BY DEF InboxInv, TimesInv
<1>9. accepted' \subseteq known' /\ accepted \subseteq accepted'
  <2>1. CASE accepted' = accepted  BY <2>1, <1>3 DEF InboxInv, TimesInv
  <2>2. CASE written = {m \in batch : ~Skips(m)} /\ accepted' = accepted \cup batch
    BY <2>2, <1>3, <1>8 DEF InboxInv, TimesInv, Skips
  <2>3. QED BY <2>1, <2>2 DEF Webhook, Enqueue
<1>10. TimesStep
  BY <1>3, <1>5, <1>6, <1>7, <1>9 DEF TimesStep, InboxInv, TimesInv
<1>11. ASSUME NEW m \in Messages  PROVE Evolves(m)
  <2>1. CASE m \in written
    BY <2>1, <1>2, <1>3, <1>4, NewFileGood DEF Evolves
  <2>2. CASE m \notin written
    <3>1. file'[m] = file[m] /\ (m \in known' => m \in known)  BY <2>2, <1>2, <1>3
    <3>2. CASE file[m] = NoFile  BY <3>1, <3>2 DEF Evolves
    <3>3. CASE file[m] # NoFile
      <4>1. file[m] \in GoodFile /\ m \in known /\ file[m].age <= sent[m]
        BY <3>3 DEF InboxInv, FilesInv, TimesInv
      <4>2. file[m].attempts \in Nat  BY <4>1, Constants DEF GoodFile, FileRecord
      <4>3. sent'[m] = sent[m]  BY <4>1, <1>6
      <4>4. QED BY <4>1, <4>2, <4>3, <3>1 DEF Evolves
    <3>4. QED BY <3>2, <3>3
  <2>3. QED BY <2>1, <2>2
<1>12. QED BY <1>4, <1>10, <1>11 DEF Step

(* claim_message claims one file at most and visits others.                *)
LEMMA ClaimStep ==
  ASSUME InboxInv, NEW g \in Gates, ClaimMessage(g)
  PROVE  Step
<1>1. known' = known /\ sent' = sent /\ accepted' = accepted
      /\ file' = [m \in Messages |-> file'[m]]
  BY DEF ClaimMessage
<1>2. TimesStep  BY <1>1, TimesStay
<1>3. ASSUME NEW x \in Messages  PROVE Evolves(x)
  <2>1. CASE UNCHANGED worker /\ file'[x] = IF x \in Stored THEN Visited(file[x]) ELSE NoFile
    <3>1. CASE x \in Stored  BY <3>1, <2>1, <1>1, VisitedEvolves DEF Stored
    <3>2. CASE x \notin Stored  BY <3>2, <2>1, <1>1 DEF Stored, Evolves
    <3>3. QED BY <3>1, <3>2
  <2>2. ASSUME NEW m \in Stored, NEW before \in SUBSET (Stored \ {m}), Claimable(file[m]),
               file'[x] = IF x = m THEN Claimed(file[m])
                          ELSE IF x \in before THEN Visited(file[x]) ELSE file[x]
        PROVE  Evolves(x)
    <3>1. CASE x = m
      <4>1. x \in Messages /\ file[x] # NoFile /\ file'[x] = Claimed(file[x]) /\ Claimable(file[x])
        BY <3>1, <2>2 DEF Stored
      <4>2. file[x] \in GoodFile /\ file[x].age <= sent[x]
        BY <4>1 DEF InboxInv, FilesInv, TimesInv
      <4>3. /\ file'[x] \in GoodFile /\ file'[x].age = file[x].age
            /\ file'[x].attempts = file[x].attempts + 1 /\ file'[x].status = "running"
            /\ file[x].status # "done"
        BY <4>1, <4>2, ClaimedGood
      <4>4. file[x].attempts \in Nat /\ file[x].lease \in Nat
        BY <4>2, Constants DEF GoodFile, FileRecord
      <4>5. ~(file[x].status = "running" /\ file[x].lease > 0)
        BY <4>1, <4>4 DEF Claimable
      <4>6. QED BY <4>1, <4>2, <4>3, <4>4, <4>5, <1>1 DEF Evolves
    <3>2. CASE x # m /\ x \in before
      BY <3>2, <2>2, <1>1, VisitedEvolves DEF Stored
    <3>3. CASE x # m /\ x \notin before  BY <3>3, <2>2, <1>1, StaysEvolves
    <3>4. QED BY <3>1, <3>2, <3>3
  <2>3. QED BY <2>1, <2>2 DEF ClaimMessage
<1>4. QED BY <1>2, <1>3 DEF Step

(* finish_message changes the one file whose claim it still owns.          *)
LEMMA FinishStep ==
  ASSUME InboxInv, NEW g \in Gates, FinishMessage(g)
  PROVE  Step
<1> DEFINE m == worker[g].m
<1>1. known' = known /\ sent' = sent /\ accepted' = accepted  BY DEF FinishMessage
<1>2. worker[g] \in Holding /\ worker[g].pc = "finishing" /\ m \in Messages
      /\ worker[g].retry \in BOOLEAN
  BY DEF FinishMessage, InboxInv, ClaimsInv, Holding, Idle
<1>3. CASE file' = file
  <2>1. file' = [x \in Messages |-> file'[x]]  BY <1>3 DEF InboxInv, FilesInv
  <2>2. QED BY <1>1, <1>3, <2>1, TimesStay, StaysEvolves DEF Step
<1>4. CASE /\ file[m] # NoFile /\ OwnClaim(file[m], worker[g].item)
           /\ file' = [file EXCEPT ![m] = Finished(file[m], worker[g].retry)]
  <2>1. file' = [x \in Messages |-> file'[x]]
        /\ \A x \in Messages : file'[x] = IF x = m THEN Finished(file[m], worker[g].retry)
                                          ELSE file[x]
    BY <1>4 DEF InboxInv, FilesInv
  <2>2. ASSUME NEW x \in Messages  PROVE Evolves(x)
    <3>1. CASE x # m  BY <3>1, <2>1, <1>1, StaysEvolves
    <3>2. CASE x = m
      <4>1. file[x] \in GoodFile /\ file[x].age <= sent[x] /\ file[x].status = "running"
        BY <3>2, <1>2, <1>4 DEF InboxInv, FilesInv, TimesInv, OwnClaim
      <4>2. file'[x] = Finished(file[x], worker[g].retry)  BY <3>2, <2>1
      <4>3. /\ file'[x] \in GoodFile /\ file'[x].age = file[x].age
            /\ file'[x].attempts = file[x].attempts
        BY <4>1, <4>2, <1>2, FinishedGood
      <4>4. file[x].attempts \in Nat  BY <4>1, Constants DEF GoodFile, FileRecord
      <4>5. QED BY <4>1, <4>3, <4>4, <1>1 DEF Evolves
    <3>3. QED BY <3>1, <3>2
  <2>3. QED BY <1>1, <2>1, <2>2, TimesStay DEF Step
<1>5. QED BY <1>3, <1>4 DEF FinishMessage

(* Handling a message and crashing leave the directory alone.              *)
LEMMA StutterStep ==
  ASSUME InboxInv, file' = file, sent' = sent, known' = known, accepted' = accepted
  PROVE  Step
<1>1. file' = [x \in Messages |-> file'[x]]  BY DEF InboxInv, FilesInv
<1>2. QED BY <1>1, TimesStay, StaysEvolves DEF Step

(* Every step of the specification is one of these.                        *)
LEMMA EveryStep ==
  ASSUME InboxInv, [Next]_vars
  PROVE  Step
<1>1. CASE UNCHANGED vars  BY <1>1, StutterStep DEF vars
<1>2. CASE Tick  BY <1>2, TickStep
<1>3. CASE \E batch \in SUBSET Messages : \E written \in SUBSET batch : Webhook(batch, written)
  BY <1>3, WebhookStep
<1>4. ASSUME NEW g \in Gates, ClaimMessage(g) \/ HandleInbound(g) \/ FinishMessage(g) \/ Crash(g)
      PROVE  Step
  <2>1. CASE ClaimMessage(g)  BY <2>1, ClaimStep
  <2>2. CASE HandleInbound(g)  BY <2>2, StutterStep DEF HandleInbound
  <2>3. CASE FinishMessage(g)  BY <2>3, FinishStep
  <2>4. CASE Crash(g)  BY <2>4, StutterStep DEF Crash
  <2>5. QED BY <1>4, <2>1, <2>2, <2>3, <2>4
<1>5. QED BY <1>1, <1>2, <1>3, <1>4 DEF Next

-----------------------------------------------------------------------------
(* Files and times after a step.                                           *)
LEMMA FilesAfter ==
  ASSUME InboxInv, Step
  PROVE  FilesInv' /\ TimesInv'
<1>1. FilesInv'
  <2>1. \A m \in Messages : file'[m] \in GoodFile \cup {NoFile}  BY DEF Step, Evolves
  <2>2. QED BY <2>1 DEF FilesInv, Step, TimesStep
<1>2. ASSUME NEW m \in Messages, file'[m] # NoFile
      PROVE  m \in known' /\ file'[m].age <= sent'[m]
  <2>1. sent'[m] \in Nat  BY Constants DEF Step, TimesStep, Unsent
  <2>2. file[m] \in GoodFile => m \in known
    BY NoFileIsNone DEF InboxInv, TimesInv, GoodFile
  <2>3. QED BY <1>2, <2>1, <2>2 DEF Step, TimesStep, Evolves
<1>3. ASSUME NEW m \in known', file'[m] = NoFile
      PROVE  sent'[m] > Keep
  <2>1. m \in Messages /\ (m \in known => sent'[m] >= sent[m])  BY DEF Step, TimesStep
  <2>2. sent'[m] \in Nat /\ sent[m] \in Nat
    BY <2>1, Constants DEF Step, TimesStep, InboxInv, TimesInv, Unsent
  <2>3. Evolves(m)  BY <2>1 DEF Step
  <2>4. NoFile \notin GoodFile  BY NoFileIsNone DEF GoodFile
  <2>5. CASE file[m] = NoFile /\ m \in known
    BY <2>5, <2>1, <2>2, Constants DEF InboxInv, TimesInv
  <2>6. CASE file[m] \in GoodFile /\ file[m].age > Keep
    <3>1. m \in known /\ file[m].age <= sent[m] /\ file[m].age \in Nat
      BY <2>1, <2>4, <2>6, Constants DEF InboxInv, TimesInv, GoodFile, FileRecord
    <3>2. QED BY <3>1, <2>6, <2>1, <2>2, Constants
  <2>7. QED BY <1>3, <2>3, <2>4, <2>5, <2>6 DEF Evolves
<1>4. TimesInv'
  BY <1>2, <1>3 DEF TimesInv, Step, TimesStep
<1>5. QED BY <1>1, <1>4

(* A claim that is held stays one that was made.                           *)
LEMMA HeldAfter ==
  ASSUME InboxInv, Step, NEW w \in Holding, w.m \in known,
         file[w.m] # NoFile => w.item.attempts <= file[w.m].attempts
  PROVE  /\ w.m \in known'
         /\ file'[w.m] # NoFile => w.item.attempts <= file'[w.m].attempts
<1>1. w.m \in Messages /\ w.item.attempts \in Nat
  BY Constants DEF Holding, FileRecord
<1>2. Evolves(w.m)  BY <1>1 DEF Step
<1>3. NoFile \notin GoodFile /\ \A f \in GoodFile : f.attempts \in Nat
  BY NoFileIsNone, Constants DEF GoodFile, FileRecord
<1>4. QED BY <1>1, <1>2, <1>3 DEF Evolves, Step, TimesStep

(* Claims and turns after a step in which the workers keep or drop what    *)
(* they hold.                                                              *)
LEMMA ClaimsAfter ==
  ASSUME InboxInv, Step, worker' \in [Gates -> Holding \cup {Idle}],
         \A g \in Gates : worker'[g] # Idle =>
           /\ worker[g] # Idle
           /\ worker'[g].m = worker[g].m /\ worker'[g].item = worker[g].item
  PROVE  ClaimsInv' /\ OneTurnPerClaim'
<1>1. \A w \in Holding : w # Idle /\ w.pc # "idle"  BY DEF Holding, Idle
<1>2. Idle.pc = "idle"  BY DEF Idle
<1>3. ASSUME NEW g \in Gates, worker'[g] # Idle
      PROVE  /\ worker'[g].m \in known'
             /\ file'[worker'[g].m] # NoFile
                  => worker'[g].item.attempts <= file'[worker'[g].m].attempts
  <2> DEFINE w == worker[g]
  <2>1. w \in Holding /\ w.m \in known
        /\ (file[w.m] # NoFile => w.item.attempts <= file[w.m].attempts)
    BY <1>3 DEF InboxInv, ClaimsInv
  <2>2. worker'[g].m = w.m /\ worker'[g].item = w.item  BY <1>3
  <2> HIDE DEF w
  <2>3. QED BY <2>1, <2>2, HeldAfter
<1>4. ClaimsInv'  BY <1>3 DEF ClaimsInv
<1>5. OneTurnPerClaim'
  <2> SUFFICES ASSUME NEW g \in Gates, NEW h \in Gates, g # h, worker'[g].pc # "idle",
                      worker'[h].pc # "idle", worker'[g].m = worker'[h].m
               PROVE  worker'[g].item.attempts # worker'[h].item.attempts
    BY DEF OneTurnPerClaim
  <2>1. worker'[g] # Idle /\ worker'[h] # Idle  BY <1>2
  <2>2. /\ worker[g].pc # "idle" /\ worker'[g].m = worker[g].m /\ worker'[g].item = worker[g].item
        /\ worker[h].pc # "idle" /\ worker'[h].m = worker[h].m /\ worker'[h].item = worker[h].item
    BY <2>1, <1>1 DEF InboxInv, ClaimsInv
  <2>3. QED BY <2>2 DEF InboxInv, OneTurnPerClaim
<1>6. QED BY <1>4, <1>5

(* A new claim has a number that no claim of the message had before.       *)
LEMMA ClaimsAfterClaim ==
  ASSUME InboxInv, Step, NEW g \in Gates, worker[g].pc = "idle", NEW m \in Stored,
         Claimable(file[m]), file'[m] = Claimed(file[m]), known' = known,
         worker' = [worker EXCEPT ![g] = [pc |-> "handling", m |-> m, item |-> Claimed(file[m])]]
  PROVE  ClaimsInv' /\ OneTurnPerClaim'
<1>1. \A w \in Holding : w # Idle /\ w.pc # "idle"  BY DEF Holding, Idle
<1>2. m \in Messages /\ file[m] # NoFile /\ file[m] \in GoodFile /\ m \in known
  BY DEF Stored, InboxInv, FilesInv, TimesInv
<1>3. Claimed(file[m]) \in FileRecord /\ Claimed(file[m]).attempts = file[m].attempts + 1
  BY <1>2, ClaimedGood DEF GoodFile
<1>4. file[m].attempts \in Nat  BY <1>2, Constants DEF GoodFile, FileRecord
<1> DEFINE c == Claimed(file[m])
           w == [pc |-> "handling", m |-> m, item |-> c]
<1>5. w \in Holding /\ w.m = m /\ w.item = c /\ w.pc = "handling"  BY <1>2, <1>3 DEF Holding
<1>6. worker \in [Gates -> Holding \cup {Idle}] /\ worker' = [worker EXCEPT ![g] = w]
  BY DEF InboxInv, ClaimsInv
<1>7. file'[m] = c /\ c.attempts = file[m].attempts + 1  BY <1>3
<1> HIDE DEF w, c
<1>8. worker' \in [Gates -> Holding \cup {Idle}] /\ worker'[g] = w
      /\ \A h \in Gates : h # g => worker'[h] = worker[h]
  BY <1>5, <1>6
<1>9. ASSUME NEW h \in Gates, worker'[h] # Idle
      PROVE  /\ worker'[h].m \in known'
             /\ file'[worker'[h].m] # NoFile
                  => worker'[h].item.attempts <= file'[worker'[h].m].attempts
  <2>1. CASE h = g
    BY <2>1, <1>2, <1>4, <1>5, <1>7, <1>8
  <2>2. CASE h # g
    <3> DEFINE u == worker[h]
    <3>1. worker'[h] = u /\ u \in Holding /\ u.m \in known
          /\ (file[u.m] # NoFile => u.item.attempts <= file[u.m].attempts)
      BY <1>8, <1>9, <2>2 DEF InboxInv, ClaimsInv
    <3> HIDE DEF u
    <3>2. QED BY <3>1, HeldAfter
  <2>3. QED BY <2>1, <2>2
<1>10. ClaimsInv'  BY <1>8, <1>9 DEF ClaimsInv
<1>11. ASSUME NEW h \in Gates, h # g, worker[h].pc # "idle", worker[h].m = m
       PROVE  worker[h].item.attempts # c.attempts
  <2>1. worker[h] # Idle /\ worker[h] \in Holding  BY <1>6, <1>11 DEF Idle
  <2>2. worker[h].item.attempts <= file[m].attempts
    BY <1>2, <1>11, <2>1 DEF InboxInv, ClaimsInv
  <2>3. worker[h].item.attempts \in Nat  BY <2>1, Constants DEF Holding, FileRecord
  <2>4. QED BY <2>2, <2>3, <1>4, <1>7
<1>12. OneTurnPerClaim'
  <2> SUFFICES ASSUME NEW i \in Gates, NEW h \in Gates, i # h, worker'[i].pc # "idle",
                      worker'[h].pc # "idle", worker'[i].m = worker'[h].m
               PROVE  worker'[i].item.attempts # worker'[h].item.attempts
    BY DEF OneTurnPerClaim
  <2>1. CASE i = g  BY <2>1, <1>5, <1>8, <1>11
  <2>2. CASE h = g  BY <2>2, <1>5, <1>8, <1>11
  <2>3. CASE i # g /\ h # g  BY <2>3, <1>8 DEF InboxInv, OneTurnPerClaim
  <2>4. QED BY <2>1, <2>2, <2>3
<1>13. QED BY <1>10, <1>12

(* The directory never holds more than it may.                             *)
LEMMA RoomAfter ==
  ASSUME InboxInv, Stored' \subseteq Stored
  PROVE  RoomInv'
<1>1. IsFiniteSet(Stored)  BY Constants, FS_Subset DEF Stored
<1>2. Cardinality(Stored') <= Cardinality(Stored) /\ IsFiniteSet(Stored')  BY <1>1, FS_Subset
<1>3. Cardinality(Stored) \in Nat /\ Cardinality(Stored') \in Nat  BY <1>1, <1>2, FS_CardinalityType
<1>4. QED BY <1>2, <1>3, Constants DEF InboxInv, RoomInv

(* enqueue counts before every file it writes.                             *)
LEMMA RoomAfterWebhook ==
  ASSUME InboxInv, NEW batch \in SUBSET Messages, NEW written \in SUBSET batch,
         Webhook(batch, written)
  PROVE  RoomInv'
<1>1. \A m \in Messages : file'[m] = IF m \in written THEN NewFile ELSE file[m]
  BY DEF Webhook, Enqueue
<1>2. NewFile # NoFile  BY NewFileGood, NoFileIsNone DEF GoodFile
<1>3. Stored' = Stored \cup written  BY <1>1, <1>2 DEF Stored
<1>4. CASE written = {}  BY <1>3, <1>4, RoomAfter
<1>5. CASE written # {}
  <2>1. PICK last \in written : ~Full(Stored \cup (written \ {last}))
    BY <1>5 DEF Webhook, Enqueue
  <2> DEFINE before == Stored \cup (written \ {last})
  <2>2. IsFiniteSet(before)
    <3>1. before \subseteq Messages  BY DEF Stored
    <3>2. QED BY <3>1, Constants, FS_Subset
  <2>3. Cardinality(before) \in Nat  BY <2>2, FS_CardinalityType
  <2>4. Cardinality(before) + 1 <= Capacity  BY <2>1, <2>3, Constants DEF Full
  <2>5. Stored' = before \cup {last}  BY <1>3
  <2>6. Cardinality(before \cup {last}) \in {Cardinality(before), Cardinality(before) + 1}
    BY <2>2, FS_AddElement
  <2> HIDE DEF before
  <2>7. QED BY <2>3, <2>4, <2>5, <2>6, Constants DEF RoomInv
<1>6. QED BY <1>4, <1>5

-----------------------------------------------------------------------------
(* An empty directory satisfies the invariant.                             *)
LEMMA InvInit == Init => InboxInv
<1> SUFFICES ASSUME Init  PROVE InboxInv  OBVIOUS
<1>1. FilesInv  BY DEF Init, FilesInv
<1>2. TimesInv  BY Constants DEF Init, TimesInv, Unsent
<1>3. ClaimsInv  BY DEF Init, ClaimsInv
<1>4. RoomInv
  <2>1. Stored = {}  BY DEF Init, Stored
  <2>2. QED BY <2>1, FS_EmptySet, Constants DEF RoomInv
<1>5. OneTurnPerClaim  BY DEF Init, OneTurnPerClaim, Idle
<1>6. QED BY <1>1, <1>2, <1>3, <1>4, <1>5 DEF InboxInv

(* Every step keeps the invariant.                                         *)
LEMMA InvNext ==
  ASSUME InboxInv, [Next]_vars
  PROVE  InboxInv'
<1>1. Step  BY EveryStep
<1>2. FilesInv' /\ TimesInv'  BY <1>1, FilesAfter
<1>3. /\ worker \in [Gates -> Holding \cup {Idle}] /\ file \in [Messages -> GoodFile \cup {NoFile}]
      /\ NoFile \notin GoodFile
      /\ \A w \in Holding : w # Idle
  BY NoFileIsNone DEF InboxInv, ClaimsInv, FilesInv, GoodFile, Holding, Idle
<1>4. CASE UNCHANGED vars
  <2>1. ClaimsInv' /\ OneTurnPerClaim'  BY <1>1, <1>3, <1>4, ClaimsAfter DEF vars
  <2>2. RoomInv'  BY <1>4, RoomAfter DEF vars, Stored
  <2>3. QED BY <1>2, <2>1, <2>2 DEF InboxInv
<1>5. CASE Tick
  <2>1. ClaimsInv' /\ OneTurnPerClaim'  BY <1>1, <1>3, <1>5, ClaimsAfter DEF Tick
  <2>2. Stored' \subseteq Stored  BY <1>5 DEF Tick, Stored
  <2>3. QED BY <1>2, <2>1, <2>2, RoomAfter DEF InboxInv
<1>6. ASSUME NEW batch \in SUBSET Messages, NEW written \in SUBSET batch, Webhook(batch, written)
      PROVE  InboxInv'
  <2>1. ClaimsInv' /\ OneTurnPerClaim'  BY <1>1, <1>3, <1>6, ClaimsAfter DEF Webhook
  <2>2. QED BY <1>2, <1>6, <2>1, RoomAfterWebhook DEF InboxInv
<1>7. ASSUME NEW g \in Gates, ClaimMessage(g)
      PROVE  InboxInv'
  <2>1. CASE /\ file' = [x \in Messages |-> IF x \in Stored THEN Visited(file[x]) ELSE NoFile]
             /\ UNCHANGED worker
    <3>1. ClaimsInv' /\ OneTurnPerClaim'  BY <1>1, <1>3, <2>1, ClaimsAfter
    <3>2. Stored' \subseteq Stored  BY <2>1 DEF Stored
    <3>3. QED BY <1>2, <3>1, <3>2, RoomAfter DEF InboxInv
  <2>2. ASSUME NEW m \in Stored, NEW before \in SUBSET (Stored \ {m}), Claimable(file[m]),
               file' = [x \in Messages |-> IF x = m THEN Claimed(file[m])
                                          ELSE IF x \in before THEN Visited(file[x])
                                          ELSE file[x]],
               worker' = [worker EXCEPT ![g] =
                 [pc |-> "handling", m |-> m, item |-> Claimed(file[m])]]
        PROVE  InboxInv'
    <3>1. file'[m] = Claimed(file[m])  BY <2>2 DEF Stored
    <3>2. known' = known /\ worker[g].pc = "idle"  BY <1>7 DEF ClaimMessage
    <3>3. ClaimsInv' /\ OneTurnPerClaim'  BY <1>1, <2>2, <3>1, <3>2, ClaimsAfterClaim
    <3>4. Stored' \subseteq Stored  BY <2>2 DEF Stored
    <3>5. QED BY <1>2, <3>3, <3>4, RoomAfter DEF InboxInv
  <2>3. QED BY <1>7, <2>1, <2>2 DEF ClaimMessage
<1>8. ASSUME NEW g \in Gates, HandleInbound(g)
      PROVE  InboxInv'
  <2>1. PICK retry \in BOOLEAN :
          worker' = [worker EXCEPT ![g] = [pc |-> "finishing", m |-> worker[g].m,
                                           item |-> worker[g].item, retry |-> retry]]
    BY <1>8 DEF HandleInbound
  <2> DEFINE w == [pc |-> "finishing", m |-> worker[g].m, item |-> worker[g].item,
                   retry |-> retry]
  <2>2. worker[g] \in Holding  BY <1>3, <1>8 DEF HandleInbound, Idle
  <2>3. w \in Holding /\ w.m = worker[g].m /\ w.item = worker[g].item
    BY <2>2 DEF Holding
  <2>4. worker' = [worker EXCEPT ![g] = w]  BY <2>1
  <2> HIDE DEF w
  <2>5. worker' \in [Gates -> Holding \cup {Idle}]
        /\ \A h \in Gates : worker'[h] = IF h = g THEN w ELSE worker[h]
    BY <1>3, <2>3, <2>4
  <2>6. ClaimsInv' /\ OneTurnPerClaim'  BY <1>1, <1>3, <2>2, <2>3, <2>5, ClaimsAfter
  <2>7. Stored' \subseteq Stored  BY <1>8 DEF HandleInbound, Stored
  <2>8. QED BY <1>2, <2>6, <2>7, RoomAfter DEF InboxInv
<1>9. ASSUME NEW g \in Gates, FinishMessage(g) \/ Crash(g)
      PROVE  InboxInv'
  <2>1. worker' = [worker EXCEPT ![g] = Idle]  BY <1>9 DEF FinishMessage, Crash
  <2>2. worker' \in [Gates -> Holding \cup {Idle}]
        /\ \A h \in Gates : worker'[h] = IF h = g THEN Idle ELSE worker[h]
    BY <1>3, <2>1
  <2>3. ClaimsInv' /\ OneTurnPerClaim'
    <3>1. \A h \in Gates : worker'[h] # Idle =>
            worker[h] # Idle /\ worker'[h].m = worker[h].m /\ worker'[h].item = worker[h].item
      BY <2>2
    <3>2. QED BY <1>1, <2>2, <3>1, ClaimsAfter
  <2>4. \A m \in Messages : file[m] = NoFile => file'[m] = NoFile
    BY <1>3, <1>9 DEF FinishMessage, Crash
  <2>5. Stored' \subseteq Stored  BY <2>4 DEF Stored
  <2>6. QED BY <1>2, <2>3, <2>5, RoomAfter DEF InboxInv
<1>10. QED BY <1>4, <1>5, <1>6, <1>7, <1>8, <1>9 DEF Next

(* The inductive invariant holds throughout every behaviour.               *)
THEOREM InboxInvariance == Spec => []InboxInv
  BY InvInit, InvNext, PTL DEF Spec

(* The files are well formed and within the capacity of the directory, a   *)
(* claim has at most one worker, and an unfinished message its payload     *)
(* (InboxIsSound), whatever the provider sends and whichever processes     *)
(* crash in the middle of a turn.                                          *)
THEOREM InboxStaysSound == Spec => []InboxIsSound
<1>1. InboxInv => InboxIsSound
  <2> SUFFICES ASSUME InboxInv  PROVE InboxIsSound  OBVIOUS
  <2>1. \A m \in Stored : file[m] \in GoodFile  BY DEF InboxInv, FilesInv, Stored
  <2>2. InboxTypeOK
    BY <2>1 DEF InboxInv, RoomInv, TimesInv, InboxTypeOK, GoodFile, FileRecord
  <2>3. PayloadIsKept  BY <2>1 DEF PayloadIsKept, GoodFile, FileRecord
  <2>4. QED BY <2>2, <2>3 DEF InboxInv, InboxIsSound
<1>2. QED BY <1>1, InboxInvariance, PTL

-----------------------------------------------------------------------------
(* A worker that lost its claim does not own it when it finishes.          *)
LEMMA LateFinish ==
  ASSUME InboxInv, [Next]_vars, NEW g \in Gates, worker[g].pc = "finishing",
         worker'[g].pc = "idle", NEW h \in Gates, worker[h].pc # "idle",
         worker[h].m = worker[g].m, worker[h].item.attempts > worker[g].item.attempts
  PROVE  file' = file
<1>1. /\ worker[g] \in Holding /\ worker[h] \in Holding /\ worker[h] # Idle
      /\ worker \in [Gates -> Holding \cup {Idle}]
  BY DEF InboxInv, ClaimsInv, Idle
<1>2. worker[g].item.attempts \in Nat /\ worker[h].item.attempts \in Nat
  BY <1>1, Constants DEF Holding, FileRecord
<1>3. file[worker[g].m] # NoFile =>
        /\ worker[h].item.attempts <= file[worker[g].m].attempts
        /\ file[worker[g].m].attempts \in Nat
  <2>1. worker[g].m \in Messages  BY <1>1 DEF Holding
  <2>2. QED BY <1>1, <2>1, Constants DEF InboxInv, ClaimsInv, FilesInv, GoodFile, FileRecord
<1>4. file[worker[g].m] # NoFile => ~OwnClaim(file[worker[g].m], worker[g].item)
  BY <1>2, <1>3 DEF OwnClaim
<1>5. CASE UNCHANGED worker  BY <1>5
<1>6. ASSUME NEW i \in Gates, ClaimMessage(i) \/ HandleInbound(i) \/ FinishMessage(i) \/ Crash(i),
             worker' # worker
      PROVE  file' = file
  <2>1. \A x \in Gates : x # i => worker'[x] = worker[x]
    BY <1>1, <1>6 DEF ClaimMessage, HandleInbound, FinishMessage, Crash
  <2>2. i = g  BY <2>1
  <2>3. ~ClaimMessage(i)  BY <2>2 DEF ClaimMessage
  <2>4. CASE FinishMessage(g)  BY <2>4, <1>4 DEF FinishMessage
  <2>5. QED BY <1>6, <2>2, <2>3, <2>4 DEF HandleInbound, Crash
<1>7. QED BY <1>5, <1>6 DEF Next, Tick, Webhook, vars

(* A worker whose claim was taken over changes nothing when it finishes,   *)
(* and a message with a live claim is not claimed again                    *)
(* (ClaimsAreRespected).                                                   *)
THEOREM ClaimsStayRespected == Spec => ClaimsAreRespected
<1>1. InboxInv /\ [Next]_vars =>
        [\A g \in Gates :
           worker[g].pc = "finishing" /\ worker'[g].pc = "idle"
             /\ (\E h \in Gates : /\ worker[h].pc # "idle" /\ worker[h].m = worker[g].m
                                  /\ worker[h].item.attempts > worker[g].item.attempts)
           => file' = file]_vars
  BY LateFinish
<1>2. InboxInv /\ [Next]_vars =>
        [\A m \in Messages :
           file[m] # NoFile /\ file'[m] # NoFile /\ file[m].status = "running"
             /\ file[m].lease > 0
           => file'[m].attempts = file[m].attempts]_vars
  <2> SUFFICES ASSUME InboxInv, [Next]_vars, NEW m \in Messages, file[m] # NoFile,
                      file'[m] # NoFile, file[m].status = "running", file[m].lease > 0
               PROVE  file'[m].attempts = file[m].attempts
    OBVIOUS
  <2>1. Evolves(m)  BY EveryStep DEF Step
  <2>2. QED BY <2>1 DEF Evolves
<1>3. QED
  BY <1>1, <1>2, InboxInvariance, PTL
  DEF Spec, ClaimsAreRespected, LateFinishIsIgnored, LeaseIsRespected

(* The inbox implements the durable inbox of InboxPromise (KeepsPromise):  *)
(* a message is stored once, settled once and for good, however often the  *)
(* provider hands it in, and acknowledged only when it is stored.          *)
THEOREM InboxKeepsPromise == Spec => KeepsPromise
<1>1. Init => Promise!Init
  BY DEF Init, Promise!Init, State
<1>2. InboxInv /\ [Next]_vars => [Promise!Next]_(Promise!promise)
  <2> SUFFICES ASSUME InboxInv, [Next]_vars  PROVE Promise!Next
    OBVIOUS
  <2>1. Step /\ InboxInv'  BY EveryStep, InvNext
  <2>2. State' \in [Messages -> {"new", "held", "settled"}]  BY DEF State
  <2>3. ASSUME NEW m \in Messages, State'[m] # State[m]
        PROVE  <<State[m], State'[m]>> \in {<<"new", "held">>, <<"held", "settled">>}
    <3>1. Evolves(m) /\ (m \in known => m \in known') /\ NoFile \notin GoodFile
      BY <2>1, NoFileIsNone DEF Step, TimesStep, GoodFile
    <3>2. State[m] = (IF file[m] # NoFile
                      THEN IF file[m].status = "done" THEN "settled" ELSE "held"
                      ELSE IF m \in known THEN "settled" ELSE "new")
      BY DEF State
    <3>3. State'[m] = (IF file'[m] # NoFile
                       THEN IF file'[m].status = "done" THEN "settled" ELSE "held"
                       ELSE IF m \in known' THEN "settled" ELSE "new")
      BY DEF State
    <3>4. file[m] # NoFile => m \in known  BY DEF InboxInv, TimesInv
    <3>5. QED BY <2>3, <3>1, <3>2, <3>3, <3>4 DEF Evolves
  <2>4. accepted \subseteq accepted' /\ accepted' \subseteq Messages /\ accepted' \subseteq known'
    BY <2>1 DEF Step, TimesStep
  <2>5. \A m \in accepted' : State'[m] # "new"  BY <2>4 DEF State
  <2>6. QED BY <2>2, <2>3, <2>4, <2>5
        DEF Promise!Next, Promise!Advance, Promise!Acknowledge, Promise!Order
<1>3. QED BY <1>1, <1>2, InboxInvariance, PTL DEF Spec, KeepsPromise, Promise!Spec
=============================================================================
