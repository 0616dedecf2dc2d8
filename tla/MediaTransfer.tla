---------------------------- MODULE MediaTransfer ----------------------------
(* How HarborGate fetches camera media into its attachment cache and asks a    *)
(* home for permission (harborbeacon.rs), and the directory the cache lives in *)
(* (AttachmentCacheRoot and AttachmentCacheGuard in gateway.rs).               *)
(*                                                                             *)
(* Bytes are counted in units: a range asks for Chunk of them and no file may  *)
(* be longer than MaxBytes.  A file is its length, the total lengths its parts *)
(* were said to belong to, and whether a part lies at another place than it    *)
(* was taken from.  The home may answer anything it likes except that it hands *)
(* out media, or permits a message, only while it consents.                    *)
EXTENDS Integers, Sequences, FiniteSets, FiniteSetsExt

CONSTANTS Ids,         \* what the home consents to: camera media and message bindings
          Chunk,       \* CHUNK of download_remote_media_artifact
          MaxBytes,    \* the longest attachment
          Totals,      \* the lengths a home reports
          ArtifactLists, \* the lists of artifacts a call may be given
          MaxCalls, MaxFaults

Artifact == [id : Ids, mime : {"good", "bad"}, url : {"good", "bad", "none"}]

ASSUME MediaAssumption ==
    /\ {Chunk, MaxBytes, MaxCalls, MaxFaults} \subseteq Nat /\ Chunk >= 1 /\ MaxBytes >= Chunk
    /\ Totals \subseteq Nat
    /\ ArtifactLists \subseteq Seq(Artifact)

VARIABLES visible,     \* what the cache path names: "none", "ours", "other" or "link"
          handle,      \* the directory opened at startup, {} before
          consent,     \* the ids the home consents to now
          disk, dirs,  \* files (named <<transfer, artifact>>) and batch directories under handle
          kept,        \* the files the ledger has recorded as an item's attachment
          stuck,       \* files and directories whose removal failed
          transfer,    \* the call in progress, see NoTransfer
          transfers, faults

mediaVars == <<visible, handle, consent, disk, dirs, kept, stuck, transfer, transfers, faults>>

File == [len : 0..MaxBytes + 1, of : SUBSET Totals, torn : BOOLEAN]
Empty == [len |-> 0, of |-> {}, torn |-> FALSE]

(* A call: what it does, over the relay or to the local HarborBeacon, how far  *)
(* it is, and MaterializedAttachmentBatch.  asked is the consent when it began *)
(* and refused whether the home, or the call's own input, said no.             *)
NoTransfer == [does |-> "nothing", relay |-> FALSE, list |-> <<>>, pc |-> "idle", i |-> 1,
           total |-> {}, left |-> 0, files |-> {}, dir |-> FALSE, failed |-> 0,
           attached |-> {}, verdict |-> "none", asked |-> {}, refused |-> FALSE]

MediaInit ==
    /\ visible \in {"none", "ours", "link"} /\ handle = {}
    /\ consent = Ids /\ disk = <<>> /\ dirs = {} /\ kept = {} /\ stuck = {}
    /\ transfer = NoTransfer /\ transfers = 0 /\ faults = 0

Cache == <<visible, handle, dirs, kept, stuck>>
Fault == faults < MaxFaults /\ faults' = faults + 1

-----------------------------------------------------------------------------
(* The cache directory.                                                        *)

(* AttachmentCacheRoot::open makes the directory and then opens it, without    *)
(* following a link; anyone with access to the disk may replace it meanwhile.  *)
CreateRoot ==
    /\ handle = {} /\ visible = "none"
    /\ visible' = "ours"
    /\ UNCHANGED <<handle, consent, disk, dirs, kept, stuck, transfer, transfers, faults>>

OpenRoot ==
    /\ handle = {} /\ visible \in {"ours", "other"}
    /\ handle' = {visible}
    /\ UNCHANGED <<visible, consent, disk, dirs, kept, stuck, transfer, transfers, faults>>

RootReplaced ==
    /\ Fault
    /\ visible' \in {"other", "link"} \ {visible}
    /\ UNCHANGED <<handle, consent, disk, dirs, kept, stuck, transfer, transfers>>

(* create_dir and create_new_file insist that the path still names the opened  *)
(* directory; remove_file and remove_dir work on the opened one regardless.    *)
EnsureVisibleRoot == handle = {visible}
MayRemoveVisible == EnsureVisibleRoot
MayRemove == TRUE

FileName == <<transfers, transfer.i>>
Without(names) == [n \in DOMAIN disk \ names |-> disk[n]]

(* The names that are gone after removing what there is of them: all, or none  *)
(* of one that could not be removed.                                           *)
Removes(names, gone) ==
    /\ IF MayRemove
       THEN \/ gone = names /\ UNCHANGED <<stuck, faults>>
            \/ \E n \in names \cap DOMAIN disk :
                  gone = names \ {n} /\ stuck' = stuck \cup {n} /\ Fault
       ELSE gone = {} /\ UNCHANGED <<stuck, faults>>
    /\ disk' = Without(gone)

(* remove_dir: a directory that still holds a file stays.                      *)
RemoveDir(c, left) == dirs' = IF \E n \in left : n[1] = c THEN dirs ELSE dirs \ {c}

-----------------------------------------------------------------------------
(* Beginning a call.                                                           *)

Begin(does, relay, list) ==
    /\ transfer = NoTransfer /\ handle # {} /\ transfers < MaxCalls
    /\ does = "whatsapp" => Len(list) = 1
    /\ transfers' = transfers + 1
    /\ transfer' = [NoTransfer EXCEPT !.does = does, !.relay = relay, !.list = list,
                              !.asked = consent, !.pc = "next"]
    /\ UNCHANGED <<Cache, consent, disk, faults>>

This == transfer.list[transfer.i]
Step(upd) == transfer' = upd /\ UNCHANGED <<visible, handle, consent, kept, transfers>>

-----------------------------------------------------------------------------
(* materialize_attachments_in: one artifact after another.                     *)

(* The artifact is over: its partial file is removed and it is counted as      *)
(* failed, or it joins the batch.                                              *)
After(upd) == [upd EXCEPT !.i = @ + 1, !.pc = "next", !.total = {}, !.left = 0]
ArtifactFails ==
    \E gone \in SUBSET {FileName} :
        /\ Removes({FileName}, gone)
        /\ Step(After([transfer EXCEPT !.failed = @ + 1]))
ArtifactDone(file) ==
    /\ disk' = [disk EXCEPT ![FileName] = file]
    /\ Step(After([transfer EXCEPT !.files = @ \cup {FileName}, !.attached = @ \cup {transfer.i}]))

Materializing == transfer.does = "materialize" /\ transfer.i <= Len(transfer.list)

PrepareArtifact ==
    /\ Materializing /\ transfer.pc = "next"
    /\ \/ /\ This.mime = "bad"
          /\ Step(After([transfer EXCEPT !.failed = @ + 1]))
          /\ UNCHANGED <<dirs, disk, stuck, faults>>
       \/ /\ This.mime = "good"
          /\ \/ ~EnsureVisibleRoot /\ UNCHANGED faults
             \/ Fault
          /\ Step(After([transfer EXCEPT !.dir = TRUE, !.failed = @ + 1]))
          /\ UNCHANGED <<dirs, disk, stuck>>
       \/ /\ This.mime = "good" /\ EnsureVisibleRoot
          /\ dirs' = dirs \cup {transfers}
          /\ Step([transfer EXCEPT !.dir = TRUE, !.pc = "fetch"])
          /\ UNCHANGED <<disk, stuck, faults>>

(* create_new_file for the artifact, over the relay before the first range and *)
(* locally once HarborBeacon's answer has been looked at.                      *)
CreateNewFile(upd) ==
    \/ /\ EnsureVisibleRoot
       /\ disk' = [n \in DOMAIN disk \cup {FileName} |-> IF n = FileName THEN Empty ELSE disk[n]]
       /\ Step(upd) /\ UNCHANGED <<dirs, stuck, faults>>
    \/ /\ ~EnsureVisibleRoot
       /\ ArtifactFails /\ UNCHANGED dirs

DownloadRemote ==
    /\ Materializing /\ transfer.pc = "fetch" /\ transfer.relay
    /\ IF This.url = "good" THEN CreateNewFile([transfer EXCEPT !.pc = "range"])
       ELSE ArtifactFails /\ UNCHANGED dirs

(* An answer to a range request, as decode_remote_media gets it from the       *)
(* relay; sound says that the payload matches its own length and digest.       *)
Answers(id) ==
    [status : {"refused", "failing"} \cup (IF id \in consent THEN {"200", "206"} ELSE {}),
     total : Totals, at : 0..MaxBytes, mime : {"good", "bad"}, len : 0..Chunk, sound : BOOLEAN]

DecodedShort(a, offset, end) ==
    /\ a.status \in {"200", "206"} /\ a.total > offset /\ a.total <= MaxBytes /\ a.at = offset
    /\ a.mime = "good" /\ a.len <= Min({end + 1, a.total}) - offset /\ a.sound
Decoded(a, offset, end) ==
    /\ a.status \in {"200", "206"}
    /\ a.total > offset /\ a.total <= MaxBytes
    /\ a.at = offset
    /\ a.status = "200" => offset = 0 /\ a.total <= end + 1
    /\ a.mime = "good"
    /\ a.len = Min({end + 1, a.total}) - offset
    /\ a.sound


RangeEnd(offset) == Min({offset + Chunk - 1, MaxBytes - 1})
SameTotal(a) == transfer.total \subseteq {a.total}

RangeRequest ==
    /\ Materializing /\ transfer.pc = "range"
    /\ Step([transfer EXCEPT !.pc = "asked"])
    /\ UNCHANGED <<disk, dirs, stuck, faults>>

(* One turn of the loop: a refused, late or unfit answer, or the next part.    *)
RangeFails ==
    /\ Materializing /\ transfer.pc = "asked"
    /\ ArtifactFails /\ UNCHANGED dirs

RangeArrives ==
    /\ Materializing /\ transfer.pc = "asked"
    /\ \E a \in Answers(This.id) :
        LET offset == disk[FileName].len
            file == [len |-> offset + a.len, of |-> disk[FileName].of \cup {a.total},
                     torn |-> disk[FileName].torn \/ a.at # offset]
        IN /\ Decoded(a, offset, RangeEnd(offset)) /\ SameTotal(a)
           /\ IF file.len = a.total THEN ArtifactDone(file)
              ELSE /\ disk' = [disk EXCEPT ![FileName] = file]
                   /\ Step([transfer EXCEPT !.total = {a.total}, !.pc = "range"])
    /\ UNCHANGED <<dirs, stuck, faults>>

(* download_media_artifact: one answer of HarborBeacon, its length declared    *)
(* beforehand or not, streamed into the file.                                  *)
GetLocal ==
    /\ Materializing /\ transfer.pc = "fetch" /\ ~transfer.relay
    /\ \/ ArtifactFails /\ UNCHANGED dirs      \* untrusted URL, no token, an outage or a refusal
       \/ \E n \in Totals, declared, sameMime \in BOOLEAN :
            /\ This.url = "good" /\ This.id \in consent
            /\ IF sameMime /\ (declared => n <= MaxBytes)
               THEN CreateNewFile([transfer EXCEPT !.pc = "stream", !.total = {n}, !.left = n])
               ELSE ArtifactFails /\ UNCHANGED dirs

WithinLimit(written) == written <= MaxBytes

StreamArrives ==
    /\ Materializing /\ transfer.pc = "stream" /\ transfer.left > 0
    /\ \E n \in 1..Min({transfer.left, Chunk}) :
        LET file == [disk[FileName] EXCEPT !.len = @ + n, !.of = transfer.total]
        IN IF WithinLimit(file.len)
           THEN /\ disk' = [disk EXCEPT ![FileName] = file]
                /\ Step([transfer EXCEPT !.left = @ - n])
                /\ UNCHANGED <<dirs, stuck, faults>>
           ELSE ArtifactFails /\ UNCHANGED dirs

StreamEnds ==
    /\ Materializing /\ transfer.pc = "stream" /\ transfer.left = 0
    /\ \/ disk[FileName].len > 0 /\ ArtifactDone(disk[FileName]) /\ UNCHANGED <<dirs, stuck, faults>>
       \/ disk[FileName].len = 0 /\ ArtifactFails /\ UNCHANGED dirs

(* The body breaks off, the request's own time is over, or the disk is full.   *)
StreamFails ==
    /\ Materializing /\ transfer.pc = "stream"
    /\ ArtifactFails /\ UNCHANGED dirs

(* The end of the batch: one failure undoes all of it.                         *)
MustUndo == transfer.failed > 0

FinishBatch ==
    /\ transfer.does = "materialize" /\ transfer.i > Len(transfer.list) /\ transfer.pc = "next"
    /\ \E gone \in SUBSET transfer.files :
        /\ IF MustUndo THEN Removes(transfer.files, gone)
           ELSE gone = {} /\ UNCHANGED <<disk, stuck, faults>>
        /\ LET files == IF MustUndo THEN {} ELSE transfer.files
           IN /\ IF files = {} /\ transfer.dir
                 THEN RemoveDir(transfers, DOMAIN disk') ELSE UNCHANGED dirs
              /\ Step([transfer EXCEPT !.files = files, !.pc = "done",
                                   !.attached = IF MustUndo THEN {} ELSE @,
                                   !.dir = @ /\ files # {}])

(* materialize_delivery_item: the guard holds the batch until the ledger has   *)
(* recorded its one attachment, and else removes it.                           *)
KeepAttachment ==
    /\ transfer.does = "materialize" /\ transfer.pc = "done"
    /\ transfer.failed = 0 /\ Cardinality(transfer.attached) = 1
    /\ kept' = kept \cup transfer.files
    /\ transfer' = NoTransfer
    /\ UNCHANGED <<visible, handle, dirs, stuck, consent, disk, transfers, faults>>

DropGuard ==
    /\ transfer.does = "materialize" /\ transfer.pc = "done"
    /\ \E gone \in SUBSET transfer.files : Removes(transfer.files, gone)
    /\ IF transfer.dir THEN RemoveDir(transfers, DOMAIN disk') ELSE UNCHANGED dirs
    /\ transfer' = NoTransfer
    /\ UNCHANGED <<visible, handle, consent, kept, transfers>>

-----------------------------------------------------------------------------
(* Permission.                                                                 *)

Authorizing == transfer.does = "authorize" /\ transfer.pc = "next"
Verdict(v) == Step([transfer EXCEPT !.verdict = v, !.pc = "done"])
             /\ UNCHANGED <<disk, dirs, stuck, faults>>
Refusal(v) == Step([transfer EXCEPT !.verdict = v, !.pc = "done", !.refused = TRUE])
             /\ UNCHANGED <<disk, dirs, stuck, faults>>
Onward == Step([transfer EXCEPT !.i = @ + 1]) /\ UNCHANGED <<disk, dirs, stuck, faults>>

(* authorize_camera_attachments asks for the first byte of every artifact.     *)
AllCheckedOne == transfer.i > 1
AllChecked == transfer.i > Len(transfer.list)

Authorized == Authorizing /\ AllChecked /\ Verdict("allowed")

(* An error of the relay is handed on as it is.                                *)
AuthorizeRemote ==
    /\ Authorizing /\ ~AllChecked /\ transfer.relay
    /\ \/ This.url # "good" /\ Verdict("invalid")
       \/ This.url = "good" /\ Verdict("unavailable")
       \/ /\ This.url = "good"
          /\ \E a \in Answers(This.id) :
                CASE This.mime = "bad" -> Verdict("invalid")
                  [] a.status = "refused" -> Refusal("denied")
                  [] Decoded(a, 0, 0) -> Onward
                  [] OTHER -> Verdict("unavailable")

(* The local check passes over an artifact without a URL.                      *)
AuthorizeLocal ==
    /\ Authorizing /\ ~AllChecked /\ ~transfer.relay
    /\ CASE This.url = "none" -> Onward
         [] This.url = "bad" -> Verdict("invalid")
         [] OTHER -> \/ Verdict("unavailable")
                     \/ This.id \in consent /\ Onward
                     \/ Refusal("denied")

(* authorize_whatsapp_delivery: a message without its conversation is refused  *)
(* here; a changed identity of the home counts as a refusal, a failed call or  *)
(* an answer that is too large does not.                                       *)
FailedCheck(error) == IF error = "identity" THEN "denied" ELSE "unavailable"

AuthorizeWhatsApp ==
    /\ transfer.does = "whatsapp" /\ transfer.pc = "next"
    /\ \/ This.url # "good" /\ Refusal("denied")
       \/ /\ This.url = "good"
          /\ \/ \E error \in {"identity", "transport", "status", "large"} :
                    /\ error = "identity" => transfer.relay
                    /\ IF error = "identity" THEN Refusal(FailedCheck(error))
                       ELSE Verdict(FailedCheck(error))
             \/ This.id \in consent /\ Verdict("allowed")
             \/ Refusal("denied")

Return ==
    /\ transfer.does \in {"authorize", "whatsapp"} /\ transfer.pc = "done"
    /\ transfer' = NoTransfer
    /\ UNCHANGED <<Cache, consent, disk, transfers, faults>>

ConsentWithdrawn(id) ==
    /\ id \in consent
    /\ consent' = consent \ {id}
    /\ UNCHANGED <<Cache, disk, transfer, transfers, faults>>

-----------------------------------------------------------------------------
Progress ==
    \/ PrepareArtifact \/ DownloadRemote \/ RangeRequest \/ RangeFails \/ RangeArrives
    \/ GetLocal \/ StreamArrives \/ StreamEnds \/ StreamFails \/ FinishBatch
    \/ KeepAttachment \/ DropGuard
    \/ Authorized \/ AuthorizeRemote \/ AuthorizeLocal \/ AuthorizeWhatsApp \/ Return

MediaNext ==
    \/ CreateRoot \/ OpenRoot \/ RootReplaced
    \/ \E does \in {"materialize", "authorize", "whatsapp"}, relay \in BOOLEAN,
          list \in ArtifactLists : Begin(does, relay, list)
    \/ Progress
    \/ \E id \in Ids : ConsentWithdrawn(id)

(* Every await of a call returns: a relay exchange has its deadline and a      *)
(* local request its time limit.                                               *)
MediaFairness == WF_mediaVars(Progress)

MediaSpec == MediaInit /\ [][MediaNext]_mediaVars

-----------------------------------------------------------------------------
(* The shape of the cache, and where a call can be.                            *)
MediaTypeOK ==
    /\ visible \in {"none", "ours", "other", "link"}
    /\ handle \in {{}, {"ours"}, {"other"}}
    /\ consent \subseteq Ids
    /\ \A n \in DOMAIN disk : n \in (1..transfers) \X Nat /\ disk[n] \in File
    /\ dirs \subseteq 1..transfers /\ kept \subseteq DOMAIN disk
    /\ transfers \in 0..MaxCalls /\ faults \in 0..MaxFaults
    /\ transfer.pc \in {"idle", "next", "fetch", "range", "asked", "stream", "done"}
    /\ transfer.verdict \in {"none", "allowed", "denied", "invalid", "unavailable"}

(* A file that is handed over as an attachment is the whole of one medium: its *)
(* parts were all said to be of a medium of exactly this length, and each lies *)
(* where it was taken from, however the medium changed between two ranges.     *)
FilesAreWhole ==
    \A n \in transfer.files \cup kept :
        n \in DOMAIN disk /\ ~disk[n].torn /\ disk[n].of = {disk[n].len}

(* The cache never holds a file above the limit, a partial one included, also  *)
(* when HarborBeacon did not say how much it would send.                       *)
DiskIsBounded == \A n \in DOMAIN disk : disk[n].len <= MaxBytes

(* Between two calls the cache holds nothing but what the ledger keeps and     *)
(* what could not be removed: no partial download, no medium of a batch that   *)
(* failed elsewhere, no empty directory, also if the cache path was replaced   *)
(* in the middle of a batch.                                                   *)
CacheIsClean ==
    transfer = NoTransfer =>
        /\ DOMAIN disk = kept \cup stuck
        /\ dirs = {n[1] : n \in DOMAIN disk}

(* What attachments leave on disk is whole, within the limits, and gone when   *)
(* nobody is going to send it.                                                 *)
CacheIsSound == MediaTypeOK /\ FilesAreWhole /\ DiskIsBounded /\ CacheIsClean

(* A delivery is authorized, and media are attached, only for what the home    *)
(* still consented to when the call began; in a list of artifacts one refusal  *)
(* is enough.                                                                  *)
NothingWithoutConsent ==
    /\ transfer.verdict = "allowed" =>
          \A i \in DOMAIN transfer.list : transfer.list[i].url = "none" \/ transfer.list[i].id \in transfer.asked
    /\ \A i \in transfer.attached : transfer.list[i].id \in transfer.asked

(* An outage is not a refusal: the call answers denied only if the home, or    *)
(* the lack of a conversation to deliver to, said so.  What becomes of an      *)
(* error that the call returns is decided by its caller in gateway.rs.         *)
OutageIsNoRefusal == transfer.verdict = "denied" => transfer.refused

(* authorize_whatsapp_delivery answers with what the home said: neither the    *)
(* permission nor the refusal it returns comes from a failed request.          *)
VerdictsAreFounded == NothingWithoutConsent /\ OutageIsNoRefusal

(* Every call returns: a range answer brings the download forward or ends it.  *)
TransfersEnd == transfer # NoTransfer ~> transfer = NoTransfer
=============================================================================
