------------------------------ MODULE MCAccess ------------------------------
(* Device sessions, the access checks and the transfer of media share no       *)
(* state, so a behaviour is of one of them.                                    *)
EXTENDS DeviceSessions, ServiceAccess, MediaTransfer

CONSTANTS a, b

MCCameraOf == <<"porch", "yard">>

Good(id) == [id |-> id, mime |-> "good", url |-> "good"]
MCLists == { <<Good(a)>>, <<Good(a), Good(b)>>,
             <<Good(a), [Good(b) EXCEPT !.mime = "bad"]>>,
             <<[Good(a) EXCEPT !.url = "bad"]>>, <<[Good(a) EXCEPT !.url = "none"]>> }

Init == SessionInit /\ AccessInit /\ MediaInit
NoSessions == codes = {} /\ clock = 0
NoMedia == visible = "none" /\ faults = 0 /\ consent = Ids
Next ==
    \/ config = {} /\ NoMedia /\ SessionNext /\ UNCHANGED <<accessVars, mediaVars>>
    \/ NoSessions /\ NoMedia /\ AccessNext /\ UNCHANGED <<sessionVars, mediaVars>>
    \/ NoSessions /\ config = {} /\ MediaNext /\ UNCHANGED <<sessionVars, accessVars>>
Spec ==
    /\ Init /\ [][Next]_<<sessionVars, accessVars, mediaVars>>
    /\ SessionFairness /\ AccessFairness /\ MediaFairness

(* Whatever is begun comes to an end: requests that wait for the session file, *)
(* logins at HarborOS, and calls for media and permission.                     *)
EverythingEnds == RequestsEnd /\ LoginEnds /\ TransfersEnd
=============================================================================
