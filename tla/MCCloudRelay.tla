---------------------------- MODULE MCCloudRelay ----------------------------
(* An authorization or a pinned notification, and an authorization (or a      *)
(* request that is not well formed) before or after it.                      *)
EXTENDS CloudRelay, TLC

CONSTANTS c1, c2

MCUses == c1 :> {<<"deliveryAuthorization", NoIdentity, TRUE>>,
                 <<"notificationReceipt", OldHub, TRUE>>}
       @@ c2 :> {<<"deliveryAuthorization", NoIdentity, TRUE>>,
                 <<"notificationReceipt", NoIdentity, TRUE>>,
                 <<"deliveryAuthorization", NoIdentity, FALSE>>}
MCTtl == [op \in {"deliveryAuthorization", "notificationReceipt"} |-> 2]
=============================================================================
