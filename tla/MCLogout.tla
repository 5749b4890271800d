------------------------------ MODULE MCLogout ------------------------------
(***************************************************************************)
(* An instance of SessionClient with one caller and a device registered    *)
(* for push notifications, for the logout that follows a failed refresh.   *)
(***************************************************************************)
EXTENDS SessionClient
=============================================================================
