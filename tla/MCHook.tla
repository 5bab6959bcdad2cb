------------------------------- MODULE MCHook -------------------------------
(* One fiber accepts on a socket and writes to the accepted one, while    *)
(* another one configures and closes descriptors.                          *)
EXTENDS Hook, TLC

CONSTANTS f1, f2, a, b

AcceptAndWrite == (f1 :> {<<a, "READ">>, <<b, "WRITE">>}) @@ (f2 :> {})
TwoAndNone == (f1 :> 2) @@ (f2 :> 0)
=============================================================================
