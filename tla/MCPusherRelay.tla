----------------------------- MODULE MCPusherRelay -----------------------------
(* Instances of PusherRelay for TLC; the .cfg files choose the constants.    *)
EXTENDS PusherRelay
===============================================================================
