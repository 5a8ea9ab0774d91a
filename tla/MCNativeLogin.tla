---------------------------- MODULE MCNativeLogin ----------------------------
(* Model-checking instance of NativeLogin. *)
EXTENDS NativeLogin
=============================================================================
