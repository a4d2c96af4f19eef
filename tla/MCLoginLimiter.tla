--------------------------- MODULE MCLoginLimiter ---------------------------
(* An instance of LoginLimiter for TLC: two logins at a time, of two names *)
(* from one address.                                                       *)
EXTENDS LoginLimiter
=============================================================================
