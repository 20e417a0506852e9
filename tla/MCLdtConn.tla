----------------------------- MODULE MCLdtConn -----------------------------
(***************************************************************************)
(* Sockets are interchangeable in LdtConn: no step prefers one to another. *)
(***************************************************************************)
EXTENDS LdtConn, TLC

CONSTANTS s1, s2, s3

Sockets == Permutations(Socks)
=============================================================================
