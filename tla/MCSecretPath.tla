---------------------------- MODULE MCSecretPath ----------------------------
(* Two providers of one id, one after the other, and the consumers.         *)
EXTENDS SecretPath
=============================================================================
