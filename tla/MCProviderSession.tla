------------------------- MODULE MCProviderSession -------------------------
(* Instances of ProviderSession for TLC.  Three sockets are enough: the one  *)
(* the reader holds, the one the pinger holds, and the one being dialled.    *)
EXTENDS ProviderSession, TLC

CONSTANTS s1, s2, s3

MCSockets == {s1, s2, s3}
SocketSymmetry == Permutations(MCSockets)
=============================================================================
