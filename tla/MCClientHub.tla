---------------------------- MODULE MCClientHub ----------------------------
(* Instances of ClientHub for TLC: WebSocket clients w and w2, TCP client t. *)
EXTENDS ClientHub, TLC

CONSTANTS w, w2, t

BothKind == (w :> "ws") @@ (t :> "tcp")
TwoWsKind == (w :> "ws") @@ (w2 :> "ws")
WsKind == w :> "ws"
TcpKind == t :> "tcp"

TwoWsSymmetry == Permutations({w, w2})
=============================================================================
