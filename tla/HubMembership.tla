---------------------------- MODULE HubMembership ----------------------------
(***************************************************************************)
(* What the hub promises about its clients: one that connects may be made  *)
(* a member, of the clients a tick is sent to, once; a client that has     *)
(* left never comes back; Stop leaves nobody in.                           *)
(***************************************************************************)
CONSTANT Clients

VARIABLES
  status,       \* client -> "outside", "member" or "left"
  stopped       \* Hub.Stop has returned

vars == << status, stopped >>

Init ==
  /\ status = [c \in Clients |-> "outside"]
  /\ stopped = FALSE

Join(c) ==
  /\ status[c] = "outside"
  /\ status' = [status EXCEPT ![c] = "member"]
  /\ stopped' = stopped

Leave(c) ==
  /\ status[c] = "member"
  /\ status' = [status EXCEPT ![c] = "left"]
  /\ stopped' = stopped

Stop ==
  /\ ~stopped
  /\ status' = [c \in Clients |-> IF status[c] = "member" THEN "left" ELSE status[c]]
  /\ stopped' = TRUE

Next == Stop \/ \E c \in Clients : Join(c) \/ Leave(c)

Spec == Init /\ [][Next]_vars

=============================================================================
