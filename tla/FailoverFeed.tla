---------------------------- MODULE FailoverFeed ----------------------------
(***************************************************************************)
(* What the arbitrator promises its consumers: the silence-detector rule   *)
(* of the repository's README ("Failover Strategy"), stated on the feed of *)
(* emitted ticks alone, without channels, statistics or the steps of the   *)
(* processing loop.                                                        *)
(*                                                                         *)
(* At the moment a tick is emitted,                                        *)
(*   - a tick of the primary is always allowed, once it has been heard;    *)
(*   - an untagged backup tick is allowed for a symbol the primary is not  *)
(*     configured for;                                                     *)
(*   - a tick tagged as failover is allowed for a symbol of the primary    *)
(*     that has been silent for longer than Threshold, or never heard.     *)
(* Ticks are emitted in the order they arrived in.                         *)
(***************************************************************************)
EXTENDS Integers, Sequences

CONSTANTS
  Threshold          \* silence tolerated before backup ticks are let through

VARIABLES
  sources,           \* which source tag is primary, backup and failover
  inPrimary,         \* symbols configured for the primary provider
  clock,             \* elapsed time
  heard,             \* symbol -> time the primary was last heard, where it was
  feed               \* every tick emitted so far

vars == << sources, inPrimary, clock, heard, feed >>

Silent(s) == s \in DOMAIN heard => clock - heard[s] > Threshold

\* The rule: may tick t leave the arbitrator now?
Allowed(t) ==
  \/ t.source = sources.primary /\ t.symbol \in DOMAIN heard
  \/ t.source = sources.backup /\ t.symbol \notin inPrimary
  \/ t.source = sources.failover /\ t.symbol \in inPrimary /\ Silent(t.symbol)

Init ==
  /\ clock = 0
  /\ DOMAIN heard = {}
  /\ feed = << >>

Advance ==
  /\ clock' > clock
  /\ UNCHANGED << sources, inPrimary, heard, feed >>

\* The primary is heard on s: never in the future, never earlier than before.
Hear(s) ==
  /\ DOMAIN heard' = DOMAIN heard \cup {s}
  /\ heard'[s] <= clock
  /\ s \in DOMAIN heard => heard[s] <= heard'[s]
  /\ \A r \in DOMAIN heard \ {s} : heard'[r] = heard[r]
  /\ UNCHANGED << sources, inPrimary, clock, feed >>

Emit ==
  /\ Len(feed') = Len(feed) + 1
  /\ LET t == feed'[Len(feed')] IN
       /\ feed' = Append(feed, t)
       /\ Allowed(t)
       /\ \A i \in DOMAIN feed : feed[i].id < t.id
  /\ UNCHANGED << sources, inPrimary, clock, heard >>

Next ==
  \/ Advance
  \/ \E s \in DOMAIN heard' : Hear(s)
  \/ Emit

Spec == Init /\ [][Next]_vars

=============================================================================
