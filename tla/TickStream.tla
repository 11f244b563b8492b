----------------------------- MODULE TickStream -----------------------------
(***************************************************************************)
(* What the program as a whole promises: ticks are read from sessions with *)
(* the providers, some of them are published, in one order for everybody,  *)
(* and each client sees published ticks, none of them twice.               *)
(*                                                                         *)
(* Ticks of one session are published in the order they were read; any of  *)
(* them may be left out.  A client may see two ticks in either order, and  *)
(* may miss some: which it may miss is for the implementation to say.      *)
(***************************************************************************)
EXTENDS Naturals, Sequences

CONSTANTS
  Sessions,      \* connections to the providers
  Clients        \* connections of the clients

VARIABLES
  read,          \* session -> number of ticks read from it
  log,           \* published ticks, in order
  wire           \* client -> the ticks it was sent, in order

vars == << read, log, wire >>

In(tick, seq) == \E i \in DOMAIN seq : seq[i] = tick

Init ==
  /\ read = [s \in Sessions |-> 0]
  /\ log = << >>
  /\ wire = [c \in Clients |-> << >>]

Read(s) ==
  /\ read' = [read EXCEPT ![s] = @ + 1]
  /\ UNCHANGED << log, wire >>

\* A tick is a record: the n-th one read from a session.
Publish(tick) ==
  /\ \A i \in DOMAIN log : log[i].from = tick.from => log[i].n < tick.n
  /\ log' = Append(log, tick)
  /\ UNCHANGED << read, wire >>

Show(c, tick) ==
  /\ ~In(tick, wire[c])
  /\ wire' = [wire EXCEPT ![c] = Append(@, tick)]
  /\ UNCHANGED << read, log >>

Next ==
  \/ \E s \in Sessions : Read(s)
  \/ \E s \in Sessions : \E n \in 1 .. read[s] : Publish([from |-> s, n |-> n])
  \/ \E c \in Clients : \E i \in DOMAIN log : Show(c, log[i])

Spec == Init /\ [][Next]_vars

=============================================================================
