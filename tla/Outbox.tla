-------------------------------- MODULE Outbox --------------------------------
(***************************************************************************)
(* What a caller of tcp.Session may rely on (libs/net/tcp/session.go):     *)
(* a one-way mailbox.  A message is either accepted or refused; accepted   *)
(* messages reach the connection one at a time, in the order they were     *)
(* accepted and without gaps, until the connection is cut; after that      *)
(* none does.  Once the mailbox is closed it accepts nothing more.  A      *)
(* healthy mailbox keeps delivering: as long as the connection is writable *)
(* no accepted message is forgotten.                                       *)
(***************************************************************************)
EXTENDS Naturals, Sequences

CONSTANT Messages

VARIABLES
  accepted,   \* the messages Send took, in order
  delivered,  \* the messages written to the connection, in order
  closed,     \* Send refuses
  cut         \* the connection takes no more bytes

vars == <<accepted, delivered, closed, cut>>

Init ==
  /\ accepted = <<>>
  /\ delivered = <<>>
  /\ closed = FALSE
  /\ cut = FALSE

Accept ==
  /\ ~closed
  /\ \E m \in Messages : accepted' = Append(accepted, m)
  /\ UNCHANGED <<delivered, closed, cut>>

Deliver ==
  /\ ~cut
  /\ Len(delivered) < Len(accepted)
  /\ delivered' = Append(delivered, accepted[Len(delivered) + 1])
  /\ UNCHANGED <<accepted, closed, cut>>

Cut ==
  /\ ~cut
  /\ cut' = TRUE
  /\ closed' \in {closed, TRUE}
  /\ UNCHANGED <<accepted, delivered>>

Close ==
  /\ ~closed
  /\ closed' = TRUE
  /\ UNCHANGED <<accepted, delivered, cut>>

Next == Accept \/ Deliver \/ Cut \/ Close

Spec == Init /\ [][Next]_vars

(* A writable connection drains the mailbox: no accepted message waits      *)
(* forever.                                                                *)
Drains == WF_vars(Deliver)
===============================================================================
