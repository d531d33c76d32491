----------------------------- MODULE BloodFlow -----------------------------
(***************************************************************************)
(* What the United Bus promises its organs: every organ has its own FIFO   *)
(* of globules it has not looked at yet, a published globule enters every  *)
(* FIFO exactly once, and an absorbing organ takes globules off the front  *)
(* of its own FIFO only.  No ring, no capacity, no garbage collection.     *)
(***************************************************************************)
EXTENDS Sequences

CONSTANTS Organs,    \* the organs that have a read head on the bus
          Globules,  \* what may be published
          NoOrgan    \* the absorbing organ when no absorb call is in progress

VARIABLES unread,    \* unread[o]: globules organ o has not looked at, in order
          cursor     \* the absorb call in progress: its organ and its output

flowVars == <<unread, cursor>>

Idle == [organ |-> NoOrgan, out |-> <<>>]

FlowInit ==
    /\ unread = [o \in Organs |-> <<>>]
    /\ cursor = Idle

Publish(g) ==
    /\ unread' = [o \in Organs |-> Append(unread[o], g)]
    /\ UNCHANGED cursor

StartAbsorb(o) ==
    /\ cursor = Idle
    /\ cursor' = [organ |-> o, out |-> <<>>]
    /\ UNCHANGED unread

\* The organ looks at the oldest unread globule and keeps it or passes over it.
Inspect(o) ==
    /\ cursor.organ = o
    /\ unread[o] # <<>>
    /\ unread' = [unread EXCEPT ![o] = Tail(@)]
    /\ \/ cursor' = [cursor EXCEPT !.out = Append(@, Head(unread[o]))]
       \/ UNCHANGED cursor

EndAbsorb ==
    /\ cursor # Idle
    /\ cursor' = Idle
    /\ UNCHANGED unread

FlowNext ==
    \/ \E g \in Globules : Publish(g)
    \/ \E o \in Organs : StartAbsorb(o) \/ Inspect(o)
    \/ EndAbsorb

FlowSpec == FlowInit /\ [][FlowNext]_flowVars
=============================================================================
