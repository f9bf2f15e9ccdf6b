--------------------------- MODULE RequestStream ---------------------------
(***************************************************************************)
(* What the parsing half of the server promises to its callback: of the    *)
(* requests a client writes on a connection, the callback is given each at *)
(* most once, in the order they were written, none of them changed and     *)
(* none of them put together from two.                                     *)
(***************************************************************************)
EXTENDS Naturals, Sequences

CONSTANTS Connection, Message

VARIABLES written, delivered

TypeOK ==
    /\ written   \in [Connection -> Seq(Message)]
    /\ delivered \in [Connection -> Seq(Message)]

Init ==
    /\ written   = [c \in Connection |-> <<>>]
    /\ delivered = [c \in Connection |-> <<>>]

Write(c, m) ==
    /\ written' = [written EXCEPT ![c] = Append(@, m)]
    /\ UNCHANGED delivered

DeliverNext(c) ==
    /\ Len(delivered[c]) < Len(written[c])
    /\ delivered' = [delivered EXCEPT ![c] = Append(@, written[c][Len(@) + 1])]
    /\ UNCHANGED written

Next == \E c \in Connection : DeliverNext(c) \/ \E m \in Message : Write(c, m)

Spec == Init /\ [][Next]_<<written, delivered>>
===========================================================================
