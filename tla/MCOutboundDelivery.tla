------------------------- MODULE MCOutboundDelivery -------------------------
(***************************************************************************)
(* Small instances of OutboundDelivery.                                    *)
(***************************************************************************)
EXTENDS OutboundDelivery, TLC

CONSTANT c1

OneChannel == {c1}
AllToOne == [m \in Messages |-> c1]

=============================================================================
