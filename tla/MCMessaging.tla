----------------------------- MODULE MCMessaging -----------------------------
(* A small instance of Messaging: n1 carries notifications, every other      *)
(* channel log messages.                                                    *)
EXTENDS MessagingProps
CONSTANT n1
MCCaps == {Unbounded, 0}
MCKindOf == [c \in Chan |-> IF c = n1 THEN "note" ELSE "log"]
MCData == Call
=============================================================================
