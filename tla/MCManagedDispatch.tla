------------------------- MODULE MCManagedDispatch -------------------------
(***************************************************************************)
(* An instance of ManagedDispatch on one target: two operations, of which  *)
(* the budget affords either and not both.                                 *)
(***************************************************************************)
EXTENDS ManagedDispatch

CONSTANTS c1, c2, b1, b2, t1, o1, o2

MCBrokerOf == [c \in Caller |-> IF c = c1 THEN b1 ELSE b2]
MCTargetOf == [o \in OpKey |-> t1]
MCAmount == [o \in OpKey |-> IF o = o1 THEN 2 ELSE 1]
=============================================================================
