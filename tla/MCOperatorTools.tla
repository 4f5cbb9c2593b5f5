---------------------------- MODULE MCOperatorTools ----------------------------
(***************************************************************************)
(* Small instances of DailyUse and OperatorState, the two tools of         *)
(* tools/operator-state.  They share no file and call each other nowhere,  *)
(* so that nothing is to be learnt from their interleavings: `tool' says   *)
(* which of them a behaviour is about, and the other one does nothing.     *)
(*                                                                         *)
(* DailyUse has a brief, a digest that an earlier journal delivered, and   *)
(* two clashing calendar writes, one of them in two versions of the        *)
(* request; OperatorState has two commitments.                             *)
(***************************************************************************)
EXTENDS DailyUse, OperatorState, TLC

CONSTANTS e1, brief, digest, first, second, r1, r2, r3, r4, r5, c1, c2

VARIABLE tool

Keys == (r1 :> brief) @@ (r5 :> digest) @@ (r2 :> first) @@ (r3 :> first) @@ (r4 :> second)
Clashes == {<<first, second>>, <<second, first>>}
Interchangeable == Permutations(Commitment)

ToolsInit ==
    /\ DailyInit /\ DbInit
    /\ \/ tool = "daily_use" /\ \A c \in Commitment : live.status[c] = "absent"
       \/ tool = "operator_state"
ToolsNext ==
    \/ tool = "daily_use" /\ DailyNext /\ UNCHANGED dbVars /\ UNCHANGED tool
    \/ tool = "operator_state" /\ DbNext /\ UNCHANGED dailyVars /\ UNCHANGED tool
ToolsSpec == ToolsInit /\ [][ToolsNext]_<<tool, dailyVars, dbVars>>
===============================================================================
