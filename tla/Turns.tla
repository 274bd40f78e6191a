-------------------------------- MODULE Turns ---------------------------------
(***************************************************************************)
(* Components that share no table take turns in the same variables: a      *)
(* behaviour is about one subject, chosen at the start, whose component    *)
(* has v1, v2, ... in the order in which it declares its variables; the    *)
(* others are NULL.                                                        *)
(***************************************************************************)
CONSTANT NULL

VARIABLES subject, v1, v2, v3, v4, v5, v6, v7, v8, v9, v10, v11

vars == <<subject, v1, v2, v3, v4, v5, v6, v7, v8, v9, v10, v11>>
-----------------------------------------------------------------------------
(* The variables after the k-th.                                           *)
after3 == <<v4, v5, v6, v7, v8, v9, v10, v11>>
after4 == <<v5, v6, v7, v8, v9, v10, v11>>
after5 == <<v6, v7, v8, v9, v10, v11>>
after6 == <<v7, v8, v9, v10, v11>>
after7 == <<v8, v9, v10, v11>>
after8 == <<v9, v10, v11>>
after9 == <<v10, v11>>

(* A subject starts with NULL in those its component has not.              *)
Null9 == v10 = NULL /\ v11 = NULL
Null8 == v9 = NULL /\ Null9
Null7 == v8 = NULL /\ Null8
Null6 == v7 = NULL /\ Null7
Null5 == v6 = NULL /\ Null6
Null4 == v5 = NULL /\ Null5
Null3 == v4 = NULL /\ Null4
=============================================================================
