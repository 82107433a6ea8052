-------------------------- MODULE MCBindConnection --------------------------
(* Callbacks for BindConnection: which tenant and account each one carries. *)
EXTENDS BindConnection, TLC

CONSTANTS t1, t2, a1, a2, c1, c2, c3, c4

(* a1 and a2 are the first tenant's accounts, and the other holds none. *)
Users == a1 :> t1 @@ a2 :> t1

(* a1's callback twice and a2's, as a reload and a reconnect; and a callback *)
(* whose signed state is another tenant's.                                   *)
Signed == c1 :> t1 @@ c2 :> t1 @@ c3 :> t1 @@ c4 :> t2
Queried == c1 :> a1 @@ c2 :> a1 @@ c3 :> a2 @@ c4 :> a1

(* The first tenant's callbacks alone. *)
SignedAlone == c1 :> t1 @@ c2 :> t1 @@ c3 :> t1
QueriedAlone == c1 :> a1 @@ c2 :> a1 @@ c3 :> a2
=============================================================================
