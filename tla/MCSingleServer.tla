----------------------------- MODULE MCSingleServer -----------------------------
(* SingleServer with clients that are all alike.                           *)
EXTENDS SingleServer, TLC

Alike == Permutations(Clients)
================================================================================
