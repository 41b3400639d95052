----------------------------- MODULE MCBitrixSync -----------------------------
(***************************************************************************)
(* A small instance of BitrixSync: two orders of one tenant around one     *)
(* that can never be synced, and an order of another tenant.               *)
(***************************************************************************)
EXTENDS BitrixSync, TLC

CONSTANTS parish, home, o1, o2, o3, o4

MCRepository == <<o1, o4, o2, o3>>
MCOwnerOf == (o1 :> parish) @@ (o2 :> parish) @@ (o3 :> parish) @@ (o4 :> home)
MCFreeText == (o1 :> "contact") @@ (o2 :> "text") @@ (o3 :> "text") @@ (o4 :> "disguised")
MCMaxChanges == (o1 :> 2) @@ (o2 :> 1) @@ (o3 :> 1) @@ (o4 :> 1)
=============================================================================
