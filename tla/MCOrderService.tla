---------------------------- MODULE MCOrderService ----------------------------
(***************************************************************************)
(* Small instances of OrderService: two tenants, one of them with a        *)
(* contract rate the registry accepted although it is outside [0, 1] when  *)
(* the configuration says so, and amounts chosen so that the fee rounds.   *)
(***************************************************************************)
EXTENDS CommissionLedger, TLC

CONSTANTS parish, home, cemetery     \* the tenants

\* Contract rates whose fees differ on the amounts below; new_tenant accepted
\* the cemetery's 150%.
Rates == (parish :> 8) @@ (home :> 15) @@ (cemetery :> 150)

ApiAmounts     == {-1, 13}          \* a negative total passes the request schema
LibraryAmounts == {-1, 0, 1, 10, 25, 99}
=============================================================================
