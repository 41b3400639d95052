--------------------------- MODULE MCTenantRequests ---------------------------
(***************************************************************************)
(* Two requests and two orders under a registry that is filled while they  *)
(* run.  Three tenants, two of which want one subdomain; the funeral home  *)
(* is offered both active and deactivated.                                 *)
(***************************************************************************)
EXTENDS TenantRequests, TLC

CONSTANTS parish, home, cemetery, saintmary, rest    \* tenants and subdomains

\* Contract rates whose fees differ; new_tenant accepted the cemetery's 150%.
Rates == (parish :> 8) @@ (home :> 15) @@ (cemetery :> 150)

Offered ==
  {[id |-> parish, slug |-> saintmary, active |-> TRUE],
   [id |-> home, slug |-> rest, active |-> TRUE],
   [id |-> home, slug |-> rest, active |-> FALSE],
   [id |-> cemetery, slug |-> rest, active |-> TRUE]}

Symmetry == Permutations(Requests) \cup Permutations(OrderIds)
=============================================================================
