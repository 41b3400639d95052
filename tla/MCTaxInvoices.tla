---------------------------- MODULE MCTaxInvoices ----------------------------
(***************************************************************************)
(* A small instance of TaxInvoices: two threads of one process and one of  *)
(* another, over a change of month and of the Estonian rate and a 29th of  *)
(* February; line amounts at a rounding half, below the cent and negative; *)
(* a second line for a country without a rate.                             *)
(***************************************************************************)
EXTENDS TaxInvoices, TLC

CONSTANTS api1, api2, batch, api, nightly

MCProcessOf == (api1 :> api) @@ (api2 :> api) @@ (batch :> nightly)
MCCalendar == <<20250630, 20250701, 20280229>>

Line(unit, quantity, country) ==
  [unit_price_net |-> unit, quantity |-> quantity, country_code |-> country]

MCLineLists ==
  {<<Line(250, 2, Typed("LT", TRUE)), Line(-500, 1, Typed("FI", TRUE))>>,
   <<Line(105, 3, Typed("EE", FALSE)), Line(315, 1, Typed("EE", TRUE))>>,
   <<Line(250, 2, Typed("LT", TRUE)), Line(315, 1, Typed("GB", TRUE))>>}
=============================================================================
