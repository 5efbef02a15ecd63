------------------------------ MODULE MCAmmMarket ------------------------------
(***************************************************************************)
(* An instance of AmmMarket for TLC.                                       *)
(***************************************************************************)
EXTENDS AmmMarket

CONSTANTS tick1, tick2
===============================================================================
