----------------------------- MODULE MCOrderBook -----------------------------
(***************************************************************************)
(* Order books of a few orders and prices, for TLC.                        *)
(***************************************************************************)
EXTENDS BookQueries
=============================================================================
