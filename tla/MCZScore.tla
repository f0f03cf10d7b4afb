------------------------------- MODULE MCZScore -------------------------------
(* Small instances of ZScore for TLC; the cfg files give the values. *)
EXTENDS ZScore
===============================================================================
