---------------------------- MODULE MCCacheFaults ----------------------------
(* A small instance of CacheFaults for TLC.                                 *)
EXTENDS CacheFaults, TLC

CONSTANTS t1, k1

OneTablesOf == k1 :> {t1}
=============================================================================
