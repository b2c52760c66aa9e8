------------------------------ MODULE MCStoreGC ------------------------------
(* Model checking of StoreGC with two of the four tables: the first that     *)
(* deletePartition visits, and the one with the smallest keys, which is also *)
(* the one written for past hours.                                           *)
EXTENDS StoreGC

MCTableNames == <<"watch", "eventcount">>
MCKeyOrder   == <<"eventcount", "watch">>
MCLateTables == {"eventcount"}
=============================================================================
