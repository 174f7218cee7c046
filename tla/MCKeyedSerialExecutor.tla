------------------------ MODULE MCKeyedSerialExecutor ------------------------
(***************************************************************************)
(* Instance: three keys on two pool threads, so that a key can wait for a  *)
(* thread; the first key has three jobs, so that it drains, empties and is *)
(* started again.                                                          *)
(***************************************************************************)
EXTENDS KeyedSerialExecutor

CONSTANTS k1, k2, k3, t1, t2

MCKeyOf == <<k1, k1, k2, k1, k3>>
=============================================================================
