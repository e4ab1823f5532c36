--------------------------- MODULE MCParallelScan ---------------------------
(***************************************************************************)
(* A system of three rules and one of two, four hardware threads.  If the  *)
(* first system comes first it gets three threads and the other would get  *)
(* one, that is none; if it comes second each gets two, and one of its     *)
(* threads has two rules.  The first rule has no token to try and the last *)
(* has inputs that are not connected.                                      *)
(***************************************************************************)
EXTENDS ParallelScan, TLC

CONSTANTS s1, s2

MCSystems == {s1, s2}
MCAttempts == (s1 :> <<0, 1, 1>>) @@ (s2 :> <<1, 1>>)
MCMaxScans == (s1 :> 2) @@ (s2 :> 1)
=============================================================================
