------------------------ MODULE MCWolframLanguageAPI ------------------------
(***************************************************************************)
(* The systems of MCHypergraphSystem behind the library interface.         *)
(***************************************************************************)
EXTENDS MCHypergraphSystem, WolframLanguageAPI
=============================================================================
