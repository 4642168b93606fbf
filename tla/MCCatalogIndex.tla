--------------------------- MODULE MCCatalogIndex ---------------------------
(***************************************************************************)
(* The start-up task and two requests, a catalog of two controls, two      *)
(* searches per retrieval and a process that is replaced once.             *)
(***************************************************************************)
EXTENDS CatalogIndex
=============================================================================
