----------------- MODULE MCSalesImportPublicationRefinement -----------------
(* The instance of MCSalesImportPublication, with the promise of LeasedWork. *)
EXTENDS MCSalesImportPublication, SalesImportPublicationRefinement
=============================================================================
