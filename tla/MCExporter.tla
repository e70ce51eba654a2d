----------------------------- MODULE MCExporter -----------------------------
(***************************************************************************)
(* A small instance of Exporter for TLC.                                   *)
(***************************************************************************)
EXTENDS ExporterInv, ExporterRefinement

=============================================================================
