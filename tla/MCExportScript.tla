--------------------------- MODULE MCExportScript ---------------------------
(***************************************************************************)
(* Every list of at most five lines with three symbols, comments and       *)
(* malformed lines.                                                        *)
(***************************************************************************)
EXTENDS ExportScript

MCManifests == UNION {[1..n -> Line] : n \in 0..5}

=============================================================================
