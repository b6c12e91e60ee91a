------------------------------ MODULE MCImport ------------------------------
(* Instances of the import pipeline for TLC. *)
EXTENDS ImportPipeline, TLC

Csv == {"csv"}
Inspected == {"xlsx", "pdf"}
AllFormats == {"csv", "xlsx", "pdf"}

\* Rows, handlers, editors and confirmers are interchangeable.
Symmetric == Permutations(Rows) \union Permutations(Handlers)
                 \union Permutations(Editors) \union Permutations(Confirmers)
==============================================================================
