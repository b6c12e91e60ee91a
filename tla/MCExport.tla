------------------------------- MODULE MCExport -------------------------------
(* Instances of the export life cycle for TLC. *)
EXTENDS ExportLifecycle, TLC

\* Exports, keys, contents and concurrent actors are interchangeable.
Symmetric == Permutations(Exports) \union Permutations(Keys) \union Permutations(Contents)
                 \union Permutations(Handlers) \union Permutations(Requesters)
                 \union Permutations(Users)
===============================================================================
