------------------------------ MODULE RowSave ------------------------------
(***************************************************************************)
(* What Repository.save(entity) of the TypeORM library does to a column of *)
(* a table row, as every service of the API relies on it.                  *)
(*                                                                         *)
(* A handler loads an entity (findOne), changes some of its fields, waits  *)
(* for other calls, and then calls save.  save does not write "the fields  *)
(* the handler assigned": it SELECTs the row again, compares every loaded  *)
(* column with that second copy, and UPDATEs the columns that differ.  A   *)
(* column the handler never touched is thus written back with the value of *)
(* the first load whenever another request changed it in between.  Only a  *)
(* change that lands after the second SELECT is left alone.                *)
(*                                                                         *)
(* Repository.update(criteria, columns), by contrast, is one UPDATE of the *)
(* named columns; the modules write it as EXCEPT.                          *)
(***************************************************************************)

\* A column after save: row is its value when the UPDATE runs, snap the one
\* save read just before, mem that of the handler's entity in memory.
SaveColumn(row, snap, mem) == IF mem # snap THEN mem ELSE row
=============================================================================
