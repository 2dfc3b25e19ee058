----------------------------- MODULE UnitOfWork -----------------------------
(***************************************************************************)
(* What a SQLAlchemy session writes when it flushes an object that was     *)
(* loaded earlier in the same session.  SQLAlchemy is not part of this     *)
(* repository: the module states the one rule of it the models rely on.    *)
(*                                                                         *)
(* The session keeps the value each column had when the row was loaded.    *)
(* An attribute is written by the UPDATE only when the assigned value      *)
(* differs from that loaded value.  Assigning the value that was loaded is *)
(* "no net change": the column is left out, so whatever another            *)
(* transaction has committed to it in the meantime stays.                  *)
(***************************************************************************)

\* The column's value after the flush: `stored` is what the row holds now,
\* `loaded` what this session read, `assigned` what the handler assigned.
Flushed(stored, loaded, assigned) ==
  IF assigned = loaded THEN stored ELSE assigned

=============================================================================
