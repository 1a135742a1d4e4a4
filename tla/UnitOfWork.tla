----------------------------- MODULE UnitOfWork -----------------------------
(***************************************************************************)
(* What every service's request session does to a row (SQLAlchemy's        *)
(* AsyncSession over PostgreSQL at READ COMMITTED, database.py of each     *)
(* service): a SELECT copies the committed row into the session, the       *)
(* handler assigns to the copy, and session.commit() emits                 *)
(* UPDATE ... WHERE id = :pk for the columns whose value differs from the  *)
(* one that was read.  Nothing compares the row with what was read: no     *)
(* version column, no SELECT ... FOR UPDATE, no WHERE on the old status.   *)
(***************************************************************************)

\* The value a column has after the commit: the assigned one if the handler
\* changed it, and otherwise whatever is committed by then.
Column(seen, assigned, committed) ==
    IF assigned # seen THEN assigned ELSE committed

=============================================================================
