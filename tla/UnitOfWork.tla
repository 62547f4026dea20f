----------------------------- MODULE UnitOfWork -----------------------------
(***************************************************************************)
(* How one SQLAlchemy session writes a row it has loaded.  Every request   *)
(* of the service is one session, hence one READ COMMITTED transaction     *)
(* (database.py, Database.session), and no statement of the code locks the *)
(* rows it reads.  At flush time the session compares every column with    *)
(* the value it LOADED and sends an UPDATE of the columns that differ; the *)
(* columns it leaves out keep whatever another transaction has committed   *)
(* in the meantime.                                                        *)
(***************************************************************************)

(***************************************************************************)
(* The row `current' after the flush of a session that loaded `loaded' and *)
(* wants `wanted'.  Rows are functions (or records) from columns to        *)
(* values, over one set of columns.                                        *)
(***************************************************************************)
Flushed(current, loaded, wanted) ==
  [c \in DOMAIN current |->
     IF wanted[c] # loaded[c] THEN wanted[c] ELSE current[c]]

=============================================================================
