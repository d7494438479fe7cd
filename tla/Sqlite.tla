------------------------------- MODULE Sqlite -------------------------------
(***************************************************************************)
(* Transactions of the main database (dependencies.go opens it in WAL      *)
(* mode, with up to 32 connections and the driver's busy timeout).         *)
(*                                                                         *)
(* BEGIN is deferred: a transaction takes its snapshot at its first read   *)
(* and the write lock at its first write.  There is one writer at a time.  *)
(* A transaction whose first statement is a write waits for the lock; one  *)
(* that has read cannot wait: its write fails with SQLITE_BUSY when        *)
(* another transaction is writing, or when another one has committed       *)
(* changes since its snapshot was taken.  What a lock holder has written   *)
(* and not committed is invisible to the others, so the modules that use   *)
(* this one keep it in the action that commits.                            *)
(***************************************************************************)
EXTENDS Environment

VARIABLES
    writer, \* the transaction that holds the write lock, or None
    fresh   \* the open transactions whose snapshot is still the current one

txVars == <<writer, fresh>>

(* A transaction belongs to an HTTP request or to the worker of a job.     *)
Txs == Requests \cup Jobs

SqliteTypeOK == writer \in Txs \cup {None} /\ fresh \subseteq Txs

SqliteInit == writer = None /\ fresh = {}

LockFree == writer = None

(* t may write: it has the lock, or its snapshot is current and the lock   *)
(* is free.  Otherwise the write fails with SQLITE_BUSY.                   *)
CanWrite(t) == writer = t \/ (LockFree /\ t \in fresh)

BeginRead(t) == fresh' = fresh \cup {t} /\ UNCHANGED writer

Lock(t) == writer' = t /\ UNCHANGED fresh

(* The changes of the writing transaction become visible: the snapshots of *)
(* all open transactions are outdated.                                     *)
CommitChanges == writer' = None /\ fresh' = {}

(* t ends without a change, by ROLLBACK or by a COMMIT that wrote no row.  *)
EndUnchanged(t) ==
    /\ writer' = IF writer = t THEN None ELSE writer
    /\ fresh' = fresh \ {t}

(* The server crashes: every connection is gone.                           *)
CloseAll == writer' = None /\ fresh' = {}
=============================================================================
