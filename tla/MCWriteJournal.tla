--------------------------- MODULE MCWriteJournal ---------------------------
(* Instances of WriteJournal for TLC. *)
EXTENDS WriteJournal

\* The process may stop, or an I/O call fail, anywhere.
Everywhere == Running

\* The stretch of the call the crash tests abort in (crash_point::hit in
\* journal.rs): from the first capture to the durable Committed phase.
CommitPoints == {"capture", "prepare_store", "verify", "replace", "record"}

\* Failed calls that commit answers with a rollback.
CommitFaults == {"capture", "verify", "replace", "record"}

\* Before and inside a rollback; and after it, until the journal is retired.
MidRollback == {"verify", "step_store", "confirm", "rollback_store"}
RetirePoints == {"retire_payload", "retire_manifest"}
=============================================================================
