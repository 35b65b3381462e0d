--------------------------- MODULE MCEventClaims ---------------------------
(* The table processed_events with two or three workers.                   *)
EXTENDS EventClaims

\* A table whose status column has no CHECK (migrations/fixtures/pre-004.sql).
MCUnchecked == RowStatus
=============================================================================
