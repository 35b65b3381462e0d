---------------------------- MODULE MCIngestion ----------------------------
(* Ingestion with one listener, or two that share a database.              *)
EXTENDS Ingestion

MCRetryable == DefaultRetryableFailureTypes
=============================================================================
