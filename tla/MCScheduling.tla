--------------------------- MODULE MCScheduling ---------------------------
EXTENDS Scheduling

CONSTANTS someRow, listener

MCRetryable == DefaultRetryableFailureTypes
MCRecipient == [n \in Rows |-> n]
MCSharedRecipient == [n \in Rows |-> someRow]
MCProcess == [p \in Processors |-> listener]
=============================================================================
