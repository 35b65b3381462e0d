---------------------- MODULE MCNotificationLifecycle ----------------------
(* Two ids, small enough to write their XOR with a sequence number.        *)
EXTENDS NotificationLifecycle, Bitwise

MCIds == {0, 1}

MCKeys == 0..3

MCKeyOf == [p \in Ids \X (0..MaxDeliveries) |-> p[1] ^^ p[2]]
=============================================================================
