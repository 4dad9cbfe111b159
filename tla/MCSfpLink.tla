----------------------------- MODULE MCSfpLink -----------------------------
(* Small instances of SfpLink for TLC.                                     *)
EXTENDS SfpLink

CONSTANTS t1, t2

SendtoErrors == {"sendto"}
AllErrors == {"sendto", "recvfrom"}
=============================================================================
