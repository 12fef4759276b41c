------------------------------ MODULE MCUsbCdc ------------------------------
(***************************************************************************)
(* Instances of UsbCdc for TLC.                                            *)
(***************************************************************************)
EXTENDS UsbCdc
CONSTANTS t1, t2, t3, rd, wr

SamePriority == [t \in Tasks |-> 100]
=============================================================================
