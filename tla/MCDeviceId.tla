------------------------------ MODULE MCDeviceId ----------------------------
EXTENDS DeviceId

MCProcesses == 1..4

(* One head, launched again and again.                                     *)
RustOnly == [p \in MCProcesses |-> "rust"]

(* The two heads side by side.                                             *)
BothHeads == [p \in MCProcesses |-> IF p <= 2 THEN "rust" ELSE "csharp"]
=============================================================================
