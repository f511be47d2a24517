----------------------------- MODULE MCMonitor -----------------------------
(* Monitor around a machine with one program and one that machine_load         *)
(* refuses, two addresses of which one has a source line, and exit statuses    *)
(* below and above 255.                                                        *)
EXTENDS Monitor

CONSTANTS r0, line

MCRegisters == {A0, A7}
MCValues == {0, 93}
MCExitValues == {0, 93, 349}
MCPcs == {0, 4}
MCRams == {r0}
MCPrograms ==
  [memory : {[bytes |-> r0, size |-> 8]}, load_address : {0}, entry : {0, 2}, image_size : {8}]
MCBatch == {TRUE}
MCInteractive == {FALSE}
MCLimits == {0, 1, 2}
MCBatchLimits == {1, 2, 3}
MCLocation(pc) == IF pc = 0 THEN line ELSE NoLine
=============================================================================
