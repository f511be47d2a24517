------------------------------ MODULE MCMachine ------------------------------
(* Machine with the two registers that machine.c reads, a RAM of two words   *)
(* with two possible contents, and an instruction count modulo 3.            *)
EXTENDS Machine

CONSTANTS r0, r1

MCRegisters == {A0, A7}
MCValues == {0, 93}
MCPcs == {0, 4}
MCRams == {r0, r1}

\* Images that fill the RAM, or one of its words.
Good == {Program(r0, 8, 0, 0, 8), Program(r0, 8, 0, 4, 8), Program(r0, 8, 0, 0, 4), Program(r1, 8, 4, 4, 4)}
\* One refused by each test of machine_load, in the order of the tests.
Bad == {Program(Null, 8, 0, 0, 8), Program(r0, 6, 0, 0, 4), Program(r0, 8, 0, 0, 2),
        Program(r0, 8, 8, 0, 4), Program(r0, 8, 4, 4, 8), Program(r0, 8, 0, 2, 8),
        Program(r0, 8, 4, 0, 4), Program(r0, 8, 0, 4, 4)}
MCPrograms == Good \cup Bad

MCLimits == {0, 1, 3}
=============================================================================
