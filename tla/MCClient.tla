------------------------------ MODULE MCClient ------------------------------
(* RconClient for TLC. *)
EXTENDS RconClient

MCNegative == -1
Singles == [driver : {"single"}, attempts : {MCNegative, 1, 4}, backoff : BOOLEAN,
            timeout : {0, 2}, len : {0, 2, 3}, cmds : {1}]
Sessions(driver, timeout, len, n) ==
    {[driver |-> driver, attempts |-> 1, backoff |-> FALSE, timeout |-> timeout,
      len |-> len, cmds |-> n]}
MCConfigs == Singles \cup Sessions("http", 2, 2, 3) \cup Sessions("http", 0, 3, 2)
    \cup Sessions("interactive", 2, 3, 2) \cup Sessions("interactive", 0, 0, 2)
MCStranded == Sessions("interactive", 2, 2, 3)
MCCuts == {4, 13}
=============================================================================
