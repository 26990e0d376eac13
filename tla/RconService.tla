---------------------------- MODULE RconService ----------------------------
(***************************************************************************)
(* What an rcon.Conn and its server do, seen as the service that callers   *)
(* rely on: the refinement mapping to CommandService.                      *)
(***************************************************************************)
EXTENDS RconExchange

(* The exchange implements the service that callers rely on.  A response   *)
(* from a torn stream, or an empty one in idle mode, is an unsure outcome. *)
Arg == [c \in Callers |-> args[c].n]
Ran == {n \in DOMAIN chunks : chunks[n] > 0}
Out == [c \in Callers |->
          [n    |-> res[c].n,
           kind |-> IF res[c].kind \notin {"none", "ok"} THEN "err"
                    ELSE IF res[c].kind = "ok" /\ (res[c].torn \/ res[c].body = <<>>)
                      THEN "unsure" ELSE res[c].kind]]

(* What is on its way to the server, by the command that it runs. *)
CommandIn(p) == IF p.type = TypeExecCommand THEN p.body[1] ELSE 0
Queue == [i \in 1..Len(c2s) |-> CommandIn(c2s[i])]

Service == INSTANCE CommandService WITH
    arg <- Arg, turn <- mu, queue <- Queue, ran <- Ran, out <- Out

(* Whatever times out, fails, is dropped or closed: commands go out one at *)
(* a time and are run at most once, in the order of mu, and Execute says   *)
(* "ok" only of a command that was run (Execute, serveConn).               *)
ImplementsService == Service!Spec
=============================================================================
