------------------------------ MODULE Programs ------------------------------
(***************************************************************************)
(* What the programs decide before they use a Client: run of cmd/rcon from *)
(* its arguments, its environment and its configuration file, and          *)
(* ServeHTTP from a request.  Values are reduced to whether they are set.  *)
(***************************************************************************)

(* The read mode that run, and after it Client.dial, choose. *)
ReadMode(drain, singlePacket) ==
    IF drain THEN "idle" ELSE IF singlePacket THEN "single" ELSE "multi"

(* LoadConfig: the servers of the file, of which a missing one has none. *)
LoadError(file, mustExist) == file \in {"unreadable", "invalid"} \/ (file = "missing" /\ mustExist)

(* Resolve: the host comes from the flags, else the environment, else the  *)
(* chosen server of the configuration; a switch is on if any turns it on.  *)
Settings == [Host : BOOLEAN, SinglePacket : BOOLEAN, Drain : BOOLEAN]
NotSet == [Host |-> FALSE, SinglePacket |-> FALSE, Drain |-> FALSE]
Resolve(base, flags, env) == [k \in DOMAIN base |-> flags[k] \/ env[k] \/ base[k]]

(* run: the exit code, or Goes, and the mode of the Client.  A name that   *)
(* the configuration does not have stands for a server with nothing set.   *)
Goes == 1   \* no exit code of run
Args == [parse : {"nil", "ErrHelp", "error"}, showVer : BOOLEAN, explicitConfig : BOOLEAN,
         flags : Settings, env : Settings, file : {"read", "missing", "unreadable", "invalid"},
         server : Settings]
RunOutcome(a) ==
    LET target == Resolve(IF a.file = "read" THEN a.server ELSE NotSet, a.flags, a.env)
    IN  [exit |-> IF a.parse # "nil" THEN (IF a.parse = "ErrHelp" THEN 0 ELSE 2)
                  ELSE IF a.showVer THEN 0
                  ELSE IF LoadError(a.file, a.explicitConfig) \/ ~target.Host THEN 2
                  ELSE Goes,
         mode |-> ReadMode(target.Drain, target.SinglePacket)]
RunOutcomes == {RunOutcome(a) : a \in Args}

(* parseCommand: the body may be too large or malformed, and a request     *)
(* that is not JSON may have its command in the query instead.             *)
Requests == [post : BOOLEAN, resolved : {"nil", "ErrUnauthorized", "error"}, addr : BOOLEAN,
             json : BOOLEAN, read : {"nil", "MaxBytesError", "error"}, body : BOOLEAN,
             query : BOOLEAN]
ParseCommand(r) ==
    IF r.read # "nil" THEN r.read
    ELSE IF r.body \/ (~r.json /\ r.query) THEN "nil" ELSE "errNoCommand"

(* ServeHTTP up to its call of execute: the status it answers with, or 0   *)
(* if it runs the command.                                                 *)
Refusal(r) ==
    IF ~r.post THEN 405
    ELSE IF r.resolved # "nil" THEN (IF r.resolved = "ErrUnauthorized" THEN 401 ELSE 400)
    ELSE IF ~r.addr THEN 500
    ELSE IF ParseCommand(r) = "nil" THEN 0
    ELSE IF ParseCommand(r) = "MaxBytesError" THEN 413 ELSE 400
Refusals == {Refusal(r) : r \in Requests} \ {0}
=============================================================================
