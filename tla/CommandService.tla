--------------------------- MODULE CommandService ---------------------------
(***************************************************************************)
(* What callers of rcon.Conn may rely on.  Commands are sent one at a time *)
(* and run in the order in which they were sent, each at most once.  A     *)
(* call that succeeds has had its command run.  One that fails before its  *)
(* turn never will; one that fails later may find it run at any time, but  *)
(* before those sent after it.                                             *)
(***************************************************************************)
EXTENDS Integers, Sequences

CONSTANTS Callers, NoOne

VARIABLES
    calls,   \* how many calls were made; a command is named by its call
    arg,     \* the command of each caller, 0 if it is not in a call
    turn,    \* the caller whose command has been sent and that waits for the answer
    queue,   \* what was sent and not read: commands, 0 for what runs none
    ran,     \* commands that were run
    out      \* how the last call of each caller ended

vars == <<calls, arg, turn, queue, ran, out>>

Outcomes == {"ok", "err", "unsure"}

Init ==
    /\ calls = 0 /\ turn = NoOne /\ queue = <<>> /\ ran = {}
    /\ arg = [c \in Callers |-> 0]
    /\ out = [c \in Callers |-> [n |-> 0, kind |-> "none"]]

Call(c) ==
    /\ arg[c] = 0
    /\ calls' = calls + 1 /\ arg' = [arg EXCEPT ![c] = calls + 1]
    /\ UNCHANGED <<turn, queue, ran, out>>

Reject(c) ==
    /\ arg[c] = 0
    /\ calls' = calls + 1 /\ out' = [out EXCEPT ![c] = [n |-> calls + 1, kind |-> "err"]]
    /\ UNCHANGED <<arg, turn, queue, ran>>

(* The command may be lost on the way. *)
Send(c) ==
    /\ arg[c] # 0 /\ turn = NoOne
    /\ turn' = c /\ queue' \in {queue, Append(queue, arg[c])}
    /\ UNCHANGED <<calls, arg, ran, out>>

Ended(c, kind) ==
    /\ out' = [out EXCEPT ![c] = [n |-> arg[c], kind |-> kind]]
    /\ arg' = [arg EXCEPT ![c] = 0] /\ turn' = NoOne
    /\ UNCHANGED <<calls, queue, ran>>

Abandon(c) == arg[c] # 0 /\ turn = NoOne /\ Ended(c, "err")

(* A call that gets no clear answer is unsure. *)
Finish(c) ==
    /\ turn = c
    /\ \E kind \in Outcomes : (kind = "ok" => arg[c] \in ran) /\ Ended(c, kind)

(* Something else is sent, that runs no command. *)
Ask ==
    /\ queue' = Append(queue, 0)
    /\ UNCHANGED <<calls, arg, turn, ran, out>>

Run ==
    /\ queue # <<>>
    /\ queue' = Tail(queue) /\ ran' = ran \cup ({Head(queue)} \ {0})
    /\ UNCHANGED <<calls, arg, turn, out>>

Lose ==
    /\ queue' = <<>>
    /\ UNCHANGED <<calls, arg, turn, ran, out>>

Next ==
    \/ \E c \in Callers : Call(c) \/ Reject(c) \/ Send(c) \/ Abandon(c) \/ Finish(c)
    \/ Ask \/ Run \/ Lose

Spec == Init /\ [][Next]_vars
=============================================================================
