---------------------------- MODULE ClientErrors ----------------------------
(***************************************************************************)
(* The errors that rcon, the network and the operating system hand to the  *)
(* layers above a Conn, and what each layer makes of them.  "net" is a     *)
(* net.Error that is no timeout, "timeout" one that is, "dialer" any other *)
(* error of a custom DialFunc, "nil" no error.                             *)
(***************************************************************************)
EXTENDS Integers

NetErrors == {"net", "timeout", "DeadlineExceeded"}

(* What ReadFrom can fail with, apart from the network. *)
ReadErrs == {"EOF", "ErrUnexpectedEOF", "ErrResponseTooShort", "ErrResponseTooLong"}

CommandErrs == {"ErrCommandEmpty", "ErrCommandTooLong"}

Errors == NetErrors \cup ReadErrs \cup CommandErrs \cup
          {"nil", "dialer", "ErrClosed", "ErrResponseMismatch", "ErrAuthFailed",
           "ErrInvalidAuthResponse"}

(* rconclient: worth another attempt.  context.DeadlineExceeded has the    *)
(* methods of a net.Error.                                                 *)
IsRetryable(err) == err = "EOF" \/ err \in NetErrors

(* rconhttp: the cached session is of no more use. *)
OnlyRetryable(err) == IsRetryable(err)
IsConnError(err) ==
    err \in {"EOF", "ErrClosed", "ErrResponseMismatch"} \cup NetErrors

(* rconhttp: the status of the HTTP response. *)
StatusOfClient(err) == IF err = "nil" THEN 200 ELSE IF err \in NetErrors THEN 504 ELSE 400
ExecuteStatus(err) ==
    CASE err = "nil"                             -> 200
      [] err \in CommandErrs                     -> 400
      [] err \in {"DeadlineExceeded", "timeout"} -> 504
      [] err = "net"                             -> 503
      [] OTHER                                   -> 502

(* cmd/rcon: the exit code of the process. *)
ExitCode(err) ==
    CASE err = "nil"           -> 0
      [] err = "ErrAuthFailed" -> 3
      [] OTHER                 -> 2
=============================================================================
