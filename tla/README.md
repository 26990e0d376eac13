# A TLA+ verification of cbrgm/rcon

`rcon` is a Go module for the Source RCON protocol: a connection type, a client
with retries and sessions, a server, an HTTP handler and a command line. This
directory models its parts, checks them with TLC on small instances, and proves
most of their safety properties with TLAPS for instances of any size.

## The system and its parts

| Part | Source | Module | State |
|---|---|---|---|
| Server life cycle | `rconserver/server.go`, `auth.go` | `RconServer` | modelled, proved |
| Connection | `rcon/conn.go`, `auth.go` | `RconConn` | modelled |
| Client and server on one socket | the above, `rconserver/response.go` | `RconExchange`, `RconService`, a refinement of `CommandService` | modelled, proved |
| HTTP session cache | `rconhttp/cache.go`, `handler.go` | `SessionCache` | modelled, proved |
| Packet framing | `rcon/packet.go`, `rconserver/response.go` | `Framing` | modelled, proved |
| Session, one-shot client, backoff | `rconclient/client.go`, `session.go`, `retry.go` | `RconClient` | modelled, proved but for one driver |
| Command line | `cmd/rcon` | `Programs`, `RconClient` | modelled |
| HTTP requests and statuses | `rconhttp/handler.go`, `request.go`, `response.go` | `Programs`, `ClientErrors`, `RconClient` | decisions only |
| Error values | `rcon/errors.go` | `ClientErrors` | modelled |
| Option setters, handler types, rendering, `fakercon` | | | not modelled: see the end |

A `Conn` owns one socket and one command at a time; `Session` and `Client` sit on
`Conn` and add reconnecting and retrying; `rconhttp.Handler` keeps a `Session` per
backend; `cmd/rcon` runs one command with a `Client` or many with a `Session`; at the
other end `Server` runs one goroutine per connection. Two modules bring the ends
together: `RconExchange` with concurrent callers and whole frames, `RconClient` with
one caller, the layers above `Conn`, and bytes.

## The modules

**`RconServer`.** One process per call of `Serve`, per accepted connection, per
call of `Close` or `Shutdown`, and per goroutine that `Shutdown` starts to wait
for handlers. A step is one critical section of `s.mu`, one access to shared state
outside it, or one operation on a socket; the loops that close sockets under `mu`
are several steps that hold it. `sync.WaitGroup` is modelled from its documented
behaviour: a waiter that wakes up and finds the counter above zero panics, because
the group was reused before `Wait` returned. The second panic of the library, in an
`Add` that falls inside the last `Done`, is not modelled; it would come of the same
race. The unlocked read of `s.cancel` in `Shutdown` is a data race and returns the
value of either side. `ServeInit` is the section that makes the maps and the
context; `ServeTrackListener` and `ServeTrackConn` are the add paths of
`trackListener` and `trackConn`; `ConnFail` is every way a read ends a connection.
`dispatch` is four steps: `Add`, the handler, which returns or panics, the write of the
response, and the deferred `Done` (`DispatchReturn`). `pending` remembers, for each
waiter, the handlers that had begun and not answered when it called `Wait`; an answer
takes a handler off it, `Done` does not, so a `Done` that came too early would show.

**`RconConn`.** `Dial`, any number of callers of `Execute`, and `Close`. Calls are
numbered, and a body is a pair of a call and a piece of its answer, so a response
can be compared with what was asked. Frames travel whole and in order. `buf` and
`part` are the contents of the `bufio.Reader`: whole frames, and whether the start
of another is there. A read that times out inside a frame leaves the stream `torn`;
from then on `ReadFrom` may decode anything. Ids wrap at `IdMax`, which is
`2^31 - 1` in the code.

**`RconExchange`** extends it by the peer: `serveConn` reading a packet only when it
has written the answer to the one before, answering in one to `MaxChunks` packets,
echoing sentinels, and dropping the connection at any time. With `mirror` it is a
Source server as the tests in `rcon/conn_external_test.go` imitate it.

**`CommandService`** is what a caller of `Conn` may rely on, without packets, ids,
deadlines or modes: calls take turns, commands are run in the order they were sent
and at most once, a success is of a command that was run. **`RconService`** maps the
exchange to it: a caller's turn is its hold on `mu`, the queue is what the server has
still to read, with 0 for a password or a sentinel, which run nothing (`Ask`), and a
command was run if the server has begun to answer it. A success from a torn stream, and an empty one in idle mode, map to `unsure`, since
nothing can be promised of them.

**`Framing`** has `WriteTo` and `ReadFrom` as operators on sequences of bytes, with the
radix of a byte and the payload limit as constants, and the loop body of
`writeResponse`.

**`ClientErrors`** names the errors as far as the code tells them apart, and has the
four functions that classify them: `isRetryable`, `isConnError`, `executeStatus` and
`exitCode`. **`Programs`** has what the programs decide before they use a client: the
flags, environment and configuration of `run`, and the requests `ServeHTTP` turns away.

**`RconClient`** follows the one goroutine that uses a `Client`: `RunSingle` with
`Client.Execute`, or `RunInteractive`, or a sequence of HTTP requests on one cached
session. Each layer's reaction to the result of the one below is an operator
(`ConnReturned`, `AttemptFailed`, `SessionReturned`, `DialReturned`), and `Conn.Execute`
reads frames from a stream of bytes with `Framing!ReadFrom`. The server frames its
responses with `writeResponse`; frames arrive in pieces (`Cuts`), and the connection
may be lost between any two. A command that is still in the socket when either end
gives up the connection may be run later (`late`). `net.torn` is a history variable: the
command at which the client first gave up inside a frame of this connection. Durations count down, so that no
clock is needed: `dl` is what is left of the deadline on the socket, `wait` of a
backoff, and `elapsed` what has passed since `Execute` was called. The shift of
`ExponentialBackoff` wraps at `MaxDuration`, and `nextID` at the largest `Int32`.

**`SessionCache`.** HTTP requests, the reaper, and `Close`. An entry and a session
are named after the request that created them. The cache mutex is never held across
anything that blocks, so its sections are single steps; the mutex of an entry is the
variable `emu`. `SessionExecute`, a summary of what `RconClient` has step by step,
computes what `Session.Execute` can return and whether its `Conn` is open afterwards,
from `isRetryable` and the errors of a dial and of a command. `Close` is called as its comment asks, with no request in flight
and none to come. `Prompt` restricts the clock: time does not pass the idle timeout
of an entry while a request is using it or waiting for it.

The `MC*` modules add symmetry sets and constant values for TLC. An operator that
stands just before another and is used nowhere is that operator with a plausible
bug in it; `PROJECT.json` says which property each of them breaks.

## What is checked

Runs that pass:

| Run | Instance | Shows |
|---|---|---|
| `server_safety` | 2 listeners, 2 connections, one `Close`, one bounded `Shutdown` | `NoLeakedConn`, `NoLeakedListener`, `GracefulDrain`, `HandlersCancelled`, `StopReportsServerClosed` |
| `server_liveness` | 1 listener, 1 connection whose handler waits for its context, both stops | `ServeReturns`, `ConnGoroutinesEnd`, `BoundedShutdownReturns`, `WaiterEnds` |
| `exchange_safety` | 2 callers, 2 calls, 3 modes, with and without mirror, ids up to 4, time up to 3 | `IdsFresh`, `MultiComplete`, `SingleFirst`, `IdlePrefix`, `DeadlineOfThisCall`, `SuccessLeavesStreamClean` |
| `exchange_service` | 2 callers, 2 calls, 3 modes, no `WithDeadline` | `CloseUnblocks`, and the refinement `ImplementsService` |
| `cache_safety` | 3 requests of any duration, 2 backends that differ in the password | `SessionExclusive`, `RightBackend`, `NeverClosedInUse` |
| `cache_prompt` | 3 prompt requests, 2 backends | `BackendSerialized`, `NoOrphan`, `CloseReleases` |
| `client` | 1 command with 1 or 4 attempts, or up to 3 on a session; responses of 0 to 3 bytes, payload limit 2 | `RunsBounded`, `SuccessIsAnswer`, `NoSocketLeak`, `BoundedByTimeout`, `BackoffWithinMax`, `HttpHeals`, `RefusedNotRun`, `CallReturns` |

Each module's type invariant is checked in the first run of it.

Why the bounds are enough. Two listeners and two connections let one be registered,
accepted or served while another is refused or closed, and one stop of each kind
lets them race. The ids of an exchange reach the wrap with two multi-packet calls
(one for the password, two per call), but do not come round to one that is still under
way, which `IdsNeverReused` covers; two calls are what it takes for a reply to be
late, and a clock of three values lets a call time out, its answer arrive and the
next call time out as well. Three requests let one run, one wait and one come after
an eviction; two backends with one address let a key that ignores the password show,
and let a sweep wait for a busy entry with an idle one behind it.
In `client` a byte has 4 values, so a word has 256 and sizes and ids are told apart;
responses are empty, exactly one packet, and more than one; a frame is cut behind
its size field and near its end. Four attempts make the shift overflow at a
`MaxDuration` of 3, and a negative number of attempts is the other edge of `WithRetry`.
Three HTTP requests let one fail, one read what is left of it, and one come after.

Runs that find what a comment says not to be so:

| Run | The comment | The code |
|---|---|---|
| `server_wait_panic` | `Shutdown`: a command "may still race past that check" | the race can make `WaitGroup.Wait` panic and end the process |
| `exchange_ctx_idle` | `Execute`: "A deadline carried by ctx bounds the round-trip" | in idle mode the idle window replaces it |
| `exchange_idle_stale` | `readIdleDrain`: "The first packet is bounded by the connection's normal deadline" | a late packet of another call counts as the first, and the result is an empty success |
| `cache_serialize` | `Handler`: "Requests to the same backend serialize" | not past the idle timeout: the entry in use is evicted and a second one made |
| `session_stranded` | README: a `Session` "reconnects on drop" | a reconnect that fails leaves a closed `Conn`, and no later call dials |

`cache_serialize` has a second effect, which `NoOrphan` and `CloseReleases` show when
`Prompt` is false: a request that waited for an evicted entry may get its mutex after
`reap`, dial a session that nothing can find, and leave it open past `Close`. With the
default timeouts both need a queue of requests that takes longer than five minutes, or
a shorter `WithIdleTimeout`. `session_stranded` concerns sessions outside the HTTP
handler, which drops a session at `ErrClosed`; that is why `HttpHeals` allows one failure.

## Fairness

Goroutines that can run do run: weak fairness per goroutine. In `RconServer` mutexes
are held across steps only by stops, of which there are finitely many, so weak
fairness is enough for those who wait. A read, an `Accept`, and a write to a client
that does not read, are assumed to return only once their socket is closed, and a
handler only once its context is done if it watches it; clients may do nothing, and
nobody has to call `Close` or `Shutdown`. A
`Shutdown` that is not bounded may wait for ever. In `RconExchange` only callers that
have begun, and `Close` once begun, are fair; the server is not. In `SessionCache` a
request ends because the client bounds dialing and each command. In `RconClient` the
client's goroutine and the clock are fair, and nothing else: the server may never
answer, and the user need not enter anything. `CallReturns` rests on two more
assumptions: an answer is finite, so that idle mode comes to its end, and a `DialFunc`,
which owns its connection setup (`WithDialTimeout` does not apply to it), returns within
`DialTimeout` as well.

`CHECK_DEADLOCK FALSE` appears in every configuration because every one of these
systems may come to rest: all connections closed, all calls returned.

## What is proved

**The server.** `RconServerProofs` proves for every set of listeners, every finite set
of connections and every set of callers of `Close` and `Shutdown` (`ServerAssumption`) that `Spec`
implies the type invariant and each safety property of `server_safety`. None of them
is inductive. The inductive invariant `IInv` adds

- `LockInv`: who is in a section of `mu` holds it, and one process at most does;
- `ConnInv`: an open socket is in `conns`, or in the hand of a `Serve` that has not
  decided about it, and goroutines and sockets agree about how far they are;
- `CloseConnsInv`: while a stop closes connections, every open one it has still to
  close is in its `todo`, because `inShutdown` refuses new ones;
- `ListenerInv`: the same for listeners, and that a listener is closed only by its
  own `Serve` or after `inShutdown` was set;
- `CtxInv`: a connection exists only if some `Serve` had made the context, so the
  value of `s.cancel` that a stop saw is not nil if any connection was ever tracked;
- `WaitInv`: `wg` is the number of dispatches in flight, and the handlers that
  `Shutdown` has seen begin and that have not answered are among them until its waiter
  is woken.

There is one lemma per conjunct, with a step per action that can disturb it.

**The session cache.** `SessionCacheProofs` proves, for any requests, backends and idle
timeout, all of `cache_safety`, and of `cache_prompt` the two invariants. The inductive
invariant: who is between `Lock` and the deferred `Unlock` holds the mutex of its entry
(`LockInv`); a session belongs to the entry for which it was dialed (`OriginInv`); an
entry serves one backend, the one of its key (`BackendInv`); a sweep holds entries only
while it visits them, `Close` finds no request in flight, and a cutoff is at least the
idle timeout in the past (`SweepInv`). `PromptInv` adds, under `Prompt`, that an entry in
use is in the map, because its last `get` is too recent for `reap`.

**The exchange.** Three modules, for any number of callers, any deadlines and any
number of packets in an answer.

- `RconExchangeProofs`: the type invariant; `DeadlineOfThisCall`, from `FlightInv`, which
  says who holds `mu` and that the deadline is set by that caller before anything is
  read; and `CallInv`, that no command is under way twice or for two callers.
- `RconStreamProofs`: `OpenInv`, that `Dial` leaves no packet behind, and `StreamInv`, which
  describes the whole line from the server to the caller that holds `mu`. It is a number
  of frames of earlier calls, then the rest of this call's answer in order, then the
  echoes of its sentinel; what the server has still to read is split in the same way
  (`Own`). `MultiComplete` and the others say only what a caller has got once it has
  returned, which no step preserves without such a description.
- `RconServiceProofs`: the results. `AnswersWhenFresh` proves `MultiComplete`, `SingleFirst`
  and `IdlePrefix` as long as `IdsFresh` holds, which says that the id `nextID` is about
  to give out is carried by no packet still under way. Nothing in the code ensures that
  after a wrap, so the next five theorems assume `2 * MaxCalls < IdMax`: a call uses two ids at
  most and `Dial` one, so a `Conn` of the code is covered up to 2^30 - 1 calls.
  `IdInv` counts the ids that waiting callers will still use. Under that assumption
  `IdsNeverReused`, `MultiAnswersWhole`, `SingleAnswersFirst`, `IdleAnswersPrefix` and
  `StreamLeftClean` prove the properties of `exchange_safety`. `exchange_safety` itself
  lets `nextID` wrap once.
- `ExchangeIsService`, in the same module and under the same assumption, proves the
  refinement `ImplementsService`: each step of the exchange is a step of
  `CommandService` or leaves what is mapped unchanged (`RefineStep`). That a success
  is of a command that was run is where `StreamInv` is needed.

**Framing.** `RconFrameProofs` proves that `ReadFrom` undoes `WriteTo` and leaves the rest of
the stream alone (`FrameRoundTrip`), that a frame which is cut anywhere is an error
(`CutFrameIsError`), and that a round of `writeResponse` loses nothing, stays within the
limit and gets on (`ResponseIsSplit`): for every radix, payload limit and packet. The
module goes on with the types of `RconClient` (`CallType`, `ByteType`) and with what
each step of the server does to the bytes under way.

**The client.** `RconClientProofs` proves these properties of `client` for all options,
timeouts and response lengths.

- `SocketInv` ties the number of open sockets to the place in the code and the state of
  the `Conn`, for `NoSocketLeak`.
- `TimeInv` says that what has passed and what is left on the socket's timer never add up
  to more than the timeout, for `BoundedByTimeout`; it holds because every new timer is
  computed by `Sooner`.
- `RunsBounded` follows from a budget: `PlanInv` counts the attempts, `Budget(n)` is how
  often command `n` may have been sent by now, only `Send` uses it up, by one, and only a
  new attempt adds to it, by one; packets move from the queue to the server or are
  lost, but never multiply.
- `RefuseInv` says that a command which `Conn.Execute` will refuse is sent by no attempt
  and that `executeStatus` is 4xx for no other error, for `RefusedNotRun`.
- `TypeOK` and `BackoffWithinMax` follow from the types. `Delay` tests `d \in 1..Max`,
  as the code's `d > max || d <= 0` does, so its bound needs no fact about the shift.

`RconAnswerProofs`, which it extends, is about what these leave out: the bytes that
`Execute` returns.
`OrderInv` describes the stream behind a socket byte by byte. It is clear, or lost, or
holds what the server has written, is writing and has still to write for the command
in hand, with the part the client has read in front (`Own`); after a single-packet
read it may also hold what that read left (`Left`, `Astray`), under an id that the next
call does not accept. With it,

- `SuccessAnswersCommand` proves `SuccessIsAnswer` for `Orderly` programs: `RunSingle` in every mode
  and the HTTP handler in the two modes that read a response to its end. These never go
  on with a torn stream, so for them it holds without the proviso about one;
- `HandlerHeals`, at the end of `RconClientProofs`, proves `HttpHeals`. `HealInv` says what one failed request leaves: no
  session, or one whose connection is lost, so that the next request dials or finds
  out in time for its reconnect.

Only model-checked:

- all liveness (`ServeReturns`, `ConnGoroutinesEnd`, `BoundedShutdownReturns`, `WaiterEnds`,
  `CloseUnblocks`, `CloseReleases`, `CallReturns`), which depends on fairness and is out of the prover's
  reach;
- `SuccessIsAnswer` for `RunInteractive` and for the handler in idle mode, where a
  `Session` goes on with a connection on which any number of earlier answers may still
  be under way. `OrderInv` describes one command and what the last one left;
- the ids of an exchange after more than 2^30 calls, beyond `AnswersWhenFresh`.

## What the models leave out

- `validate` accepts the `Server`; the error results of the `Close` methods.
- A write fails or succeeds whole. On the server it may take for ever, when the client
  does not read; on the client it returns at once. Partial writes are not modelled.
- What passwords and commands contain; the length limit of a command is a possible
  outcome of `Execute`.
- Cancellation of a context without a deadline, which `Conn` does not observe.
- Properties of responses, here and in `RconClient` (`SuccessIsAnswer`), are stated for
  streams that no earlier call has torn. On a torn stream `ReadFrom` takes whatever comes
  next for a header, and nothing in the code marks such a `Conn`: whether a response is
  right then depends on the bytes of the bodies. For the same
  reason `HttpHeals` leaves out idle mode: there a response may end in the middle of a
  frame without an error, and the session stays in the cache.
- The time an idle read takes: in that mode the whole call is not bounded by the
  timeout (`exchange_ctx_idle`), and `BoundedByTimeout` leaves it out.
- A server that answers commands with id -1.
- An `Addr` with a NUL in it, which `cacheKey` would not tell from another backend's:
  `Key` is the pair of address and password.
- `ExponentialBackoff` with the largest duration as its maximum, where the argument of
  `Int64N` overflows.

Not modelled at all: the option setters, each of which stores a value that is a constant
here; the interfaces and accessors of `rconserver/handler.go`; `writeResult`, `writeError`
and `wantsText`, prompts and messages, which only render; `promptFor`,
`defaultConfigPath` and `envFromOS`, which only fetch strings; and `fakercon`, a handler
for tests. None of them has state that another part depends on.

## What could come next

1. `AnswersWhenFresh` past the wrap of `nextID`, from a bound on how many calls may time
   out in a row while their answers are still under way.
2. A bounded send buffer between the two ends, so that both can wait for each other.
