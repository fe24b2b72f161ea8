# A TLA+ model of xcp-storage

`xcp_storage` is a small Python library shared by the storage components of an
XCP-ng host. It has no process of its own: it is called by storage drivers and
daemons, several of which run at the same time on the same host, and it acts on
things they share, the firewall of the host, its systemd units, a connection to
a peer. What is hard about it is there, and not in any single function: another
process between two commands, a command that fails half way, a host that
restarts, a peer that is slow, a request that is half sent.

All paths below are relative to the repository; `network/`, `utils/` stand for
`src/xcp_storage/network/`, `src/xcp_storage/utils/`.

## 1. Inventory

### Firewall ports: `network/iptables.py`

* **State.** None in the process. The state is the host's: the chains and rules
  of the kernel, and the file from which the boot restores them.
* **Operations.** `update_iptables_tcp_port` and `update_iptables_tcp_port_range`
  open or close a port or a range in a chain. Both run `-C` on the port rule;
  an open sets the chain up (`-N`, `-C`/`-A` of a `RETURN`, `-C`/`-I` of a jump
  from `INPUT`), inserts the rule with `-I`; a close deletes it with `-D`; both
  end with `service iptables save`. An operation is up to eight commands.
* **Interactions.** Runs commands through `utils/process.py`. Other processes of
  the host run the same functions: no lock is taken around an operation.
* **Hard.** Check-then-act across commands; interruption between any two;
  a command that has its effect and is reported as failed; retry after failure.
* **Correct when.** A rule that `-C` finds admits traffic (the early return of
  an open relies on it); a call changes no port but its own, at any moment; a
  call that returns did what it was asked; a failed or killed call never makes
  a later one fail; what changed is saved, or the caller was told; rules do not
  pile up; every call ends.

### External commands: `utils/process.py`

* **State.** None.
* **Operations.** `run_command`: start a command, wait, return the output and
  the exit code, or raise `CommandError` with the code, or without one when the
  command cannot be started or its output cannot be decoded.
* **Hard.** No timeout; an error of one kind for "could not be run" and "ran,
  and its output is not UTF-8", after which the effect may have happened.
* **Correct when.** Callers tell an answer from a failure.

### systemd services: `utils/service.py`

* **State.** None in the process; the unit's enabled/active state, its file and
  what systemd has loaded of it are systemd's.
* **Operations.** `is_service_active`, start, stop, restart, try-restart,
  `enable --now`, `disable --now` and daemon-reload, each one `systemctl`
  command.
* **Hard.** Commands with two effects, which may fail or be overtaken between
  the two; `is_service_active` answers `False` when `systemctl` itself cannot be
  run; a unit that stops by itself.
* **Correct when.** What a call that returns was asked was so at some moment of
  the call; an answer can be relied on to the extent the code can know.

### Stream sockets: `network/socket.py`, `socket_send`, `socket_receive`, `Socket`

* **State.** The `Socket` wrapper's `sock` and `keep_open`; the two byte
  streams, their buffers and the mode of the socket are the kernel's.
* **Operations.** `send` (loop on partial sends, `select` after `EAGAIN`),
  `receive` of an exact length (loop on partial reads), `close` (shutdown, then
  close, unless `keep_open`), `__exit__`, `__del__`, the `timeout` attribute.
* **Interactions.** A peer at the other end, which may be slow, silent, or gone;
  other threads that share the `Socket`.
* **Hard.** Partial progress when a timeout or a disconnection interrupts a
  call; a lost connection that looks like a timeout (`ETIMEDOUT`); both sides
  sending; a close while another thread is blocked, or is between an `EAGAIN` and
  its `select`, which also takes no descriptor of `FD_SETSIZE` or more.
* **Correct when.** What is received is a contiguous, in-order part of what was
  sent; messages stay framed as long as no call failed; a close wakes a blocked
  call; a call with a timeout ends.

### Socket creation and address resolution: `network/socket.py`

* **State.** The descriptor being built.
* **Operations.** `create_server_sock`, `create_client_sock`, with the steps
  resolve, `socket`, TLS, `SO_REUSEADDR`, timeout, then `bind` and `listen`, or
  `connect`; `get_ip_address`, `format_address`. The resolver is external.
* **Hard.** Every step may raise, inside or outside the `try`, with an `OSError`
  or something else; two servers that may both bind a port, on one address or on
  two of which one stands for the other, or that ask for any port; a peer that
  never answers a connect; a timeout of 0.
* **Correct when.** A creation that fails with a `SocketError` leaves no
  descriptor open; a socket that is returned waits as asked; a creation with a
  timeout ends.

### JSON-RPC objects: `utils/json/rpc/__init__.py`

* **State.** A request or a response keeps its fields, and caches its payload
  and its text; setters drop both caches. An error keeps its fields and caches
  its payload, for good.
* **Operations.** Constructors, setters, `payload`, `to_json`, `from_payload`,
  `from_json`, for a request, a batch, a response and a response error.
* **Hard.** A cache that no longer agrees with the fields; a list or a dict that
  is changed in place: a body, an error that is looked into only when it is
  assigned, a payload that `from_payload` keeps and its caller still has; a value
  that is false in Python (`0`, `""`) where the code means "absent"; setters that
  allow what the constructor refuses.
* **Correct when.** The payload and the text of an object say what its fields
  say; what is written can be read.

### JSON-RPC dispatcher and processor: `utils/json/rpc/__init__.py`, `utils/reflection.py`

* **State.** The dispatcher's table of methods, which may grow and change at any
  time; nothing between requests. A result is held by reference until it is
  converted.
* **Operations.** `method` registers a function, `call_method` calls one;
  `process` serves a text: a request or a batch.
* **Hard.** Which of the many errors answers which identifier; whether the
  function ran, which is told from its signature, and a function may have none or
  another one's; batches whose elements succeed, fail, or are no requests; results
  that later requests or other threads change.
* **Correct when.** Every request with an identifier is answered exactly once,
  with that identifier; an answer says truly whether the function was run. The
  code means not to answer a request without identifier; it does answer one that
  fails (see Findings).

### Left aside

`log.py`, `utils/exception.py`, `typing/`, `config/platform.py` and
`utils/json/__init__.py` keep no state another part reads. `stubs/linstor` are
type stubs of a third-party client. `tests/` were read as statements of what the
code is meant to do.

## 2. Plan

The order is by what a wrong behaviour costs on a host and how far a unit test
is from reaching it.

| # | Module | Uses | Abstract specification | Status |
|---|---|---|---|---|
| 1 | `Command` | | | done |
| 2 | `Iptables`, `MCIptables` | `Command` | `PortAccess` | done |
| 3 | `IptablesProofs` | `Iptables` | | done |
| 4 | `IptablesRefinement` | `IptablesCallProofs` | `PortAccess` | done |
| 5 | `SocketStream`, `MCSocketStream` | | `MessageChannel` | done |
| 6 | `SocketProofs` | `SocketStream` | `MessageChannel` | done |
| 7 | `IptablesCallProofs` | `IptablesProofs` | | done |
| 8 | `RpcObject`, `MCRpcObject` | | | done |
| 9 | `RpcProcessor`, `MCRpcProcessor` | | | done |
| 10 | `Service`, `MCService` | `Command` | | done |
| 11 | `SocketCreation`, `MCSocketCreation` | | | done |
| 12 | `RpcObjectProofs`, `RpcProofs` | 8, 9 | | done |
| 13 | `ServiceProofs`, `CreationProofs` | 10, 11 | | done |
| 14 | `MessageChannel` | | (is one) | done |

## 3. The firewall model

### `Command`: what a caller learns from a command

An exit code is one of 0, 1, 2 (which stands for every other code, negative
ones included: the code of the repository never tells them apart) and `NoCode`
(`CommandError` without a code). `Raises(exit, expected)` is
`run_internal_command`: whether the caller gets a `CommandError`.

### `Iptables`: the operations, command by command

| Variable | In the code |
|---|---|
| `live` | the kernel's rules: which chains exist, and per chain the sequence of the targets of its rules (external) |
| `saved` | the file written by `service iptables save` (external) |
| `pc[p]` | where process `p` is in `_update_iptables_ports`: the command it runs next |
| `call[p]` | `open_ports`, `chain`, and the rest of the rule (protocol, match, ports, `ACCEPT`) as one value |
| `result[p]` | how the last call ended |
| `snap[p]` | what `service iptables save` of `p` has dumped and not yet written (external) |
| `faults` | how many faults and interrupts there were (bound) |
| `hit`, `owed`, `users` | history, read by properties only; `users[a]` is who called last for the port rule `a`, or everybody who ever did once two such calls have overlapped |

One action is one external command *and* what the code does with its outcome, so
that everything the code does between two commands is in one step, and other
processes act between any two:

| Action | Command | Code |
|---|---|---|
| `Begin` | | the two public functions |
| `CheckPort` | `-C` port rule | `has_iptables_rule`, the early return |
| `CreateChain` | `-N` | `_ensure_iptables_chain_exists` |
| `CheckReturn`, `AddReturn` | `-C`, `-A` `RETURN` | same |
| `CheckJump`, `InsertJump` | `-C`, `-I` jump from `INPUT` | same |
| `InsertPort`, `DeletePort` | `-I`, `-D` port rule | `_update_iptables_ports` |
| `SaveStart`, `SaveEnd` | `service iptables save` | `_save_iptables_changes` |
| `Crash`, `Reboot` | | the process is killed; the host restarts from the file |

`Outcomes` says how a command may end: as it replies; or with a code of
`FaultCodes`, its effect done or not. A fault of code 1 looks like an answer to
`-C` and `-N`; 2 and `NoCode` are seen as failures. The save is external; it
dumps the rules, then replaces the file, and other processes act in between.

`Crash` ends the process between two commands, or in the middle of a save. A
command that survives its killed caller (`utils/process.py:94` starts an
independent process) and has its effect later is not modelled.

Choices made:

* The rest of a port rule is one opaque value. Rules that differ in the
  protocol, in `stateful` or in the port are different rules for `iptables`,
  and overlapping ranges are too: the code compares whole rules, never ports.
* The `updated` flag returned by `_ensure_iptables_chain_exists` is not
  modelled: its only caller ignores it.
* `Init` is a host on which no port was opened yet, with the chain missing,
  empty, with its `RETURN`, hooked or not: what an administrator or an
  interrupted set-up leaves. The argument `chain` is not `INPUT` itself
  (`NamesAssumption`), nor is it named like a target.
* A reboot restores the saved rules and nothing else.

### `PortAccess`: the promise

Chains, commands and exit codes are gone. There are the copies of each rule that
admit traffic now (`effective`), those that will after a boot (`durable`), and
for each caller its request, its stage, the image it is about to save and its
answer. A call is asked, then granted, then photographed, then persisted, or it
finds the rule as asked, or it is abandoned:

| Step | What it may do |
|---|---|
| `Ask`, `Abandon`, `Boot` | begin a call; end it without an "ok", nothing changed; restart from what is durable |
| `Grant` | one copy more of the call's own rule, or one less; the call goes on or ends with an error |
| `Find` | answer "ok" at once: the rule is as asked at that moment (or a close was told so by a lookup that failed with the code of a missing rule: `Mistakes`) |
| `Photograph`, `Persist` | dump what is in effect; save that dump, and answer "ok" or "error" |

So the promise is about the *answers* too: a call that changed something answers
"ok" only by its `Persist`, after its own `Grant` and its own `Photograph`, in
that order. It promises no more than the code can keep: a close removes one copy
where races left several, a dump may be older than what another process has
saved since, and a call that finds the rule as asked saves nothing.

`ImplementsPortAccess` maps `effective` to `InEffect(live)`: for each port rule
the number of its positions a packet meets, that is, the chain is jumped to from
`INPUT` and no `RETURN` stands above. So it also says that no intermediate table
of a seven-command open admits or cuts off a port other than the one asked for.

### Runs

| Run | Instance | Question |
|---|---|---|
| `iptables_serial` | 1 process, 2 chains, 2 ports, 2 faults | `OkIsApplied`: a call that returns did its work, whatever went wrong in earlier ones. `UnsavedIsOwed`: rules differ from the file only while a call is about to save them or after one that raised or died. `ListedIsEffective`, `TypeOK`. |
| `iptables_refines` | 2 processes, 2 ports, 1 fault | `ImplementsPortAccess`. `OkIsApplied` beside another process: a call that returned stays applied until another process calls for the same port rule, whatever that process does to other ports of the chain. `ErrorsHaveCause`: a call raises only if a command of it failed, or if it closes a port rule for which two calls have overlapped. |
| `iptables_liveness` | 2 processes, 1 port, 1 fault of any code | `CallsEnd`. `CopiesBounded`: races leave at most one copy of a rule per process, and one more for each fault: where one may have code 1, the bound counts every fault, of any command and code. `IInv`, the inductive invariant. |
| `iptables_lost_save` | 1 process, 1 port, 1 fault | `OkIsDurable`, violated: see Findings |

*Bounds.* `MaxFaults` is the only bound of the model; calls are not counted, a
process makes any number of them. Each property of a race is about two actors
that meet on one rule or one chain: two processes on one chain make every pair of
commands interleave, and two ports make "another port" exist. That more
processes bring nothing new is not left to the bound: the invariants are
proved for any number. Two chains are needed only for what one call
could do to another chain, so they are in the serial run. One fault suffices for
"a call interrupted anywhere, then other calls"; the serial run has two, so that
a repair may be interrupted again. In `iptables_serial` and `iptables_refines`
no fault has code 1: a `-C` that answers 1 for a rule that is there makes a
close return at once, and `OkIsApplied` false. That is in the nature of
`iptables`, whose manual gives 1 for "other errors"
(`network/iptables.py:57`); `iptables_liveness` and the proofs allow it.

*Symmetry.* Processes, ports and chains are interchangeable: no definition picks
one, and the initial call of every process is any call. Symmetry is used for
invariants and for the safety refinement, never with fairness.

*Fairness.* `FairSpec` has weak fairness of `Step(p)`: `subprocess.run` waits for
its command, and the process goes on when the command ends. That every command
ends is assumed: the code sets no timeout. `Begin`, `Crash` and `Reboot` are not
fair: nothing makes a caller call.

*Deadlock* is checked in every run: an idle process may always call.

### Findings

`iptables_lost_save`: the kernel's rules are all the code compares with the
request. When a save fails, the caller gets an `IptablesError`; when it tries
again, `-C` finds the rule as asked and the call returns without a save. The
caller believes the port is open (or closed) for good, and the next boot loses
it. A process killed between the change and the save leaves the same state.

## 4. The socket model

### `SocketStream`: the loops of `socket_send` and `socket_receive`

| Variable | In the code |
|---|---|
| `stream[e]`, `taken[e]` | the bytes the kernel accepted from the end `e` so far, and how many `e` has received (external) |
| `shut[e]`, `closed[e]`, `broken` | the effect of `shutdown` and `close`; whether the connection is reset, or lost by the network (external) |
| `mode[e]` | what the last `settimeout` made of the socket: blocking, with a timeout, or non-blocking (external) |
| `keep_open[e]` | the attribute of the `Socket` |
| `pc[t]` | `loop`: about to call `send` or `recv_into`; `wait`: blocked in it; `again`: in the handler of `EAGAIN`; `select`: blocked there; `closing`: between the shutdown and the close |
| `op[t]`, `size[t]`, `pos[t]`, `buffer[t]` | the function and its local variables |
| `result[t]` | how it ended: `ok`, `range` (size out of range), `timeout`, `disconnected`, or `escaped`, an exception that is no `SocketError` |
| `origin`, `calls`, `failed` | history, read by properties, by the bound on calls and by the tags of the bytes |

A byte is a tag: which send of its end carried it, and its place in the buffer.

| Action | Code |
|---|---|
| `Begin` (`Enter`, `Refuse`) | `_get_buffer_size` and the lines before the loop |
| `SendChunk`, `ReceiveChunk` | a `send` or `recv_into` that moves one byte or more, `pos += n`, and the test of the loop |
| `Disconnect` | an `OSError`, or an answer of no byte, and what is raised for it |
| `Wait`, `Timeout` | the thread is blocked in the call; what is a `TimeoutError` to Python: the timeout, and `ETIMEDOUT` |
| `Again`, `Select`, `Wake` | `EAGAIN`, the call of `select`, its end |
| `Close`, `CloseDescriptor` | the two steps of `Socket.close`, also for `__exit__` and `__del__` |
| `AssignTimeout` | `Socket.timeout = value` with `_normalize_timeout` |
| `Reset`, `Lose` | the kernel and the network (external) |

Choices made:

* How many bytes a call moves is any number from one to what is asked for and
  what the connection has or can hold.
* The two steps of a close are apart since another thread may act between them:
  only the shutdown wakes it, and a descriptor that is closed under `select`
  makes it raise `ValueError` or `OSError`, which the handler does not catch.
  `select` refuses the descriptors of the ends in `High` in the same way: they are
  `FD_SETSIZE` or more, as in a process that has many files open.
* The kernel answers a lost connection with one of several errors. `ETIMEDOUT` is
  among them, and Python makes it a `TimeoutError`, which the loops catch first:
  the caller is told of a timeout though the socket may have none. Any other one
  is a disconnection, and a reset never is a timeout.
* The last chunk of a transfer and its return are one step: nothing of the
  connection lies between them. So `MessageChannel` says of a message that it is
  there once its last byte is.
* A thread sends, or receives, alone at its end (`SingleAssumption`): the code
  takes no lock, and two loops that interleave their chunks would mix messages.
* A timeout is assigned between transfers. The peer of a `Socket` is modelled
  as another `Socket`; one that sends other bytes is as good for the receiver,
  whose properties speak of the connection and not of the sender's calls,
  `Framed` excepted.
* `mode` may be `nonblocking` at first: `Socket` wraps a socket it did not
  create, and the loops have a handler for `EAGAIN`.

### `MessageChannel`: the promise

Two peers that exchange messages of one size see none of this. `MessageChannel`
is what they may rely on: per direction a queue of whole messages, with the
steps `Send`, `Receive`, `Turn` (the receiver goes on to something else) and
`Lose`. A message is there once its send returned, is received once and in its
turn, and a part of one is never seen. `ImplementsMessageChannel` maps `sent` and
`received` to the calls that are over, so that a transfer is one step however
many chunks it took, and `inbox` to the buffer of the receive that returned last,
byte by byte.

A direction is lost when a transfer of it raises, at either end. The channel then
promises nothing, and neither does the code: how far the transfer came is told to
nobody (hazards at `socket.py:264` and `:289`), so that the next receive may begin
in the middle of a message. `Contiguous` still holds.

The map needs messages of one byte at least: a receive of none returns without a
send, in the code as in the model.

### Runs

| Run | Instance | Question |
|---|---|---|
| `socket_bytes` | sender, a closing thread beside it, receiver; 3-byte buffers, two calls each, a connection and a receive buffer of 2, which may break | `Contiguous`: the bytes moved so far are, in order, those of the connection from where the transfer began, and a call returns exactly when all are moved. `ErrorsHaveCause`: which exception may arise when. `TypeOK`. |
| `socket_framing` | two peers that send and receive, and a thread that closes and assigns timeouts -1, 0, 5 or none; 2-byte messages, 2 in each direction, a connection of 3 | `Framed`: the n-th receive returns the n-th message while no transfer of the direction raised. `ImplementsMessageChannel`. `OnlySocketErrors`: every exception is a `SocketError`. |
| `socket_liveness` | two peers that both may send, or both receive, and a thread that closes; one 2-byte message in each direction, a connection of 1, all modes | `CloseWakes`; `TransfersEnd`, also when both send, or both receive |

`socket_bytes` checks `IInv` too, the inductive invariant of the proofs.

*Bounds.* `MaxCalls` bounds how often an end sends and how often it receives;
two calls show what the first leaves to the second. `Lengths`, `Capacity` and
`RECEIVE_BUFFER_SIZE` are small so that a buffer exceeds what a call may move,
in each of the two ways: three bytes through a connection of two, and a
connection of three for messages of two, whose end and beginning share a chunk.
The liveness run has one call of each kind: a wait is in one call. A connection is
lost only in `socket_bytes`; elsewhere closes reset it. There the descriptor of
one end is `High` and that of the other is not, so that both what escapes from
`select` and what waits in it occur; in `socket_framing` both are, and no
exception escapes all the same, as no socket is non-blocking.
`socket_bytes` starts from timed and non-blocking sockets, `socket_framing` from
timed ones, as a blocking one does what a timed one does before its timeout; the
assigned timeouts make it blocking.

*Fairness.* `FairSpec` has weak fairness of `Step(t)`, what a call that has begun
does next, and of `Reset`. A blocked thread goes on when the kernel has an answer
for it, a timeout expires, and the kernel resets a connection whose end was
closed with bytes unread. Nothing makes a caller begin a transfer, close, or
receive what its peer sends: without a timeout two senders do wait for each
other for ever, and the runs do not claim otherwise.

*Deadlock* is not checked: the calls are bounded, and a receive without a timeout
may wait for bytes that nobody sends.

## 5. The model of the JSON-RPC objects

### `RpcObject`: fields, and what is cached of them

| Variable | In the code |
|---|---|
| `kind[o]` | the class: `JsonRpcRequest`, `JsonRpcResponse`, `JsonRpcResponseError` |
| `heap[c]` | what a list or a dict, held by reference, holds now: a body, or the error of a response |
| `fields[o]` | the fields: `_identifier`, `_method`, `_params`; `_error`, `_result`; `code`, `message`, `data` |
| `modified[o]` | `_modified`; of an error, `_payload is None` |
| `payload[o]`, `text[o]` | `_payload`, `_json_payload` |
| `held`, `late`, `altered` | history, read by properties only: what each list and dict of an object held since it was assigned; the errors that were assigned to after their payload was made; the objects whose payload was changed in place |

| Action | Code |
|---|---|
| `Assign` | the setters `identifier`, `method`, `params`, `args`, `kwargs`, `error`, `result`, which drop both caches; of an error, an assignment to an attribute, which drops nothing |
| `Mutate` | the caller changes a list or a dict in place: nothing of the object runs |
| `Alter` | the same, of the dict of the payload, which the property returns and `from_payload` keeps |
| `AskPayload` | the property `payload` |
| `Tell` | `to_json`, also when `json.dumps` raises after the payload was made |
| `FromPayload`, `FromJson` (`Become`) | the readers: a request or a response keeps the dict it was read from as its payload; what is in that dict is the caller's, or made by `json.loads` and nobody else's |

Choices made:

* A body (`params`, `result`, `data`) and the `error` of a response are cells; a
  cell holds one of a few contents: nothing, which Python takes for false; what
  JSON refuses; what has the code and the message of an error, and what has not.
  The setter of `error` looks into the dict when it is assigned, and nothing does
  after that. Other values are opaque, but for being false or refused.
* `Alter` removes a member of a payload: the properties ask nothing of an object
  in `altered`, whatever the change was. Objects share cells, never payloads.
* A constructor and a reader that raise leave no object and are no step.
  `WrittenIsRead` is where what the reader refuses matters.
* The member `jsonrpc` and the caller's own conversions are left out.

### Run

| Run | Instance | Question |
|---|---|---|
| `rpc` | one object of any class, two cells | `PayloadTrue`, `TextTrue`: a payload or a text that is kept says what the fields say, whatever was assigned, read, asked for or changed in place before. `WrittenIsRead`: what is written is taken by the reader, unless an error or the payload itself was changed in place. `TypeOK`. |

*Bounds.* The model has none. One object, since objects share nothing but the
lists and dicts they are given, and a change of one is a `Mutate` whoever makes it;
two of them, which are interchangeable (*symmetry*), are enough for "another one
than before" and for an error and a result. The proofs have any number of both.
Contents are nothing, an error, what is no error, and what JSON refuses.
Identifiers are a number or none; method names include `""`, which is false as
the identifier `0` is, and a reserved one.

*Deadlock* is checked: a list can always be changed.

The properties name what the code does not hold. An identifier that Python takes
for false is dropped from a request (`utils/json/rpc/__init__.py:247`), which then
reads as a notification. A text is as old as the last assignment when a list is
changed in place. An error that loses its message in place is written as a text
that `from_json` refuses (`:366`-`376` look at it only when it is assigned), and
so is a payload that lost a member. `WrittenIsRead` excepts these two and nothing
else: `Intact(o)` says that an error has always been one since it was assigned.

## 6. The model of the JSON-RPC processor

### `RpcProcessor`: a text, its requests, their functions, the reply

| Variable | In the code |
|---|---|
| `table` | `_name_to_method` of the dispatcher |
| `shared` | an object that functions change and return by reference: how often it was changed |
| `pc[t]` | `call`: in the loop over the requests; `convert`: between the return of the function and `response.to_json()`; `reply`: `process` has returned |
| `batch[t]`, `requests[t]`, `next[t]` | the request or the batch, and the place of the one at hand |
| `result[t]` | the result that waits for its conversion, by the function it comes from |
| `answers[t]`, `reply[t]` | the responses so far, each with what its cached text says; what `process` returned, or that it raised |
| `sent[t]` | what the text of the reply says of each result |
| `ran[t]` | history, read by properties only: the requests whose function was run |

| Action | Code |
|---|---|
| `Process` (`Refuse`, `Accept`) | `process` up to the loop: the text is no JSON, an empty list, has an element that is no request, or is served |
| `CallFails` | `_process_request` and `call_method` up to the call of the function, which is not reached |
| `CallRuns` (`Return`, `Exit`, `Answer`) | the function is run; it returns, raises, or raises what is no `Exception` |
| `Convert` | the conversion of the result, and what is answered if it fails |
| `Finish`, `Send` | the end of the loop; the caller asks the reply for its text |
| `Register` | `JsonRpcDispatcher.method`, at any time, under a name that is taken or not |

Choices made:

* A function is what its body does: it returns a value of its own, the shared
  object, or what JSON has not; it raises an `Exception`, a `TypeError`, or
  `SystemExit`.
* `Fits` has the functions and parameters with which Python makes the call, and
  `Binds` those of which `inspect.signature` says that it would. They differ: a
  decorated function shows the signature of the one it wraps, and of some
  functions `inspect` knows none (`utils/reflection.py:21`-`26`). The code
  looks at the second one only after a `TypeError`, to tell whose it is. No
  assumption relates the two.
* Everything between two calls of functions is one step: it touches nothing that
  another thread sees. What the table holds is read in the step of the call.
* Parameters by name are passed beside the library's own: `method` and `self`
  of `call_method`, `func` of `is_callable_with`. A request with such a
  parameter gets an internal error whatever the function is, and with `func`
  the function may have been run: `Honest` asks nothing of an internal error.

### Runs

| Run | Instance | Question |
|---|---|---|
| `server` | two threads; one is given every request, batches of two, batches of three around the shared object, and texts that are refused; the other changes the shared object; functions are registered meanwhile | `Matched`: every request with an identifier is answered once, in order, with that identifier. `Honest`: an answer says truly whether the function was run, but where a signature is wrong, and none runs twice. `Snapshots`: of two results of a batch that are one object, the earlier shows an earlier state of it. `TypeOK`. |
| `server_notification` | one thread, all functions registered | `NotificationsUnanswered`, violated: see Findings |

`Honest` names the two answers that a wrong signature makes wrong: "invalid
params" for a function that ran and raised a `TypeError`, though its signature
refuses the parameters (`Refusing`); and a server error for one that was not run,
though its signature takes them (`Promising`). Both occur in the run.

*Bounds.* `MaxShared` is the only one: with 1, the shared object is changed
before, between and after the two uses of a batch. Three functions have a wrong
signature or none; they are asked for alone. Batches of two pair every
outcome of the others with every outcome, and those of three put one between two
uses of the shared object. Two threads are enough, as a thread sees of the others
the table and the shared object only; the proofs have any number, and texts of any length.

*Deadlock* is checked: functions can always be registered.

### Findings

`server_notification`: `_process_request` answers an error before it looks
whether the request has an identifier, so a notification whose method is unknown,
whose parameters do not fit, or whose function raises is answered with the
identifier `null`, alone and in a batch. The line that ends a notification says
`return None # Notification.`, and the test of one compares the reply with `None`.

## 7. The model of the services

### `Service`: one systemd unit and those who call the module

| Variable | In the code |
|---|---|
| `unit` | what systemd and the disk have of the unit: enabled, active, and the version of its file on disk, as loaded, and as last started with (external) |
| `call[p]`, `pc[p]` | the function called, and whether its `systemctl` runs |
| `todo[p]` | the effects the command still has to have (external) |
| `result[p]` | how the call ended: returned, raised, or an answer of `is_service_active` |
| `faults` | bound on commands that fail |
| `hit`, `met`, `alone` | history, read by properties only: whether the command failed, what was so of the unit at some moment of the call, whether no other call went on |

| Action | Code |
|---|---|
| `Begin` | a call of one of the eight functions, up to `systemctl` |
| `Apply` | `systemctl` has its next effect: stop, then start; enable, then start |
| `End` | the command ends by itself, and what the function makes of its code |
| `Fail` | it fails before, between or after its effects |
| `Die`, `Edit` | the unit stops by itself; somebody writes its file |

`start` of an active unit changes nothing, `try-restart` of an inactive one
neither. `systemctl` and systemd's queue are external: what one command does is
taken from its manual, that another may act between two effects is the host's.

### Run

| Run | Instance | Question |
|---|---|---|
| `service` | two processes, six functions, one fault, one edit | `OkWasDone`: each part of what a call that returned was asked was so at some moment of the call. `OkIsWhole`: all of it at once, if no other call went on. `AnswersHaveCause`: what an answer of `is_service_active` and a `ServiceError` may be relied on for. `TypeOK`. |

*Bounds.* `MaxFaults` and `MaxEdits`; calls are not counted. Two processes meet on
one unit in every order of their effects; one failed command leaves the unit half
way for all that follows. The two functions left out of the run, start and stop
alone, are parts of the others; the proofs have them, and any number of
processes, faults and edits.

*Deadlock* is checked: an idle process may always call. *Symmetry* of the two
processes is used, as only safety is checked.

## 8. The model of the creation of sockets

### `SocketCreation`: from an address to a socket that listens or is connected

| Variable | In the code |
|---|---|
| `pc[c]` | the next call of `create_server_sock` or `create_client_sock` to the resolver or the kernel |
| `args[c]` | which of the two, address, port, timeout, `reuse_address`, with a TLS context or without |
| `at[c]` | the IP address that `format_address` returned, and the port: the one asked for, or, of port 0, the one the kernel took |
| `sock[c]` | the descriptor: open or not, its mode, `SO_REUSEADDR`, and how far it is (external) |
| `result[c]` | a socket, a `SocketError`, or another exception |

| Action | Code |
|---|---|
| `Begin` | the two public functions |
| `Resolve` | `format_address`, `get_ip_address` |
| `Open` | `socket.socket` |
| `Setup` | `wrap_socket`, `set_socket_reuseaddr`, `_normalize_timeout` and `settimeout` |
| `Bind`, `Listen` | what their names say, with the handler: close, and a `SocketError` |
| `Connect`, `ConnectTimeout` | `connect` ends, or its timeout expires |
| `Drop` | the caller closes the socket, or lets go of the exception that holds it |

`Fail` and `Escape` are the two ways to end badly: an `OSError` within the `try`,
which closes, and everything else, which does not. The code has several of the
second kind: a certificate for another host, a port or a timeout out of range,
`socket()` and `wrap_socket` themselves. The descriptor is then open as long as
the exception is kept; no property claims otherwise.

Two sockets are in each other's way (`Clash`) if they have one port on addresses
that overlap: an address and itself, a wildcard and what it stands for. The
resolver is external: a name has any address, none (a `SocketError`), or fails
with an `OSError` that escapes; a literal is its own address.

### Run

| Run | Instance | Question |
|---|---|---|
| `creation` | two callers; an address, another one, the wildcard of both, a name, no address; one port, port 0, one out of range; timeouts `0`, 5, one too long, none; with TLS or without | `FailedIsClosed`: a `SocketError` leaves no descriptor open. `AsAsked`: a socket that is returned waits as asked. `OneServer`: of the callers that ask for one port on addresses that overlap, at most one gets a server; and who asks for a port gets that one. `TimedEnds`. `TypeOK`. |

*Bounds.* None but the arguments. They are paired where the pair matters: for
servers, address, port and `reuse_address`; kind and timeout; a port out of range
with TLS. There is one port to take, so that port 0 meets it; servers on
different addresses both get it. `OneServer` is about two callers that may both
have bound the port before one listens; two callers are enough to break it, and
the proofs have any number.

*Fairness.* `FairSpec` has weak fairness of `Step(c)`: the resolver and the kernel
answer, and a timeout expires. That a peer answers, and that somebody calls or
closes, is not assumed: `Connect`, `Begin` and `Drop` are not fair.

*Deadlock* is checked: a caller can always begin or drop what it has.

## 9. Proofs

TLAPS proves every invariant that a passing run checks, and the safety
refinement, for every value of the constants that the named assumptions allow.
Liveness under fairness is beyond the prover: `CallsEnd`, `CloseWakes`,
`TransfersEnd` and `TimedEnds` are model-checked only.

### Firewall

Proved (`IptablesProofs`, `IptablesRefinement`, `IptablesCallProofs`) for every
finite set of processes and chains, every set of ports and every number of
faults, under the three assumptions of `Iptables`: `NamesAssumption` (chains,
`INPUT`, `RETURN` and ports are different names), `FaultsAssumption` (a fault is
not exit code 0; interrupts are those of the model) and `FiniteAssumption`.

* `Inductive`: `Spec => []IInv`.
* `TypeCorrect`: `Spec => []TypeOK`.
* `ListedEffective`: `Spec => []ListedIsEffective`.
* `Refinement`: `Spec => ImplementsPortAccess`.
* `ErrorsCaused`: `Spec => []ErrorsHaveCause`.
* `CopiesAtMost`: `Spec => []CopiesBounded`, when there is a process.
* `UnsavedOwed`: `Spec => []UnsavedIsOwed`, for one process.
* `OkApplied`: `Spec => []OkIsApplied`, for any processes, when no fault has
  code 1.

*The argument.* `ListedIsEffective` is not inductive: a step may insert a port
rule, and nothing in it says that the chain has a jump. `IInv` adds

* `Hooked(t)`: a chain with a port rule is jumped to from `INPUT`. No code
  deletes a jump, so this holds once the jump was there;
* `Ordered(t)`: port rules stand above every `RETURN`. It holds because port
  rules are inserted at the top and `RETURN` is appended;
* both for `live`, for `saved`, and for every dump `snap[p]`, which may be
  written after the live rules have changed again;
* `Established(p)`: what process `p` has seen or done so far still holds: past
  `check_return` the chain has its `RETURN`, at `insert` the jump is there. It
  survives the steps of the other processes since they remove port rules only.
  A reboot may lose both, but then no call is in progress.

Ordered and Hooked give ListedIsEffective by taking the last occurrence the
invariant speaks of and comparing positions (`SoundListed`). The module has one
lemma per command on the tables it leaves (`NewChainSound`, `AddReturnSound`,
`InsertPortSound`, `DeletePortSound`, `InsertJumpSound`), one per action, and
`CommandStep`, which reduces an action to the outcomes of its command.

*The copies a command leaves.* `CommandCopies` counts, for every rule, how many
copies each command leaves; `MetFacts` says that on a table that is hooked and
ordered every copy is met. Together they give `PortCommands`: `-N`, `-A RETURN`
and `-I jump` leave `InEffect` alone, `-I` and `-D` of a port rule change it by one
at that rule. `CheckPortEffect`, `SetupEffect`, `InsertPortEffect`,
`DeletePortEffect` and `StepElsewhere` say what that makes of each action, faults
included; the two proofs below rest on them.

*The refinement.* Each action is then one step of `PortAccess` or none: the
look-up is a `Find`, the set-up commands are none, `-I` and `-D` are the `Grant`,
the two halves of the save are `Photograph` and `Persist`, and whatever fails
without its effect is an `Abandon`. A `Grant` or a `Persist` that ends with an
error is a command that had its effect and was reported as failed.

*What a call tells its caller.* `ErrorsHaveCause` needs `Standing(p)`: unless a
command of the call failed, the chain is there past its creation, so that `-A`,
`-I` and `-N` cannot be refused for want of it; and the rule a close is about to
delete is there unless a call for the same rule has overlapped. The latter is so
because who is in a call is among the `users` of its rule: another process that
deletes this very rule has overlapped. `UnsavedIsOwed` needs
`OInv(p)`: live rules differ from the file only while the call is about to save,
or while a failed one owes it, and a dump in progress is the live rules.

*A call that returns was applied.* Alone among the processes this would be plain;
beside others, what a look-up has found may be undone before the call acts on it.
`users` tells when that cannot be: `users[a] = {p}` as long as nobody called for
`a` since `p` did, and no two calls for `a` ever overlapped. `AInv` says

* who is in a call is among the `users` of its rule, so that a process alone with
  its rule sees no step of another on it;
* a port rule whose calls never overlapped (`Unraced`) has one copy at most, in
  `live`, in `saved` and in every dump, since a `-D` leaves the others;
* for a process alone with its rule: between the look-up and the `-I` the rule has
  no copy, and from the change to the return, and after it, a copy is there
  exactly if the call opens.

The first two need each other: an `-I` keeps the rule at one copy because its
process is alone and found none. `OkApplied` assumes that no command fails with
code 1, as a close that is told so of a rule that is there returns at once;
`Refinement` has that case (`Mistakes`).

`UnsavedIsOwed` is for one process: with two, a save may write a dump older than
the rules another process has just saved, as no lock is held around the save
script.

*The copies that races leave.* A count of copies alone is not inductive, since
several processes may all have seen a rule missing. `KInv` counts the copies of a rule in `live`
*together with* the processes about to add it (`Hasty`): a `-C` that finds the rule
missing when it is there takes a fault of code 1, which the bound allows for; one
that is right begins from no copy; an addition turns a process that was about to
add into a copy. A reboot restores a table that was counted when it was dumped.

### Sockets

`SocketProofs`, for every set of threads at the two ends, all lengths, sizes,
timeouts and modes, any capacity of the connection, and any number of calls,
from `RolesAssumption` (threads belong to an end), `SingleAssumption` (one
thread sends at an end, one receives) and `SizesAssumption` (the sorts of the
parameters; a connection and a receive buffer hold one byte at least):

* `Inductive`: `Spec => []IInv`.
* `TypeCorrect`: `Spec => []TypeOK`.
* `BytesContiguous`: `Spec => []Contiguous`.
* `ErrorsCaused`: `Spec => []ErrorsHaveCause`.
* `SocketErrorsOnly`: `Spec => []OnlySocketErrors`, on sockets that were not handed
  over non-blocking.
* `MessagesFramed`: `Spec => []Framed`, for messages of one size, whatever it is.
* `ChannelImplemented`: `Spec => ImplementsMessageChannel`, for messages of one size,
  at least one byte.

*The bytes.* `Contiguous` is not inductive: that a chunk goes to the right
place of the buffer is of no use when the bytes are not the next ones. `IInv`
adds `InStep(t)`: while a transfer runs, the place where it began and its `pos`
make up the length of the stream (send) or what the end has received (receive).
A step of another thread leaves it alone because that thread would have to send
or receive at the same end (`SingleAssumption`), and it survives `EAGAIN`,
`select` and waits because they leave `pos` alone. `SentFacts`, `StoreFacts`
and `StoredByte` are the lemmas on sequences: what is appended to the stream, and
what a chunk does to a buffer. `QuietStep` covers the actions that move no byte, and
`SendChunkStep`, `ReceiveChunkStep` the two that do.

*The exceptions.* `CInv` relates the modes, the closes and the places of the
threads: a closed end was shut down first, only a non-blocking socket leads to the
handler of `EAGAIN`, and `_normalize_timeout` never makes a socket non-blocking.
A call told of a timeout without one set stands for a lost connection, which stays
lost.

*The messages.* `FInv(n)` cuts a stream into messages of `n` bytes: byte `k*n + i`
is byte `i` of the `k`-th send, as long as no send of that end raised; and a
transfer begins at a multiple of `n`, as long as none of its kind raised before.

*The channel.* A chunk that does not end its transfer is no step of
`MessageChannel` (`Unseen`); the one that does is a `Send` or a `Receive`
(`SendRefines`, `ReceiveRefines`); a transfer that raises loses its direction and
leaves the other alone (`RaiseLoses`), also where one thread works in both. That
`Receive` finds a message there is the one thing that neither end knows:
`SentBound` puts all that is on the connection below the end of the message that
is being sent, so whoever has taken `k` messages has taken them from sends that
returned. For it `RInv(n)` adds to `IInv` and `FInv(n)` that an end without a
sender sent nothing, and that a buffer is as long as a message.

### JSON-RPC objects

`RpcObjectProofs`, for any objects, lists, dicts and values, from
`ValuesAssumption` (which values there are of a member, and that no list or dict
is among those) and `ContentsAssumption` (what an error holds is not nothing; the
names of contents and cells differ): `Inductive`, `TypeCorrect`,
`PayloadsTrue` (`Spec => []PayloadTrue`),
`TextsTrue` (`Spec => []TextTrue`), `WrittenRead` (`Spec => []WrittenIsRead`).

*The argument.* `Agrees(o)`: what each list and dict holds is among what it held
(`held`), so that a payload that is built now tells something it held; a payload
that is neither marked nor changed in place has what its class needs (`Shaped`)
and the fields as they are (`Telling`), a member that is missing being one the
code does not tell; a text is taken by the reader if the error is intact, and says
what the fields say. A setter marks, `Tell` and the readers re-establish, and a
change in place only adds to `held`, or to `altered`. That an error is intact is
the only thing that keeps a response readable: its dict is never looked at again.

### JSON-RPC processor

`RpcProofs`, for any number of threads, texts of any length, any functions, from
`TextsAssumption` and `FunctionsAssumption` (the sorts of the constants):
`Inductive`, `TypeCorrect`, `AnswersMatch` (`Spec => []Matched`),
`AnswersAreHonest` (`Spec => []Honest`), `TextsAreSnapshots`
(`Spec => []Snapshots`).

`Fits` and `Binds` are any relations there, so `Honest` holds of every function,
decorated or built in, with its two exceptions.

*The argument.* To what the properties say of one thread the invariant adds
`AtHand`: while the loop is at a request, that request has not been run, unless
its result waits for its conversion, which a request without identifier never
does; and `Past`: a value in a cached text is one the shared object had, and less
than the one it has if a call of the thread has changed it since, whatever other
threads changed in between. So two cached values of one reply are in order.

### Services

`ServiceProofs`, for any number of processes, faults and edits, from
`ServiceAssumption` (the sorts of the constants): `Inductive`, `TypeCorrect`,
`CauseOfAnswers` (`Spec => []AnswersHaveCause`), `DoneWhenOk`
(`Spec => []OkWasDone`), `WholeWhenAlone` (`Spec => []OkIsWhole`).

*The argument.* `Witnessed(p)`: a call that goes on has met the unit as it is, and
the effects its command has had so far were met; while no other call goes on, what
the first of two effects left still is, but for what the unit does by itself.

### Creation of sockets

`CreationProofs`, for any callers, addresses, ports, timeouts and calls, from
`CreationAssumption` (the sorts of the constants; addresses overlap with themselves,
and each other): `Inductive`, `TypeCorrect`, `NoDescriptorLeft`
(`Spec => []FailedIsClosed`), `ModeAsAsked` (`Spec => []AsAsked`),
`OneServerOnly` (`Spec => []OneServer`).

*The argument.* `Descriptor(c)` and `Prepared(c)` say of each place of a creation
whether the descriptor is there, its mode, its kind, and that it has the port that
was asked for. `OneServer` speaks of sockets that were returned; `Exclusive`, of
all that listen and clash, is what the kernel keeps, and a server is returned only
when it listens (`Prepared`).

## 10. Not modelled

`PROJECT.json` lists every component with its status.

* Firewall and commands: the captured output, the log lines, the texts of
  exceptions, and `ret_code_callback`, which no caller passes. A command that
  outlives its killed caller: it would have its effect after the next call began.
* Services: `escape_service_instance`, a replacement of characters, and the code
  and reason that a `ServiceError` carries.
* Sockets: transfers over TLS; `family_str` and `peer_certificate`; a timeout
  assigned while a transfer of the same end runs; two senders or two receivers at
  one end, for which the code has no lock and promises nothing. That two owners
  of a descriptor agree on `keep_open` is up to them: each `Socket` does what its
  own attribute says, and no property speaks of both.
* Creation: what the resolver does with its answers, and the argument
  `ip_version`, which no creation passes; keep-alive, whose failure is ignored;
  the family of the address, but for the addresses that overlap.
* JSON-RPC objects: the text of a batch, which is the texts of its elements.
  With no element a `JsonRpcBatchRequest` is written as `[]`, which its own reader
  refuses (`utils/json/rpc/__init__.py:325`); no property says so.
* JSON-RPC processor: `use_module_name`, which changes the name a function is
  registered under, and the `data` of an error.
* `log.py`, `utils/exception.py`, `typing/`, `config/platform.py`,
  `utils/json/__init__.py` keep no state that another part reads; of
  `utils/reflection.py`, `is_callable_with` is in `RpcProcessor`.

## 11. Running it

```
tlc -config iptables_serial.cfg MCIptables
tlc -config iptables_refines.cfg MCIptables
tlc -config iptables_liveness.cfg MCIptables
tlc -config iptables_lost_save.cfg MCIptables          # violated
tlc -config socket_bytes.cfg MCSocketStream
tlc -config socket_framing.cfg MCSocketStream
tlc -config socket_liveness.cfg MCSocketStream
tlc -config creation.cfg MCSocketCreation
tlc -config rpc.cfg MCRpcObject
tlc -config server.cfg MCRpcProcessor
tlc -config server_notification.cfg MCRpcProcessor     # violated
tlc -config service.cfg MCService

tlapm IptablesProofs.tla
tlapm IptablesRefinement.tla
tlapm IptablesCallProofs.tla
tlapm SocketProofs.tla
tlapm CreationProofs.tla
tlapm ServiceProofs.tla
tlapm RpcObjectProofs.tla
tlapm RpcProofs.tla
```
