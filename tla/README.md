# Network-Programming2019, verified

This directory holds TLA+ specifications of the programs of the repository, the
TLC instances that check them and the TLAPS proofs about them. Paths are relative
to `src/`; `multiple/shell.cpp:689` is short for
`0856137_np_project2/multiple/shell.cpp`, line 689. `PROJECT.json` lists the same
things for tools: components, runs, the mutation that each property catches, the
source lines of every definition, hazards and theorems.

## 1. The system

The repository is five course projects that build on each other.

| component | sources | state | operations | interacts with |
|---|---|---|---|---|
| shell with numbered pipes | `np_project1/shell.cpp` | ring of `NUMPIPE_SIZE` pipes, command counter, last pid | parse a line, create a pipe, fork, redirect, exec, reap | children by descriptors and SIGCHLD |
| concurrent shell server | `np_project2/simple/` | the same, per connection | accept, fork, receive a line | client over TCP |
| single-process chat server | `np_project2/single/` | client table, priority queue of free ids, user pipes, numbered pipes, environments, the `select` set | accept, who, name, tell, yell, exit, run a command, disconnect | all clients in one loop, children |
| multi-process chat server | `np_project2/multiple/` | shared memory: client table with a mailbox and a row of user pipes per client; one System V semaphore; per process: slot, signal handlers, descriptors | accept and fork, InitialClient, Login, Broadcast, who, name, tell, yell, Logout, run a command, SIGUSR1 (print the mailbox), SIGUSR2 (open user pipes), shutdown | sessions through shared memory, semaphore, signals and FIFOs |
| HTTP server | `np_project3/http_server.cpp`, `connection_manager.cpp`, `request_parser.cpp` | set of connections, parser state | accept, read, parse, reply, fork and exec a CGI program | io_service callbacks, children |
| console CGI (project 3) | `np_project3/console.cpp`, `session.cpp` | per remote shell: command queue, one buffer, reads and writes in flight | resolve, connect, read, write | remote shell, callbacks |
| SOCKS4 server | `np_project4/socks_server.cpp` | per session (one process each): request, two sockets, two buffers, firewall file | request, resolve, CONNECT, BIND, reply, relay in both directions | client, destination, callbacks |
| console CGI (project 4) | `np_project4/console.cpp`, `session.cpp` | as in project 3, plus the SOCKS negotiation | the same, through a proxy | SOCKS server |
| helpers and pages | `commands/`, `cgi/`, panels | none | text filters | not modelled: sequential and stateless |

What makes each of them correct, and what is hard about it:

* **Multi-process server.** Shared memory, asynchronous handlers and a semaphore in
  one program. Two sessions never share a slot; nicknames are unique; the critical
  sections exclude each other, also when a process dies inside one; a message that
  was left in a mailbox gets a signal; a session that types `exit` goes away. The
  difficulties are handlers that take the semaphore their own process may hold,
  `semop` failing with EINTR, steps the code takes outside the semaphore (the
  `memset` of `Logout`, the pid that `kill` uses), clients that vanish, a full table,
  and sessions that fall back into the accept loop.
* **User pipes** (same server). Mark, FIFO, signal, open and close are spread over
  two processes, their children and a handler; the three must agree on who reads.
* **Numbered pipes.** Every pipe is read by the command it was addressed to, every
  write end is closed in the end, and the shell waits for the right child.
* **Single-process server.** Ids are handed out once; a descriptor is closed once; a
  client's departure does not hurt the others.
* **HTTP server.** One reply per request, the one its text calls for however it is cut; a
  client's program talks to that client only; the one process that serves everybody
  survives what clients do. The difficulties are a `fork` in the middle of an io_service,
  whose handlers the child would run as well, and exceptions that nobody catches.
* **Consoles.** Each command is sent once, after the prompt it answers.
* **SOCKS server.** One reply per request, bytes relayed in order, both sockets closed
  in the end; the firewall decides as its rules say.

`PROJECT.json` lists the hazards met while reading, at their lines, with the property
that covers each, or the reason why none does.

## 2. Plan

Modules in order of importance.

1. `MultiServer` (core), `ClientTable` (abstract), `MCMultiServer`,
   `MultiServerProofs`, `TableProofs` (exist).
2. `MultiShutdown`, `MCMultiShutdown` (exist): the end of the same server, composed with all
   of its sessions' steps; its theorem is at the end of `TableProofs`.
3. `UserPipes`, `MCUserPipes`, `UserPipesProofs` (exist): external commands of the
   multi-process server, composed with the semaphore, signal and stack discipline of
   `MultiServer`. Left to model: descriptor numbers, numbered pipes.
4. `NumberedPipes`, `MCNumberedPipes`, `NumberedPipesProofs` (exist): one shell (shared by
   projects 1 and 2) and its children.
5. `SingleServer`, `MCSingleServer`, `SingleServerProofs` (exist): id queue, table, pipes and
   descriptors, on top of `ClientTable` again. Left to model: numbered pipes and
   environments in one process.
6. `SocksSession`, `SocksProofs`, `ProxiedConnection` (abstract), `Firewall` (exist).
7. `ConsoleSession`, `ConsoleProofs`, `RemoteShell`, `ScriptRunner` (abstract) (exist): the
   sessions of projects 3 and 4 in one module.
8. `RequestParser`, `HttpServer`, `MCHttpServer`, `HttpProofs` (exist): the machine is proved
   first, then the server on top of what it makes of a text read in pieces.

## 3. The core: `MultiServer`

One process per client. A process is a *main program* that signal handlers
interrupt, so its control state is a small stack: `run[p]` is the frame that
executes (`main`, `USR1`, `USR2`), `saved[p][s]` the frame that handler `s` will
resume, and `at[p][f]` where frame `f` stands. `sec[p]` says which part of the main
program is executed. The code's pattern `Semaphore_P ... Semaphore_V` becomes

    P -> (blocked ->) test -> act -> V -> go        of one section

with the read of the table (`test`) and its update (`act`) as separate steps, so that
a death, a signal or an unlocked write can come in between. `V` already names the
section that follows, which is how `Name` ends in a `Broadcast`, and `Broadcast` in
its next iteration.

| TLA+ | code |
|---|---|
| `clientset[i]` | the entry of the shared table: used, pid, name, and whether `msg` holds text |
| `userid[p]` | the global `userid`, -1 written as 0 |
| `semval`, `semadj[p]` | the semaphore and the SEM_UNDO value the kernel keeps for `p` |
| `pend[p]`, `Deliver` | pending standard signals: a set, since they coalesce |
| `"eintr"`, `SemaphoreFailed` | a handler ran while `semop` slept; it fails once resumed and the caller exits |
| `End(p)` | process exit, with the effect of SEM_UNDO |
| `InitialClient*`, `Login`, `LoginCrash` | `multiple/shell.cpp:545-593`, `652-669` |
| `Broadcast*`, `Kill`, `Targets` | `595-624`; the pid is read after V, and pid 0 is everybody |
| `Who`, `Name*`, `Tell*`, `Yell` | `702-818` |
| `Logout`, `LogoutMemset`, `LogoutExit` | `671-692`; the memset is two writes without the semaphore |
| `PrintTest/Act/Crash`, `HandlerV` | the SIGUSR1 branch of `Clienthandler`, `485-507` |
| `AcceptByMaster`, `AcceptBySession` | `multiple/multiple.cpp:56-87`, run by the master and by sessions whose `Shell` returned |
| `EndOfInput` | `getline` fails: `Shell` returns, nothing is logged out |
| `Hangup`, `SigPipe` | the client closes the connection; the next output kills the process |
| `BadArguments` | `name` and `tell` with words that are missing or no numbers: `702-798`; the process ends, for an empty message inside the section |

Abstractions. Messages are a bit (a mailbox is empty or not), nicknames are model
constants, addresses and output are left out. `tell` names an entry of the table or
nobody: 0, and the zeros behind the table, are read as an entry not in use. A pending signal may be delivered at
any step, also later than a kernel would. Ended processes are not reused, so a stale
pid never names a new process. `stray` is a history variable: the sessions that found
the table full. SIGPIPE comes at the output of the welcome, the prompt, the accept
loop, the error messages of `name` and `tell`, and the handler.

`ClientTable` is what the users of the table are promised: `Enter`, `Rename`, `Leave`,
each atomic, and the one blemish that the code forces on it, `Forget` (a slow
`memset` wipes the nickname of the slot's next owner). `ImplementsTable` maps a slot
to its owner while `used` is set.

### Shutdown: `MultiShutdown`

`MultiShutdown` EXTENDS `MultiServer`, whose steps it takes as they are while the semaphore
exists, and adds the master and what `semop` and the handlers do afterwards.

| TLA+ | code (`multiple/multiple.cpp`, `multiple/shell.cpp`) |
|---|---|
| `master`, `slot` | where the master's handler stands, its loop index; `multiple.cpp:91-127` |
| `MasterSignalled` | SIGINT, SIGQUIT or SIGTERM to the master alone, or from the terminal to all |
| `MasterKills` | `kill(clientset[i].pid, SIGINT)` without the semaphore; a slot that is being filled in may have `used` and no pid yet, which is everybody |
| `MasterRemovesTable`, `MasterExits` | `shmctl` and `semctl` with IPC_RMID, exit |
| `key`, `sem` | whether shared memory is found by its key, whether the semaphore exists |
| `int[p]`, `IntRemoves`, `IntExits` | a session's handler: it removes the semaphore and then calls `Logout`, whose `Semaphore_P` can only fail |
| `PFails`, `VFails`, `NoTable` | `semop` on what is gone: whoever waits for it wakes up and exits; a handler's failing V just returns |
| `SessionStep` | without the semaphore a session goes on with what takes and gives nothing |

Attached shared memory stays until its users detach, so the table itself does not change.

### User pipes: `UserPipes`

`cmd <f >t` reads the user pipe that client f opened to the caller and opens one to
client t. `UserPipes` EXTENDS `MultiServer` and reuses its semaphore, frames, signals,
`Broadcast` and SIGUSR1 handler unchanged (`Shared`). It adds the rest of
`ExecuteCommand` and the SIGUSR2 branch of `Clienthandler`. Sessions start logged in and
stay: what the table does under logins and logouts is the business of the core.

| TLA+ | code (`multiple/shell.cpp`) |
|---|---|
| `user_pipe_from[i][j]` | `clientset[i].user_pipe_from[j]`: -1 `nothing`, 1 `marked`, 0 `opened` |
| `fd_table[i][j]` | whether `clientset[i].fd_table[j]` is a descriptor |
| `fifo` | the paths under `user_pipe/`, named by sender and receiver |
| `cmd[p]` | the parsed arguments, any integers, and the locals `pipe_from`, `pipe_to` |
| `slot[p]`, `torn` | the userid that the session and its children go by, also after the session has ended; the entries whose `used` is -1 |
| `Used`, `Pid`, `Msg`, `Mark`, `Fd`, `TableEnd` | the layout of `struct Client` in words, and the end of the shared memory; `multiple/shell.h:60-70` |
| `FromTest` | the checks of `<f`, 257-299; one branch keeps the semaphore |
| `ToTest`, `MakeFifo`, `KillPipe` | 301-351: mark under the semaphore, `mkfifo` and `kill` after it |
| `ForkCommand`, `CloseTest`, `WaitChild` | fork, the parent's close section, `waitpid` |
| `ChildP`, `ChildInput`, `ChildV`, `ChildOutput`, `ChildEnds` | the child, 367-440, and SIGCHLD, 474-483 |
| `Written`, `Faults`, `ChildFaults`, `CloseFaults` | the two words that the child resets for `<n`, 382-383; SIGSEGV if they are not mapped, there or in the parent, 449 |
| `Astray` | the parent closes a number that is no pipe of this command, 448-457: it may be the session's input |
| `NumberThrows` | `stoi` refuses what follows `<` or `>`, 199 and 205 |
| `OpenPipe`, `OpenMissing`, `OpenDone` | the SIGUSR2 handler, 508-529 |

The two `open` calls of a FIFO wait for each other, so `OpenPipe` is one step of two
processes: the handler of the receiver and the main program of the sender. The child
holds the semaphore without SEM_UNDO of its parent; it has no handlers to run. It goes
on when its session ends, with the userid it inherited (`slot`).

Nothing refuses a number beyond the table. For `n >= MAX_CLIENT_NUM` the guards at 258 and 302
are false, so the tests and their section are skipped, and the child of `<n` still resets
`fd_table[n]` and `user_pipe_from[n]`: with 31 rows `fd_table[31]` is `used` of the next entry and
`fd_table[32]` its pid, and larger numbers reach its mailbox, its pipes and later entries.
`ChildInput` computes which words are set to -1. An entry whose `used` becomes -1 is in use from
then on, also one that no session has; a pid of -1 makes `kill` signal everybody; a mailbox gets text
that nobody sent; marks and descriptors are lost. Still larger numbers fault. `PipesTypeOK` says how bad
it gets, and `DamageBeyond` that nothing else does this, and whose entries it can hit. The layout
is scaled: `N` clients instead of 30, one word each for what nothing here depends on (`id`, `port` and
`addr`; the rest of `msg`; `name`), and `Slack` words behind the table for the rest of the last page.
Left out: descriptor numbers, redirection to files and numbered pipes in this server
(they move bytes between children and touch none of this state).

### SOCKS server: `SocksSession`, `ProxiedConnection`, `Firewall`

`SockServer::do_accept` forks a process per client; the process runs one session and
ends. `SocksSession` is that process, with its two ends as environment.

| TLA+ | code (`0856137_np_project4/socks_server.cpp`) |
|---|---|
| `phase` | which callback is awaited: read, resolve, connect, accept, reply, the relay |
| `socket`, `peer` | `client_socket_`, `server_socket_`; the other side of each connection |
| `op[x]` | the operation of a relay direction: started, completed with or without error, callback not yet run |
| `buf[x]` | `input_buffer` and `output_buffer`: what is read and not written |
| `in[x]`, `out[x]` | the kernel's bytes from and to each end; `Wire` bounds the latter |
| `ReadRequest` ... `AcceptOther` | `do_read_request`, `do_resolve` (14-95) |
| `Connected`, `Accepted`, `ReplyWritten` | `do_connection`, `do_accept`, `do_reply_client` (97-149) |
| `ReadSome`, `OnRead`, `WriteSome`, `OnWritten`, `OnFailure` | `read_client`, `write_server`, `read_server`, `write_client` (151-221) |

An operation completes in the kernel and its callback runs later, so a success may still
be waiting when the other direction closes both sockets. A request that comes in two
segments is parsed from uninitialised memory: as any command, with its rest left for the
relay. Bytes that a client sends together with its request and that the first read
takes are lost to the relay and not counted as sent. The firewall's answer is free in the session's
steps. `Firewall`, which `SocksSession` EXTENDS, says what it is: `CheckFirewall` line by line,
with the text of addresses and rules computed digit by digit. It is a pure function of its
arguments, so `FirewallDecides` looks at it in one state only. Rules have the format of
`socks.conf`, octets and then stars, three words per line. IPv6 addresses and other lines
are left out.

`ProxiedConnection` is the promise: two FIFO channels that open once, break once, and lose
at most what was sent last. `ImplementsProxied` maps a channel to what is in the kernel, the
buffer and the kernel again; once the sockets are closed only what the far kernel holds.

The code closes both sockets at the end of file of either direction. `AnswerComplete` says
what that leaves intact: the answer of a server that shuts down. The opposite is not
promised: a *client* that shuts down its sending side cuts the answer off.

### Consoles: `ConsoleSession`, `RemoteShell`, `ScriptRunner`

`ConsoleSession` is the session of both console programs; the variable `project` says which.
They differ in one line: in project 3 the read callback calls `do_read` also after a
prompt (`0856137_np_project3/session.cpp:70`), and so does the send callback (91).

| TLA+ | code (`session.cpp` of the two projects) |
|---|---|
| `ready` | the completed operations whose callbacks io_service will run, in order |
| `reads`, `data_` | the reads in flight and the one buffer they use |
| `front` | the front of `cmd_que` |
| `Resolve`, `Connect`, `SocksReply` | the same, `SocksReply` for `checkSocksreply` |
| `Read`, `ReadFails`, `OnRead` | `do_read` |
| `DoWrite`, `OnSent`, `OnSendFailure` | `do_write` |
| `missed`, `raced` | history: a read ended in a prompt's middle; a read completed before the callback of the last |

`RemoteShell` is the other end (external): it writes text, which may contain "% ",
prompts when ready, and takes lines. `ScriptRunner` is the promise: the lines in order, each
once, at most one per "% ", until reads overlap. Overlaps are real in project 3: an
output longer than `MAX_LENGTH` completes two reads at once, the second overwrites the
first, and a line may be sent twice and another never. A prompt that falls into two reads is
never recognised in either project, and both sides wait for ever. Nothing in the
repository denies either, so both are premises of the properties.
The sessions of one page share nothing but the thread, so one session is modelled.

### HTTP server: `RequestParser`, `HttpServer`

`RequestParser` is `request_parser::consume` as a table of permitted moves over bytes, applied
to what each read has brought, one byte after the other. Beside it stands a grammar of whole
requests, in terms of positions in a text. `ParserDecides` compares the two: TLC on every
text one edit away from a request with two header lines, and on all its beginnings;
`ParserIsCorrect` (section 5) says so of every text. A text that is not yet a request is
indeterminate when some ending completes it; the ends of one short request (`Endings`) are
enough endings, whatever the text. Bytes are -128..127, as `char` is here.

| TLA+ | code (`0856137_np_project3/`) |
|---|---|
| `peer`, `text`, `read`, `reply` | a client: what it sends, how much of it was read, what was written to it |
| `backlog`, `acceptor[p]` | connections in the kernel's queue; accepted, with the handler not yet run |
| `open[p]`, `stdio[p]` | the sockets that a process has open; where its standard output goes |
| `op[p][c]`, `piece`, `parser` | the operation outstanding on a connection, `data_`, `request_parser_` |
| `Accept`, `Accepted` | `do_accept`, `connection_manager::start` |
| `Receive`, `ReadFailed`, `ReadDone` | `do_read`: `ParseMore` reads again, `HandleRequest` is `Handle_request` up to `async_send`, `HandleThrows` its exceptions |
| `SendDone`, `SendThrows`, `Fork` | the handler of `async_send`: the second test of the file, `fork`, `stop` |
| `Exec` | the child: `stop_all`, `dup2`, `execlp`; and what follows when it fails |
| `ProgramWrites`, `ProgramEnds` | the program (external) |

The processes are an array of which `Root` is the server; `fork` copies one entry to another,
pending handlers included. `file` is what `Path` names, and changes at any time. A child
whose `execlp` fails comes back from the handler into its copy of the io_service and
serves, with a connection as standard output, where the log then goes (`"log"`).
Three ends are real, and denied by nothing in the repository. `is_regular_file` and
`remote_endpoint` throw out of `run()`, and with the server everybody is gone
(`RootSurvives` says by which requests only). A connection accepted whose handler is due at
`fork` stays open in the program, so its client sees no end as long as the program runs
(`inherited`). And two servers may read from one connection and split its bytes
(`Doubled`): each then decides a text that nobody sent, so one client may get two status
lines, a 200 among them for bytes that are no request, and the first server may end by an
exception that the whole text does not call for. The properties of the answer are
therefore about connections that are not doubled; a second server takes a failed
`execlp` and an accept whose handler was due at the `fork`. Left out: `accept` without descriptors, and that the kernel resets a connection
closed with unread bytes.

### Shells: `NumberedPipes`

The shell of project 1, which `simple/` repeats line by line. A pipe is named by the number of the
command that made it, a process is what it reads, what it writes and which ends it holds open.

| TLA+ | code (`0856137_np_project1/shell.cpp`) |
|---|---|
| `cmds`, `front` | `Command_que`: the commands of all lines so far, and its front; `cmd_cnt` is `CommamdCount` |
| `Number_pipe` | the ring: slot to pipe, with `ispiped` |
| `pip_num` | `SetPipeNum`: a number after the bar to a slot |
| `ReadLine`, `EndOfInput` | reading and parsing a line, 25-53 |
| `Builtin`, `PrintUnset`, `Exit` | the cases that run no program, 59-71; they leave the pipe of their slot |
| `MakePipe`, `PipeFails`, `Fork`, `CloseInput` | `ExecuteCommand` in the shell, 156-171 and 219-228 |
| `LineDone`, `WaitLast`, `ChildHandler` | the foreground wait and the SIGCHLD handler, 81-86 and 230-239 |
| `Redirect`, `Quit` | the child up to `execvp`, 171-218 |
| `Write`, `SigPipe`, `Read`, `Finish` | the program that it runs (external), over pipes of `Capacity` units |

`close` in the child (line 210) loops over `sizeof(Number_pipe)` of a pointer and closes
nothing: the model keeps what children inherit in their `HasReadEnd` and `HasWriteEnd`.
An unrelated command then keeps the end of a pipe open, and a pipe that is full and has
no reader yet blocks the shell, if the line that would start the reader is still to be
typed. A builtin at the end of a line waits for the `lastpid` of an earlier command. No
line of the repository denies either, so `HangsOnPending` allows exactly these hangs.
Left out: the values of environment variables, and what `argv` says. The uninitialised
`isExclamationmark` is either value; the uninitialised ring is taken as zero, since its
pages are fresh when `main` starts.

### Single-process server: `SingleServer`

| TLA+ | code (`single/single.cpp`, `single/shell.cpp`) |
|---|---|
| `clientset`, `id_queue`, `user_pipe` | the same; `id_queue` as a count per id |
| `fds`, `NthFree` | the kernel's descriptor table; `0` stands for the listening socket |
| `master`, `read_fds`, `Select`, `Turn`, `Done` | the `select` loop: what was ready is served in rising order, `single.cpp:67-88` |
| `Accept`, `AcceptUndefined` | `single.cpp:88-123`; `top()` of an empty queue |
| `Talk`, `Name`, `Exit`, `ClientLeaves`, `Leave` | `who`, `tell`, `yell`, `name`, `exit`, end of file, and what both ends of a session do |
| `ClosePipe`, `Numbers`, `Stray` | `closepipe`, `shell.cpp:510-531`; whether a closed number was somebody else's |
| `Receives`, `Sends`, `NewPipe`, `Exec` | `ExecuteCommand` with `<` and `>`, `240-400` |
| `Stopped` | SIGPIPE at a write to a client that is gone; a write that blocks since an open client does not read |
| `BadArguments` | a missing or non-numeric argument of `name`, `tell`, `<` or `>`: `466`, `483`, `183-189`; the server ends |
| `ExecUndefined` | a number of `MAX_CLIENT_NUM` or more after `<` or `>`, which the guards at 241 and 261 let through: `302-308`, `325-336`, `388-397` index past `user_pipe` |

A request is one step: nothing else runs in the process meanwhile. What comes in between
is what clients do (`Connect`, `Type`, `HangUp`) between the `select` and a descriptor's
turn. Descriptors are numbers because the code's difficulty is there: the write end of a user
pipe is closed after the fork (`shell.cpp:391`) and again by `closepipe` (522, 527) when a
partner leaves before the pipe was read. Two pipes, the second of which has got the
first one's old number, are enough to close a stranger's pipe or connection. The model
stops there (`"astray"`); `OwnDescriptors` says when it cannot happen. More ends
are real and denied by nothing in the repository. A command that fills its user pipe, or a client
that does not read what it is sent, hangs the server for everybody (`"hung"`). A 31st client
meets an empty queue, and a number beyond the table an index past the rows (`"undefined"`, since
what lies there is not known). An argument that is no number, or a client that is gone, ends the
server (`"dead"`). Once it has ended nothing moves (`Running`).
Left out: numbered pipes in this server, `setenv` and `printenv`, the limit on
descriptors (`NoLeak` bounds them by clients and pipes, 938 of 1024), and two lines in one
segment, of which the second is dropped.

## 4. Runs

`tlc -config X.cfg M`. Deadlock checking is off everywhere: clients stop typing, sessions
end, and the multi-process server can really wedge itself (below).

| run | module | instance | shows |
|---|---|---|---|
| `chat` | `MCMultiServer` | 2 sessions, 2 slots, all commands | `TypeOK`; `UniqueNames`; `NoLostWakeup`: coalesced signals and a handler that interrupts the writer lose no wake-up; refinement of `ClientTable` |
| `full` | `MCMultiServer` | 3 sessions, 2 slots, one logs out or vanishes | `SemaphoreInv`, `SlotExclusive` with a full table, an unlocked memset, a kill(0), SIGPIPE, EINTR and sessions that accept |
| `leave` | `MCMultiServer` | 2 sessions, 2 slots, one logs out, one may vanish, fair | `ExitCompletes` although processes die inside the section |
| `shutdown` | `MCMultiShutdown` | 2 sessions, 2 slots, one types `who`, fair | `RemovalExcludes`: nobody enters a section because the semaphore is removed; `ShutdownCompletes`: the master exits and every registered session ends |
| `pipes` | `MCUserPipes` | 2 sessions on 3 slots, 1 command each and one of them again, also with numbers beyond the table | `PipeExclusion`, `MarkHasSender`, `PathHasCommand`; `PipesTypeOK` and `DamageBeyond`: what such numbers do to other entries, and that nothing else does it |
| `stuck` | `MCUserPipes` | 2 sessions, 1 command each, fair | `SemaphoreComesBack`: the three ways, and no other, to hold the semaphore for ever |
| `opened` | `MCUserPipes` | 3 sessions, 2 senders to 1 receiver | violation of `Opened` (below) |
| `socks` | `SocksSession` | 2 pieces each way, buffer 2, kernel 1, fair; addresses of 4 octets out of {1, 12}, 2 lines | `RepliesFirst`, `AnswerComplete`, refinement of `ProxiedConnection`, `SessionEnds`; `FirewallDecides`: comparing texts decides as the rules mean octet by octet |
| `console` | `ConsoleSession` | 3 lines, 2 outputs, buffer 3, fair | `Operations`, refinement of `ScriptRunner`, `ScriptEnds` |
| `numbered` | `MCNumberedPipes` | 3 commands, ring of 3, fair | `NumTypeOK`, `WaitsBackwards`, `NoEarlySigPipe`, `PromptAfterLast`, `HangsOnPending`; `InputAddressed`: each command reads exactly the pipe that was addressed to it |
| `single` | `MCSingleServer` | 3 clients, 2 ids, 3 lines | `SingleTypeOK`, `IdsAccounted`, `PipesOfPresent`, `OwnDescriptors`, `NoLeak`, refinement of `ClientTable` |
| `http` | `MCHttpServer` | 2 clients, 3 processes, 5 requests, texts cut in the URI, fair | `ParserDecides`: the machine decides as the grammar; `OneStatusLine`, `OutputFits`, `RootSurvives`, `Answered` |

**Bounds.** Two slots make a broadcast visit another session before and after its own,
and let a name be taken below and above the slot of the one who asks; three sessions on
two slots are the smallest instance with a full table, with a slot that changes hands while
its old owner is still clearing it, and with a signal to pid 0 that reaches a session
without a slot. `Typists` and `MaxCommands` bound who types and how much: in `chat`, login,
`name`, `tell` and `yell` leave several messages in one mailbox, so that signals coalesce.
`Leavers` are the clients that may vanish. Symmetry over sessions that may do the same is
used in safety runs only.

For the pipes, `Froms` and `Tos` are the arguments that clients type. With two
sessions, a pipe to slot 2 and one from slot 1 cover a pipe to the other session, to
oneself, a pipe that is missing, marked or open when `<` looks at it, and a handler
that interrupts a sender in the middle of its own pipe. A command without `>` is among
them, because a session that sends to itself waits in `open` for ever: what `<` leads to
in its child is only reached without one. In `pipes` the first two numbers beyond
the table mix with ordinary pipes: they are `used` and the pid of the next entry. One of
the three slots has no session, so an entry that nobody has can come into use, and the second
number faults after the last entry only. `FewCommands`, an action constraint, bounds
what is typed together: one session has slot 1, a number beyond the table is typed once
at most, and where there is none the session in slot 1 may send to slot 2 a second time.
That is enough for a path, a mark and a descriptor to be used again after they were
read. Without the constraint the instance has several million states; the proofs do
not depend on it. `stuck` has no numbers beyond the table: with them, progress is
neither checked nor proved. Three sessions are needed only for two senders to one
receiver.

In `socks` a buffer of two pieces and a kernel that takes one make every write happen in
parts and stall; two pieces each way are enough for one to be in a buffer while the next
waits. For the firewall the octet 1 is the beginning of the octet 12, which is what a
comparison of texts could get wrong; two lines let a rule that does not match come
before one that does. In `console` a read of up to three characters can hold a prompt with
text before or after it, or half of one; three lines let a repeated line displace another.

In `shutdown` the second session types `who`, so that the signals find sessions in every
kind of step: logging in, broadcasting to two slots, inside a section, in the handler of
SIGUSR1, asleep in `semop`, at the prompt. Logouts are left to `leave`: with them this
instance is several times as large.

In `http` one client sends any of five texts (a program with a query, a directory, a path
that `stat` refuses, bad text, an unfinished request), and the other asks for the program
and may close or reset. Two children are enough for a second server that forks once
more. A text comes whole or in two pieces, cut within the URI.

In `numbered` three commands on three slots put a command between the writer and the reader
of a pipe; a pipe holds one unit and producers write two, so that they block. `|3` comes
back to the writer's own slot and `|4` goes once round the ring to the next, so slots are
used again, also one that a builtin left occupied. `MaxProcesses` and `MaxPipes` let
fork and pipe fail. In `single` the third client finds the queue empty or takes over the
id of one who left; with three lines two pipes can be unread at once, and a third line or a
hang-up ends one of their sessions. The number 3 is the first beyond its table.

**Finding** (`opened`). `multiple/shell.h:68` says of `user_pipe_from` that 0 means
"have opened the file". Sender A marks the receiver's row under the semaphore and makes
the FIFO after releasing it; if sender B's SIGUSR2 reaches the receiver in between, the
handler opens every marked entry, the open of A's path fails, and the entry becomes 0
with descriptor -1. A then waits in `open` for a reader that will not come.

**Fairness.** `WF(Step(p))`: the operating system schedules every process that can run.
`SF(SemaphoreP(p, f))`: a process that waits in `semop` gets the semaphore if it is
free again and again; System V semaphores wake the waiters in the order of their
arrival. Clients promise nothing: hanging up, typing and connecting are not fair.
`PipesFairness` is the same for sessions (`PipeStep`) and for the children up to exec
(`ChildStep`); the program that a child runs need not end, so `ChildEnds` is not fair.
`SocksFairness`: resolving and connecting end, the kernel completes what it can, callbacks
run, and an end that has not closed reads what it is sent; nobody need send, leave, or
connect to a bound port. `NumFairSpec`: the shell and the programs it runs
take their steps, and the handler reaps what has ended; nobody need type, and a missing
program (`Quit`) need not be typed.
`HttpFairSpec`: one thread per process runs every handler that is due, and the kernel hands
over connections and bytes; a program may run for ever, and clients owe nothing (so
`Answered` exempts a client whose connection only programs listen for).
`ShutSpec`: the master goes on in its handler, and a session that was sent SIGINT runs its own;
nothing makes the signal come, and nothing else need make progress.
`ConsoleFairSpec`: the same for a console, and a shell that ends
its commands, prompts, and reads the lines it gets.

`ExitCompletes` has the premise that no handler ever wedges the semaphore. The wedge
is real and reachable: SIGUSR1 interrupts a process between `Semaphore_P` and
`Semaphore_V`, the handler calls `Semaphore_P` (`multiple/shell.cpp:491`), and both wait
for ever. No line of the repository claims the contrary, so this is documented here
and as a hazard; the property shows that it is the *only* way a logout hangs. In the same
way `SessionEnds` leaves out the phase `accept`: a session that waits for the connection
of BIND does not look at its client and outlives it.

## 5. Proofs

`tlapm` on the eight modules `*Proofs.tla`: every safety property of the runs that hold, the
refinements among them, is proved. For every value of the constants (any set of
processes or clients, any number of slots and ids, any names, lines, buffer sizes and
bounds on what is typed):

* `TypeCorrect`, `SemaphoreCorrect` (`MultiServerProofs`). The inductive invariant is
  `ControlInv`: `TypeOK`, `StackInv` and `SemaphoreInv`. `StackInv` is needed because a
  handler's `V` resumes `saved[p][s]`: without knowing that the frames form one chain
  that ends in `main`, a `V` could resume a frame that holds nothing, and nothing
  would bound the number of holders.
* `SlotsExclusive`, `NamesUnique`, `TableImplemented` (`TableProofs`), on
  top of `ControlInv`. `OwnerInv` says per session what phase it is in, that the slot
  it is about to claim is free while it holds the semaphore, and that a registered
  session owns its slot; the unlocked memset is harmless for ownership because only the
  owner's own slot is cleared and `used` falls first. `NameInv` adds that the nickname
  that `NameAct` writes is still free: nothing between test and act can introduce a
  name, since all writers of non-empty names hold the semaphore.
* Refinement: each step leaves the mapped table alone or is one action of
  `ClientTable`; `ClientTable`'s `Init` follows from `Init`.
* `WakeupsKept` (`TableProofs`), on top of `ControlInv` and `OwnerInv`. `WakeInv` holds while no
  session has begun to end, which none takes back. A message that nobody is about to signal
  has a signal pending or a handler that has not looked yet (`Wake`), and two facts keep it
  so: who a slot names is alive and looks into that slot (`Reader`), and the writer of a
  message has found the slot in use and holds the semaphore (`Writer`), so no message is
  left in a free slot for its next owner (`Blank`).
* `RemovalSafe` (the end of `TableProofs`), on top of `ControlInv` again. While the semaphore exists
  the new steps are steps of `MultiServer` or the end of a process, which keeps `ControlInv`
  at any instant (`ControlEnd`). Its removal leaves at most one frame inside a section, and
  from then on no step lets another one in (`NoEntry`): every `semop` fails.
* `ChildrenExcluded`, `PipesTyped` (`UserPipesProofs`), for any integers after `<` and `>`: a number
  beyond the table takes nothing's type away, since the words that a child sets to -1 are a `used`, a
  pid, text, a mark or a descriptor of some entry, and the parts of `PipeClient` allow for each.
  `LockInv` is `PipesTypeInv`, `ExclusionInv` and `ChildInv`. With the path of `FromTest` that forgets `Semaphore_V`
  (`multiple/shell.cpp:264-298`) holding the semaphore is no longer being inside a section:
  `ExclusionInv` is about who *owns* it instead, by an undo value or as a child in its
  section, at most one owner at a time, and says that a frame inside belongs to the owner. A
  leaked semaphore is then an owner without a frame. `ChildInv` says that a fork finds no
  older child of the session. How handlers are stacked does not matter here.
* `DamageIsBeyond` (`UserPipesProofs`), on top of `LockInv`. `InputInv` says that a child that takes
  the semaphore has a number after `<`. The rest is the layout: entries do not overlap
  (`EntriesInOrder`), so a word that such a child writes lies in its own rows or behind them
  (`WrittenWords`), and in its own rows it is the pipe that the command reads, unless the
  number is beyond the table. All other steps keep what entries hold (`OthersKeepEntries`).
* `MarksHaveSenders`, `PathsHaveCommands` (`UserPipesProofs`), on top of `LockInv`.
  `SlotInv`: a session knows its slot and no process has two. `PathInv` strengthens
  `PathHasCommand` (through `Owns`) by what a Broadcast returns to: one that started before
  `mkfifo` goes on to `To`, one that started after `open` to `fork`. `OutputOpen` says that
  a command on its way to `mkfifo` has not failed, so its child will remove the path.
* `RepliesCorrect`, `AnswerCorrect` (`SocksProofs`), for any buffer, kernel queue and amount of
  data. `RepliesByPhase` ties the replies to the callback that is awaited. `ClosedWhenDone`
  adds what a failed operation and a closed socket mean for the answer (`Done`): the client
  has left, or the server has, or it has ended its answer and all of that is written.
* `ProxiedImplemented` (`SocksProofs`), on top of those. `RelayInv` says what waits where: a
  direction that reads has an empty buffer, and no socket outlives the client's. A read
  moves bytes within what is in transit, a write too, and a send or a receipt
  is the abstract one (lemmas `Transit...` on sequences). The rest is the break: when the
  sockets close, each channel keeps a prefix of what was in transit.
* `NumTypesCorrect`, `CommandsWaitBackwards` (`NumberedPipesProofs`), for any ring, lines
  and limits. `NumInv` is `NumTypeOK`, `RingInv`, `ChildInv` and `WaitsBackwards`. A pipe
  has the number of the command that made it: the ring holds each number once and none
  of a command to come (`RingInv`), and a child reads no pipe of a later command than
  itself (`ChildInv`). By the time a command reads a pipe the shell gives it up, so no later
  command inherits the write end, and waiting cannot go round in a circle.
* `InputsAddressed`, `SigPipesLate`, `PromptsAfterLast` (`NumberedPipesProofs`), on top of `NumInv`.
  `PipeInv` follows one pipe through the ring: it is in its slot until a command that takes the
  slot comes by, and nowhere after that (`InSlot`), and the shell keeps it until its reader is
  there (`Kept`). Two commands take one slot only if they are a multiple of the ring apart; the
  lemmas on `%` say so. `WaitInv` relates `Needtowait` and `lastpid` to the last command.
* `IdsAlwaysAccounted`, `PipesAlwaysOfPresent`, `SingleTypesCorrect`, `DescriptorsOwned`,
  `NothingLeaks`, `SingleTableImplemented` (`SingleServerProofs`). `SingleInv` is the first three
  properties, what an entry holds (`EntryInv`) and what every number refers to (`FdInv`): a
  connection of the entry that stores it or the read end of an unread pipe that does, and
  no number is kept by two. A write end closed at the fork stays unused as long as no number
  was handed out since (`WriteInv`), which is why its second close is harmless until then and
  only then. That the kernel finds the numbers a command needs is counted: those in use inject
  into ids and pairs of ids.
* `OperationsCounted`, `ScriptImplemented` (`ConsoleProofs`). `SessionInv` is the types, `ReadsInv`
  (reads in flight and reads completed together are the lines popped, in project 3; one
  operation at most in project 4) and, until two reads overlap, `OrderInv`: callbacks alternate,
  and the lines sent, the prompts on the wire and the one a waiting callback will find are
  no more than the prompts printed (`PromptsInv`). The last is why a line is never sent early:
  it counts "%" in sequences that are cut and joined, so the lemmas are about counting.

* `RulesDecide`, `FirewallIsRight` (`SocksProofs`), for any octets and any number of them.
  Two texts of up to three digits per octet are equal or differ where one of them has a
  digit and the other another digit, a dot or its end (`OctetDecides`): that is why 1 never
  matches the beginning of 12. `MatchesFrom` replaces the recursive function by the set of
  positions from which it is true, `TextIs` says where each octet of a text begins, and
  `MatchesCovers` goes through the octets from the last one back.
* `ParserIsCorrect`, `ParserIsRight` (`HttpProofs`), for every text. The module first shows that
  a text may be cut anywhere between reads (`ParsePieces`). `Fits` is the invariant of the machine:
  it is in a state exactly when the text read so far has the form of that state (`InUri`, `InName`,
  `LineEnds`, ...), in the grammar's own terms, and it is done exactly when some beginning
  of the text is a request. The forms grow by a byte as the table's moves say. A form is completed by
  the end of the short request that has the same form at that place (`OnShort`), and what has
  no form is completed by nothing, so `Meaning` is the verdict.
* `HttpTypesHold`, `StatusIsRight`, `OutputIsRight`, `RootIsSafe` (`HttpProofs`), for any number of
  connections, processes, cuts and texts. `HttpInv` has the tables of all processes, what a
  connection is before anybody accepts it (`Waiting`), and per connection, unless it is
  `Doubled`, `ClientInv`: at most one server has it open (`Holder`), its parser is what the machine
  makes of exactly what was read (`SoFar`), and before it answers nothing was written; at most one
  child has it as its standard streams (`Child`), and that child knows a client that was told 200
  or whose file has changed. Since the parser decides as the grammar does, the verdict on what
  was read is the meaning of the whole text: what is good or bad at its beginning stays so. Most
  steps are `Quiet` for most connections, and one lemma does for all of these. `RootSurvives` is part of
  the invariant because an exception of a handler accuses a client only through what
  `Holder` says of the text that it handles.

Induction in these proofs is over sets: the library's induction theorems take an operator as
a parameter, which the provers cannot instantiate, so the lemma `Induction` (a set of numbers that
holds 0 and the successor of each member holds them all) is derived from the existence of least
elements, and a recursive function is shown to exist before anything is said of it.

Assumptions: the named ASSUMEs of `MultiServer` (at least one slot, `NoProc` is no
process, the empty name is not a nickname, leavers are processes, the commands are those
of the code), and those of `UserPipes`, `NumberedPipes`, `SingleServer`, `Firewall`, `SocksSession`,
`RemoteShell`, `ConsoleSession`, `RequestParser` and `HttpServer` (texts are made of bytes). TLC evaluates them in every run.

Only model-checked: all liveness (`ExitCompletes`, `SemaphoreComesBack`, `ShutdownCompletes`,
`SessionEnds`, `ScriptEnds`, `HangsOnPending`, `Answered`), since liveness under fairness is out
of the prover's reach. `Opened` does not hold (the finding above).

## 6. Not modelled

* Numbered pipes and redirection to files in both chat servers, and the descriptor numbers
  that the multi-process one holds. Of a stray number that the parent closes (`Astray`) only
  the session's input is told apart; closing the output, or a number that is reused later, is not.
* Behind memory that is overwritten: in the multi-process server the model stops a Broadcast, and a
  pipe, at a pid of -1, where `kill` reaches every process of the user. An entry whose `used` is -1
  counts as used where the code tests `used`, and as unused where it tests `!used` (line 275
  of `multiple/shell.cpp`), as in the build of the Makefile, which does not optimise. In the
  single-process server it stops at the access (`"undefined"`).
* The lengths of messages and names. `strncpy` into `msg[1025]` (`multiple/shell.cpp:605`, `787`)
  overflows for a long line, and only a bit of the message is modelled.
* `tell` with a number that reads memory before the table, or bytes behind it that are not zero.
* Numbers after a bar that are neither a slot nor -1: `np_project1/shell.cpp:128-129` adds whatever
  `stoi` returns, so that a negative one can be an index below the ring. Those that give a
  slot are in `NumberedPipes` by their remainder, -1 is no pipe, and a word that `stoi` refuses ends the
  shell as `EndOfInput` does. The chat servers parse their bars in the same way.
* In the consoles: a line of which `async_send` sends a part, since `session.cpp:86-91` ignores the
  length; and the lifetime of its text, a temporary. The socket takes a line at once.
* In the HTTP server the text of a failed `execlp` (`http_server.cpp:126`), which is written to
  `cout` and stays there until a later log flushes it to the same client: it is part of that `"log"`.
* Environment variables, whose values no step but `printenv` depends on.
* Failures of `accept` and `socket` for want of descriptors.
* In the shutdown: a second signal while the first is handled, a terminal's signal before
  a session has its handlers, and a restart while sessions of the last run live on.
* In the HTTP server: version numbers that overflow, bytes after the header, and the values
  of CGI variables. The status line that `async_send` is given is a local variable; Boost
  sends it before the call returns whenever the socket takes it, which is assumed.
* The accept loops of `simple/` and of the SOCKS server: they fork and keep nothing.
* Query strings, pages, panels and the helper programs: sequential text.
