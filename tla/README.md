# TLA+ models of sandbox-mcp

sandbox-mcp is an MCP server that gives an agent persistent shells and files on
docker containers and SSH hosts.  This directory models its concurrent and stateful
core, checks it with TLC and proves part of it with TLAPS.  `PROJECT.json` lists the
components, the runs, the source lines behind every definition, the hazards and the
theorems.  Paths below are relative to `src/sandbox_mcp/` of the repository unless they
start with `src/`.

## 1. The system

| Component | State it keeps | Operations | Talks to |
|---|---|---|---|
| ShellSession (`shell_session.py`) | `_state`, `_prompt_event`, `_pending_exit_code`, `_head`/`_tail`, `exit_reason` | `send`, `read`, `write_stdin`, `close`; drain thread, init timer, `_health_check` | a process with stdin/stdout: subprocess, ssh, DockerExecProcess |
| DockerExecProcess (`backends/docker_backend.py:242`) | socket, two pipes, `carry` | `_demux_loop`, `_stdin_loop`, `kill`, `poll`, `wait` | docker exec socket; ShellSession reads and writes the pipes |
| TargetRegistry (`target_registry.py`) | `_machines` (ordered), `_default` | `register`, `adopt`, `unregister`, `set_default` | backends' `create` |
| ShellRegistry (`shell_registry.py`) | `_shells`, `_default_shells` | `open` with health check, `close`, `get_or_create_default`, `close_all_for_machine` | backends' `open_shell`, ShellSession |
| SandboxServer, SandboxEnv (`server.py`, `sandbox_env.py`) | the two registries | start-up, `call_tool`, the `env` actions | all of the above |
| DockerBackend | `_provider`; the daemon keeps containers and labels | `create` with 409 reattach, start, stop, restart, remove, list, exec, write_file | docker daemon |
| SSHBackend (`backends/ssh_backend.py`) | `_targets` (socket, socket_dir, codecs) | `create`, `_ensure_alive`, `open_shell`, `exec_oneoff`, `remove`, write_file | ssh control masters |
| FileOperations (`file_operations.py`) | none | read, write, patch, search | `exec_oneoff`, `write_file` |
| Audit log (`audit.py`) | `DEFAULT_AUDIT_LOGGER`, the SQLite table or the JSON lines | `record`, `reset_default_logger`, `query_audit` | `call_tool`, the configuration |
| Authentication, configuration (`auth.py`, `config.py`) | the tokens file, the configuration file, the environment | `load_auth_tokens`, `load` | the HTTP middleware, everything that reads a setting |
| Providers, safety, encodings, tool schemas | text | see `components` in `PROJECT.json` | |

**What runs concurrently.**  The MCP handler calls `call_tool` without awaiting, so one
event-loop thread executes every tool call from beginning to end.  Beside it each shell
has a drain thread and, for ten seconds, a timer; a shell in a container has two more
threads behind its pipes.  These share attributes without a lock: `send` takes `_lock`,
but the drain thread and the timer take none.  Containers, masters and remote processes
die when they like, and containers outlive the server.

**What is hard.**  Threads that read and write `_state`, the event and the buffer in
every order; a prompt that is late, early or not the command's own; a process that dies
between two steps; registries that have to agree after calls that fail in the middle; a
server that restarts over containers it no longer remembers; bytes that the socket cuts
where nobody expects; a remote script that outlives the call that waits for it; files
and tables that others write while an agent pages through them; settings that are read
at one moment and used at another.

**What makes each part correct.**

- *Session*: one command at a time; a ready answer carries its own exit code and its
  whole output; ready means at the prompt; a call always returns; a finished command is
  noticed; a terminated shell stays so and keeps its last output.
- *Registries*: the default machine and default shells are registered; no shell outlives
  its machine's entry; dead shells stay until the agent ends them; after a restart every
  container is known again.
- *Exec process*: output goes through whole, clean and in order; it ends only with the
  shell; `kill()` ends both threads.
- *SSH masters*: a connected name's directory exists, is nobody else's, and goes with
  the name.
- *File writes*: an ok is true of the disk; a torn file or a leftover is explained by the
  answer of the call that made it; endings and mark of the old file are kept.
- *File queries*: who follows the hints from page to page misses no line and no file.
- *Output scan*: however the reads cut what a shell prints, the prompt is found, and an
  answer shows the command's output and nothing else.
- *Server process*: every call has one record that says what it did, where `audit_query`
  looks for it; pages of the log join; only bearers of the operator's tokens are let in.

## 2. The modules

| Module | Models | Checked by |
|---|---|---|
| `CommandLedger` | abstract: what a session promises to the agent | refined by `ShellSession` |
| `ShellSession` | one session: server thread, drain thread, timer, shell, terminal | `session_*` |
| `ShellSessionInv` | its inductive invariant `IInv`, with `OutputInv` for its output, `NoticedInv` for the refinement and `BootInv` for agents that write to stdin | TLAPS |
| `ShellSessionProofs` | proofs, with the refinement of `CommandLedger` | TLAPS |
| `OutputScan` | the bytes of a session: scan, buffer, cut and answer | through `MCOutputScan` |
| `MCOutputScan` | a prompt of two pieces | `output_scan` |
| `OutputScanProofs` | proofs | TLAPS |
| `ShellDirectory` | abstract: what the server promises of machines and shells | refined by `SandboxServer` |
| `SandboxServer` | both registries, `env` handlers, start-up, containers, connections | `server_registries`, `server_restart` |
| `ServerProofs` | proofs | TLAPS |
| `DockerExec` | one DockerExecProcess, byte by byte | `docker_exec` |
| `SSHMaster` | masters, sockets, directories of SSHBackend | `ssh_masters` |
| `BackendProofs` | proofs about `DockerExec` and `SSHMaster` | TLAPS |
| `FileWrite` | one file under write and patch calls, the scripts they start, other writers | `file_write`, `torn_write` |
| `FileWriteProofs` | proofs | TLAPS |
| `FileQueries` | an agent that pages through a file or a directory that others change | `file_queries` |
| `FileQueriesProofs` | proofs | TLAPS |
| `Selection` | the members of a sequence that lie in a set: what a WHERE clause selects, and the bytes of a frame that are output, what is left of a text without its escape sequences | extended by `AuditLog`, `DockerExec` and `OutputScan` |
| `SelectionProofs` | lemmas about it, by induction over sequences | TLAPS |
| `AuditLog` | a logger and the SELECTs of `query_audit`, as operators | extended by `ServerProcess` |
| `ServerProcess` | start-up, middleware, calls with their records, `audit_query`, other servers | `server_process` |
| `ServerProcessProofs` | proofs | TLAPS |

A definition whose name ends in `_Something` and whose comment begins with *Slip* (or
says what goes wrong) is a mutated form of the definition after it: substituted for it,
it breaks the property that `PROJECT.json` names beside it.  The specifications do not
use them.

### ShellSession

`self` is the object's attributes; `spc`, `dpc` and `tpc` are the positions of the server
thread, the drain thread and the timer; `stdin` and `pty` are what the terminal holds in
each direction.  A step is one access to an attribute that another actor reads or
writes.  Commands are numbered, and text is whose text it is: `buf` is the set of
commands with output in `_head`/`_tail`.  The number of a command also stands for its
exit code, so that a code can be seen to belong to another command.

- The server runs one call at a time, so `_lock` is never contended and is left out.
- A read of the drain thread returns any non-empty run of whole lines from the terminal.
  `carry`, the bytes held back, is the last line of a chunk without a prompt.  Reads that
  end within a line, and the cut of long output, are in `OutputScan`.
- A prompt ends without a newline.  What a background job (`"bg"`) prints next continues its
  line, where the search still finds it (`Found`); after a second line it does not.
- `poll()` of a container shell asks the daemon, and `DrainEof` lets it raise.
- `timeout` is a number, as the tool schema asks (`server.py:144`).  With `None` the wait
  would have no end.
- `bytes(head) + bytes(tail)` is one read.
- `_pending_marker` and the branch of `_start` without a setup line cannot be reached
  with the two providers the code has, and are left out, as are `uptime`, `bash_pid` and
  `last_exit_code`, which nothing tests.
- A write to a dead process may raise or may succeed.  The terminal never fills.
- Ctrl-C is handled in the order it was written.

### CommandLedger

Accept, finish, notice, answer, die.  `ShellSession!Ledger` maps the session to it; a
ready answer with an exit code exists only for the command accepted last, and only when
it has finished.

### OutputScan

`_drain` and the buffer of one session, byte by byte, one command after the start-up.  A
byte stands for a class of bytes: text, the carriage return, the newline, the halves of
an escape sequence, the command, the halves of `SETUP_OK`, the pieces of a prompt.
`Read` is one turn of the loop on any piece of what the shell has printed: `Stripped` is
`_strip_ansi`, `ScanInit` and `ScanOutput` are the two branches of the scan, `Store` is
the buffer, `View` what an answer makes of it.  `Shown` defines what an answer may show of
a text that came in one piece; `OutputExact` compares.

- With `CutsInit = FALSE` no read ends within `SETUP_OK` or the first prompt.  With `TRUE`
  `PromptSeen` fails (section 4).
- The branch for a pending marker (156-177) is dead and left out; so is what other
  programs print between two commands, which `ShellSession` has.
- `Prompt` is a sequence of distinct pieces that no command prints; the run has two, the
  proofs any number that fits in `Keep`.
- An escape sequence has two bytes; longer ones than `Keep` are left out.

### SandboxServer

A tool call is one step, because one thread runs it to its end.  What the environment
does during a call shows as the call's outcomes (an error, a container that vanished
between the 409 and the lookup) or as a step before or after it.  An exception of the
docker client that changes nothing is a stutter and has no action.  `machines` and
`order` are the ordered dict `_machines`; an overwritten key keeps its place.  Shell ids
are the numbers 1, 2, ... (the code draws UUIDs).  A provider is the operating system it
is for.  The docker states created and exited are one.  `SSHBackend` is reduced to the
names in `_targets`.  `Faults` says what may go wrong.  Handlers that only report,
`docker_build` and `docker_commit` change no registry and are left out.

### ShellDirectory

Machines come and go; a shell has one home from its opening to its end and its number is
never given again; the first machine is the default, and stays so
until it goes or the agent appoints another; who is the default after that, if anyone, is
left open, since code and docs disagree (section 4); the default shell of a machine is one of its
own.  `SandboxServer!Directory` maps the registries to it: the keys of `_machines`, the
`machine_name` of the entries, `_default_shells`.  Containers, targets, providers and
failures are gone, and a crash is `Forget`.

### DockerExec

The daemon sends raw bytes (the code asks for `tty=True`) or frames with an 8-byte
header, which the loop tells apart by the first byte.  The socket returns any prefix of
what has arrived.  `DemuxTimeout` is the 300 s socket timeout; `sendall` has the same one,
so the feeder may fail at any time.  A terminal may print the control characters 1 and 2,
which the loop takes for the head of a frame; `Controls` says at which places of the raw
stream it does in an instance, and `RawOutput` is of streams whose pieces so far had at
least eight bytes and did not begin with such a character (`plain`).  Since the code asks for `tty=True` (259), frames are a
case the loop is written for and that does not arrive: `CleanOutput` is about the loop.
Pipes are unbounded, and a closed descriptor is not given out again.

### SSHMaster

The specification is `MastersSpec`: its names differ from those of `DockerExec`, with which
`BackendProofs` takes it.  A socket is named by the number of its directory.  `SocketPath(t, k)` is the k-th call of
`_socket_path` in a `create`; a first `create` makes three calls (four for Windows), each
of which makes a directory.  `Unstable` lets connections fail and masters die.

### FileWrite

`pc` follows one call of `FileOperations.write`, `_patch_replace` or `_patch_apply`
through `write_file` of a backend.  `script[c]` is the shell script that call c has
started on the machine: a killed ssh client or an answer that comes too late ends the
call and not the script, so a script may run beside later calls.  A content is its author
(a call, or an edit of another program), its line endings, its byte order mark and
whether it is whole.

- `Faults` says what may go wrong: a command of the machine (`mkdir`, `cat`, `mv`,
  `WriteAllText`), a reply, the ssh client in the middle of what it sends, a script.
- A mkdir of docker whose result cannot be asked for (`docker_backend.py:1332`) is answered
  `"mkdir"` and leaves its directory.  `Answer("write")` also stands for an exception of
  the docker client after the directories were made.
- `StreamFails` is a content that fails half way; ssh scripts go on after it, and so do
  they after a failed mv (`MoveUnnoticed`), so that the second read has to notice.
- ssh joins its words.  `SSHBackend` passes `bash`, `-c` and the command as three
  (`ssh_backend.py:471`), so on a Linux target `bash -c` gets the first word alone: `Mkdir`
  fails for paths with a directory other than `/`, `Text` is empty, `Patch` changes nothing,
  and the script runs without its `set -e`.  What an operand-less `cat` may take of the
  server's own stdin is left out.
- `Blank` is an empty text that no error came with: `_patch_replace` finds an empty
  `old_string` in it and goes on.  An empty content is left out.
- PowerShell: `Get-Content` drops the mark and ends lines in CRLF; `WriteAllText` puts a
  mark in front; errors leave exit code 0.  The output code page of Windows targets is left out.
- `patch` of the machine applies all hunks or those that fit.  The search of
  `old_string` and the diffs are left out: whether it is found is a choice.
- The `rm` of a script is taken to succeed.

### FileQueries

An agent reads a file or searches a directory (`task`), on a machine with bash or with
PowerShell, and asks for page after page as the answers hint (`sweep`), while `Grow`,
`Replace`, `Touch` and `Remove` are what other programs do.  `Read` brings offset and
limit within their bounds; `Stat`, `Sed` and `Wc` are the commands of the one script of
`file_read_command`, each of which opens the file again; `Wc` also makes the answer.
`Search` and `List` are `_search_files`.

- The lines of a file are its content, and `ended` says whether the last has a newline.
  Sizes count in lines.  The bash
  machine is a container: over ssh the script of a read never finds its file (section 4).
  A line longer than `max_line_length`, encodings and marks are
  left out.
- Two files have different times, and a file that is touched becomes the newest.
- `diagnostics`, which only PowerShell machines have in a search for files, and search by
  content are left out.

### AuditLog and ServerProcess

`AuditLog` says what a logger is (a path and whether it is open) and what the three
SELECTs of `query_audit` return for a table.  `ServerProcess` goes through a life of the
process: `Import` opens the default logger, before `ApplyFlags` puts `--config` in the
environment; over HTTP `Reset` replaces and closes it and `ResolveTokens` looks at the
tokens; `Build` is `SandboxServer()`, which takes the logger of that moment.  `Arrive` is the
middleware, which lets in who bears a token of the file (the token that `main_http` may
print is not one of the senders, see section 4), `Handle` the tool call up to its `finally`, and `Record` the record.
`audit_query` is `BeginQuery`, one step per SELECT, and an agent that asks for the next
page while the last was full.  `OtherAppends` is another server on the same database;
`EditConf` and `EditTokens` are the operator; `Stop` may come anywhere.

- One event-loop thread runs a call and its record without a pause, so that a query is
  never between a handler and its record of the same process.
- What a tool does is in the other modules; here it is its name and how it ended.
- The filters on machine, since and until are as the others and left out.
- A record that fails is `"lost"`: `record` catches its exceptions.

## 3. The runs

| Run | Instance | Shows |
|---|---|---|
| `session_safety` | 3 commands (the first is the health check), 1 background line, a death at any point | type and safety invariants, refinement of `CommandLedger` |
| `session_live` | 2 commands, 1 background line, a shell that may boot late or never and hang | `CallReturns`, `CompletionNoticed` |
| `session_stdin` | 2 commands, 1 `write_stdin` (Ctrl-C or a line), background, deaths | `TerminatedOnceSeen` |
| `output_scan` | outputs of up to 4 units, head 2, tail 3, answers of 4 bytes, every cut | `PromptSeen`, `OutputExact` |
| `server_registries` | machines a, b; b also an ssh target; 2 shells; default a; all faults | `RegistryInv`, `DeadShellsKept`, refinement of `ShellDirectory` |
| `server_restart` | 2 containers, an ssh default, exits, removals, crashes | `ContainersKnown` |
| `server_process` | a database and a JSON-line file, 2 starts, 2 requests, 3 queries, 2 rows of others, an edit of each file; 5 events in all | `TrailFaithful`, `QueriesOwnLog`, `CallsAuthorised`, `PagesJoin`, `WindowMatches` |
| `ssh_masters` | a Linux and a Windows target, 9 directories | `SocketsOwn`, `SocketStable` |
| `docker_exec` | 16 raw bytes, the ninth of which may be a control character, or 2 frames, payload up to 1 | `CleanOutput`, `RawOutput`, `KillEnds` |
| `file_write` | docker, Linux and Windows machines; 2 calls, 1 edit by another program; all faults; a staging directory on another file system | `TornIsReported`, `LitterExplained`, `EndingsKept`, `OkWasOnDisk` |
| `file_queries` | a file of up to 4 lines on either shell, or 3 files; 3 calls, 2 edits | `PagesCover`, `FoundAll` |
| `torn_write` | 1 call on a Linux target whose ssh client may end early | finding: a cut stream is installed |

**Bounds.**  Two commands meet every race of one command with the next; a third command
is there because the first is the health check, during which the agent cannot act.  One
background line and one stdin write suffice to put a prompt or a line in a wrong place.
Two machines with two shells let a default move, a name be on both backends, and a
machine have a default and another shell.  Sixteen bytes are the shortest raw stream with
two pieces of eight, whose order could be wrong, and a control character at the ninth place
begins the second of these or stands within a longer piece; two frames of up to nine bytes have a header, a
payload and a boundary to be cut in.  Nine directories are both first connections
and two failed ones.  Two calls let the script of the first run beside the second, and
one edit puts another writer between any two steps.  In `output_scan` four units fill the
head, pass it within a piece and overflow the tail, and three bytes held back are one more
than a prompt has, so that a cut prompt and text before it meet.  In `file_queries` four
lines are one more than `max_file_size` and two pages of the largest limit; a limit of 0
and of 3 are brought within it from either side; the second edit lets a file grow twice or
a touched file be removed.  In `server_process` five events are a start, a record, two
pages and a row or an edit between any two of them, or two lives with a call each.  The
theorems do away with the bounds for most safety properties.

**Fairness.**  In `ShellSession` the drain thread and the timer are weakly fair, and the
server thread is while it is inside a call: threads the operating system schedules.  The
agent's next call, its stdin, the death of the process and the shell itself are never
owed: `CallReturns` holds with a shell that hangs, because every wait has a deadline
(`SlowInit` lets it pass).  In `DockerExec` both threads and a `kill()` that has begun
are fair, neither the daemon nor the one who kills.  A read of the closed socket is not
relied on: what wakes the demultiplexer is the end of the stream or its timeout.

**Deadlock** is checked in `server_registries` and `server_restart`.  It is off in the session runs, where a
closed session rests, and where a bound of the instance stops everything
(`DockerExec`, `SSHMaster`, `FileWrite`, `FileQueries`, `OutputScan`, `ServerProcess`).

## 4. Findings

`torn_write`: `cat > "$tmp"` succeeds on any end of its input (`bash_provider.py:55`).
When the ssh client of a `file_write` is killed at its timeout or loses its connection in
the middle of the content, `mv` installs the part: TLC's steps are `Begin`, `Probe`,
`Mkdir`, `CutStream`, `Move`.  (The path has no directory part or is in `/`, since `mkdir`
fails for others, see below; Windows targets behave alike for all paths.)  The call does
answer with an error (`TornIsReported`),
but the old file is gone, against `file_operations.py:25` and `src/README.md:17`, "All
writes are atomic".

Seen while modelling, and without a run of their own.  Sessions:

- `read()` copies the output before it tests `_prompt_event` (`shell_session.py:307`).
  Between the two the drain thread can store the output and set the event: the result
  is ready, has the exit code and lacks the output, which the next `send` clears.
- `send` and `read` assign waiting or ready over a terminated that the drain thread has
  just assigned (`shell_session.py:256`, 286).  A session whose process died in the
  course of a call can then be ready, and after one more `send` to a pipe that still
  takes it (that of a container's shell) stay waiting.  `TerminatedOnceSeen` says what
  remains: a terminated that a caller could see between two calls is final.
- The timer sets the event while the drain thread sets ready: the health check's `send`
  is woken, finds ready, and a shell is published whose kill is under way (99).  In such
  runs (`SlowInit = TRUE`, a shell that needs more than ten seconds) `SingleInFlight`,
  `AnswerMatchesCommand` and `ReadyMeansAtPrompt` fail, hence the theorems' assumption.
- With `StdinKinds = {"ctrlc"}`, `ReadyMeansAtPrompt` fails: the extra prompt of a Ctrl-C
  is taken for the end of the next command, against `src/README.md:80` "At a prompt,
  accepting commands."
- Two lines of background jobs read together with the prompt hide it (148), and the command
  is never reported as finished (`bgs > 1` in `CompletionNoticed`), against `src/docs/design-spec-v2.md:79` "the next
  prompt line is the gate".
- `poll()` of a container shell raises when the container or the daemon is gone
  (`docker_backend.py:367`).  The drain thread then ends before line 196: the session is
  not terminated, the event not set, and the agent learns of the death from a write that
  fails or not at all.
- `send` clears what background jobs printed since the last result (252);
  `src/docs/design-spec-v2.md:94` promises it to the next command.
- A read that ends inside `SETUP_OK` or inside the first prompt: while it waits for the
  mark, `_drain` keeps nothing back, and the session never becomes ready, against
  `src/docs/design-spec-v2.md:71-80`.  `PromptSeen` shows it with `CutsInit = TRUE`.
- What follows a prompt in the same piece is dropped.  An escape sequence longer than what
  is kept back is not removed when a read cuts it.  `"\r\n"` becomes two newlines.
- `max_output = 0` returns everything (`s[-0:]`).  When `max_output` is not below head and
  tail together, the middle of a long output is missing without a mark, and "of N chars"
  counts what was kept.  The answer of a terminated session keeps the echo.

Docker exec and ssh:

- `_demux_loop` drops a read, or the rest of one, that is shorter than eight bytes
  (`docker_backend.py:329`, `DemuxShort`), although a terminal's stream has no headers.
- A piece of eight bytes or more that begins with the character 1 or 2 is taken for a frame
  (336): eight bytes go missing, and the rest waits for the length that four of them spell.
- `_socket_path` makes a directory per call (`ssh_backend.py:89`): a first connection
  makes three and `remove` deletes one, against the comment at 333.
  `src/tests/test_ssh_backend.py:79` has `mkdtemp` return one path always.
- `exec_oneoff` on docker ignores its timeout.
- The 300 s socket timeout ends `_demux_loop` (`docker_backend.py:315`): a shell that
  prints nothing for that long is reported terminated, though by `src/README.md:82` its
  process has exited then.

Registries:

- A name that is both a container and an ssh target: closing or connecting the one drops
  or replaces the entry of the other.  `ContainersKnown` is of instances without such
  names.
- `register` overwrites a name without closing its shells (`target_registry.py:56`).
  After `connect(x)` and `docker_run(x)` the default shell of x is on the old machine
  and file calls go to the new one.
- `docker_build` uses nothing of the path of its Dockerfile but the name.

Files:

- The staging directory of a docker write is under `/tmp` (`config.py:117`,
  `docker_backend.py:1354`) and not beside the file as `file_operations.py:25` has it:
  on a volume, `mv` copies, and a death leaves a part of the file (`Copy`).
- `_patch_replace` on a file with CRLF and LF lines answers that the patch did not
  persist although it was written (`file_operations.py:643`).
- An ssh `patch` command that times out has exit code `None`, which `_patch_apply` takes
  for success (`file_operations.py:661`): hence `"applied"` in `TornIsReported`.
- A first read that fails or times out counts as "no file": a write over it then loses
  CRLF and mark (`file_operations.py:511`).  PowerShell machines get a mark and CRLF
  whatever the file had.
- `SSHBackend` passes `bash`, `-c` and the command as separate words
  (`ssh_backend.py:471`, 538), which ssh joins with spaces.  On Linux targets the `bash`
  of that line gets one word of the command: `mkdir -p` fails without its operand, so that a
  write of any path with a directory other than `/` answers an error; `cat` reads an empty
  input, so that a write is never verified and never ok, and `_patch_replace` refuses; a
  patch of mode patch answers ok and changes nothing; `file_read` always answers that there
  is no such file; and without `set -e` a failed `cat` or `mv` goes on to the `rm` and exit
  code 0.
- A `WriteAllText` that fails half way does not end the script
  (`powershell_provider.py:78`): `Move-Item` installs the part, and the call, whose second
  read notices, answers that the write did not persist.
- A docker `mkdir` whose result cannot be read is answered as failed, and the temporary
  directory stays (`docker_backend.py:1332`, 1360).
- A patch with an empty `old_string` finds it in the empty text of a first read that timed
  out over ssh (`file_operations.py:604`), and overwrites the file with `new_string`.
- `_patch_replace` undoes an edit made between its first read and its write.
- sed and wc open the file one after the other (`bash_provider.py:44`).  Lines appended
  between them are counted and not shown: `truncated` then leads past them, or, if they
  fit in the page, the end of the file is reported without them.  `whole` excludes this
  from `PagesCover`.
- wc counts newlines.  A last line without one is not in the total, and when it is the
  first of the next page the hint says "End of file".  The page of a file whose last line
  has a newline shows an empty line after it, which the file does not have.
- On PowerShell `Measure-Object -Line` counts the lines that are not empty
  (`powershell_provider.py:65`): a file with empty lines is said to end too early, and a file
  that vanishes before the count is answered ok.
- `_detect_rg_missing` looks for "not found" and "cannot find" in the whole output
  (`file_operations.py:317`): a search whose matches hold these words is answered with
  `rg_not_installed`, though the docstring says that results are not.  On bash a search for
  files discards rg's own message.
- A search that is cut off at the timeout of ssh has no results and is answered ok.
- A search by content with context counts context lines in its limit, so that pages miss
  matches; its matches are in no order from one call to the next.

Server, log and settings:

- `unregister` makes the oldest machine the default (`target_registry.py:92`);
  `src/docs/implementation-plan.md:138` and `src/docs/design-spec-v2.md:207` say that the
  default is cleared and not replaced.  No property takes a side: `RegistryInv` and
  `ShellDirectory` ask that a default, if there is one, is registered.
- `docker_ps` leaves the status of a known machine alone (`target_registry.py:75`);
  `sandbox_env.py:121` says that it refreshes the registry.
- An exited container that `docker_ps` adopted is accepted as the default machine
  (`server.py:446`), against the comment at 420.
- A reattached container gets no provider (`docker_backend.py:670`), so after a restart
  a Windows container is given the Linux shell, against the comment at 640.
- `_ensure_alive` reconnects without `host_key_check` (`ssh_backend.py:126`).
- Over stdio, `sandbox-mcp --config X` records to the path of the default configuration,
  since the logger was opened at import, and `audit_query` reads that of X: hence the
  condition in `QueriesOwnLog`.
- `call_tool` passes its arguments as `details`, so that `_CONTENT_KEYS` never applies
  (`audit.py:20`): content is recorded and not hashed.
- A handler that returns an error is recorded as `"ok"`; only one that raises is not.
- The token that `main_http` prints when there is none is accepted by nobody: the
  middleware reads the file (`server.py:855` "Pass it as: Authorization: Bearer",
  `src/README.md:229`, `auth.py:33`), against which `CallsAuthorised` says nothing.  A token that is not ASCII makes `compare_digest` raise.
- The tools offer `audit_query` for a JSON-line log, which it cannot read
  (`src/README.md:70`).  Its schema gives `end` a default of 100, and the code start + 100.
- The three SELECTs of a query are of three moments: with other servers on the database
  the total, the window and the records may differ.

## 5. The proofs

All are for every value of the constants that the named assumptions admit.

- **ShellSession.**  `TypeCorrect` holds of the whole specification.  `OneCommandAtATime`,
  `ReadyAnswerIsOwn` and `ReadyIsAtPrompt` assume `StdinKinds = {}` and `~SlowInit`;
  without these the code does not have them (section 4).  None of the three is inductive.
  `IInv` adds the place of the prompt: it belongs to the last command, is in at most one
  place between the shell and `_prompt_event`, and whenever `send` may write it is
  nowhere (`Quiet`).  A second prompt, the only way to a wrong ready, would have to come
  from a second command, and `Quiet` at the guard of `send` excludes it.
- **ReadyAnswerIsWhole** and **LastOutputSurvives**, under the same assumptions.  `OutputInv`
  follows the text: a prompt stays behind its command's output all the way to the drain
  thread (`OrderInv`), so when the prompt has arrived nothing of the command is on its way;
  what is buffered or on its way is the last command's (`OnlyOwnInv`); and all of it is on
  its way, buffered or handed out (`WholeInv`).  A shell that dies in a command leaves no
  prompt: there the event is set after the end of file, when the drain thread is done.
- **TerminatedForGood** assumes `~SlowInit` only: the agent may write what it likes to
  stdin.  `TerminatedOnceSeen` is a formula about behaviours, `[](P => []P)` in effect.
  `DeadForGood`, that no thread is about to give a terminated shell another state, holds
  when the first state is reached and is kept by every step, given `BootInv`: a shell is
  set ready only during its start, and the timer of one that boots in time never fires.  With
  `SlowInit` the property is false: the timer kills a shell whose drain thread is about to
  set ready.
- **SessionImplementsLedger**, under the assumptions of the first three: every
  step maps to a step of `CommandLedger` or a stutter.  `NoticedInv` adds that a noticed
  prompt has left its exit code and that no accepted command finds the state waiting.
- **SandboxServer.**  `Inv` is `DirOK /\ SessOK /\ WorldOK /\ ShellsHaveMachines`.  Each
  registry operator keeps its half and bounds what it drops: `KeepsMachinesBut(S)` for
  machines, `ShellsFrom(S)` for shells; `HalvesFit` joins the halves.  From it follow
  `ServerTypeCorrect`, `RegistriesConsistent` and its parts; `DeadShellsStay` is an
  action property from the same invariant.  No fault is excluded.
- **ServerImplementsDirectory.**  Every step of `SandboxServer` is a step of `ShellDirectory`
  or a stutter, by one lemma for each registry operator and one for each handler that
  composes them.  The mapped step must be a step in one piece, so it needs from `Inv` that
  a shell's machine is registered, and that there are no shells before the server is up
  (`NoneBefore`): the default of the configuration is appointed without being asked for.
- **SSHMaster.**  Directories are numbered in the order they are made, and none above
  the counter exists (`Numbered`); hence a new directory is nobody's, and names stay
  apart.  `SocketStable` follows since a connected name's calls make no directory.
- **DockerExec.**  `RawGoesThrough` is of raw streams whose pieces so far had at least eight
  bytes and did not begin with a control character 1 or 2 (`plain`); for these `DInv` adds that nothing is ever carried and that
  the loop holds nothing while it reads.
  Byte values are kept under 256 by the assumption that bounds `MaxBytes` and
  `MaxPayload` by 200.  `CleanOutput` needs two more parts: what the loop holds, with what is
  on the wire behind it, is a row of whole frames (`FrameInv`), and the pipe with the
  output in what is held is the output of all that was read (`FlowInv`).  What a frame
  adds follows from the lemmas about `Selected`.
- **OutputScan.**  `OutputTypeCorrect`, `AnswersAreExact` and `PromptIsSeen` hold for every
  prompt, every size of the head, the tail, the limit and what is kept back, every output
  and every cut of it.  None of the three is inductive.  `Inv` says, of a command that
  runs, that the text read so far, stripped, is what was stored and what is kept back; that
  the buffer holds the first and the last bytes of what was stored (`Holds`); and that
  nothing was stored or what is kept back is longer than any part of a prompt can be
  (`Lags`): one byte less will do after half an escape sequence, which is the boundary that
  `HalvesMeet` and `HalfKept` are about.  With the last byte of the prompt everything is in
  the buffer.  The argument has three parts.  `Resume`: a scan that goes on from what the
  last one kept back gives what one scan of all would, which needs that escape sequences
  come whole (`Paired`) and that a half that was read was kept.  `PromptArrives`: the scan
  which has the prompt's last byte has all of the prompt, after what is not stored yet.
  `Viewed`: what `View` makes of a buffer that holds a text is what `Shown` says of the
  text.  `PromptIsSeen` assumes `~CutsInit`, as the run does and for its reason (section
  4); `SetupInv` says where the mark is and that nothing is kept back before it was read.
  TLC checked `Inv` and `SetupInv` first, with what was stored among the beginnings of
  what was read, also with reads that cut the start-up and with a `Keep` of two.
- **ContainersKnown** (`ContainersStayKnown`) assumes that the daemon does not fail and that
  no container has the name of a target; the code does not have it otherwise.  `KnownInv`
  says it of the whole start-up, and adds that an entry with a container's name is on docker.
- **ServerProcess.**  `ProcInv` is the types of the state with `LoggerInv` (which loggers
  there are at each point of the start, that the server's is the last and open), `IdInv`
  (a request is in one place, and its id in no other) and `RowInv` (which call's record comes
  next, and that the calls of this life have the sink of its logger).  `TrailFaithful`
  and `QueriesOwnLog` follow.  `CallsAuthorised` has its own `AdmitInv`, about requests
  since the last edit.  `PagesJoin` and `WindowMatches` follow from `ReadInv`, inductive
  with `ProcInv`: the page asked for begins where the pages so far end; what the first
  two statements returned is still true if nobody appended, and too little at most if
  the log fits in the tail; and what the agent has is no longer than what is found.  The
  last part is in neither property, and a page could not be joined without it.
- **Selection.**  `Selected` is a recursive function, so that its defining equation can be
  proved (`SelectedDef`), and a lemma about it by taking the shortest sequence for which it
  fails (`WFMin`): `Induction` and `SeqInduction` are stated for a set of numbers or of
  sequences instead of a predicate, which the provers cannot take as a parameter.  What
  is selected of a concatenation, of one more element, of a sequence inside or outside
  the set follows.
- **FileQueries.**  `PagesCover` is not inductive: the page must be right before it is
  counted (`PartInv`), and what was passed must end in a newline, or appending could change
  it (`CoverInv`).  `FoundAll` needs that whatever is newer than the next page was shown
  (`SearchInv`); a touched file goes to the front, which brings no other nearer
  (`RankGrows`).
- **FileWrite.**  `FileInv` says whose a running script may be: the call's in progress, or
  that of a call that answered `"write"` or `"applied"` (`ScriptInv`); that what a script
  is to write was fixed before it started (`WantInv`); whose temporary files there are
  (`TempInv`), those of a failed `mkdir` included; and who can have torn the file
  (`TornInv`): a call that still waits or compares, or one that answered `"write"`,
  `"verify"` or `"applied"`.  `TornIsReported` is not inductive: a torn disk comes from a
  part staged earlier, so the part must be tied to the answer before the move.  `OkIsOnDisk`
  follows since the verification compares author and wholeness, and a verifying call's
  script is done.  `EndingsKept` follows from `KeepInv`: what is to be written has the
  endings and the mark of what the call read.  No fault is excluded.

**Only model-checked:** `CallReturns`, `CompletionNoticed` and `KillEnds`, which are liveness
under fairness and need ENABLED.  Every other property of a passing run is a theorem.

## 6. Not modelled, and the plan

Texts (help, tool schemas, lint, diffs), the forms of the configuration file, path advice
and the encoding probe keep no state that the properties tell apart.  Search by content is
left out because rg gives its matches in no order, so that its pages owe each other nothing.
The HTTP transport below the middleware is a library.

Next, in order:

1. `Descriptors`: the double close in `DockerExecProcess.kill` when the timer and the
   server thread both run it.
2. A composition of `ShellSession` with `DockerExec` in place of its terminal, and an
   abstract file that a docker write on one file system implements.
