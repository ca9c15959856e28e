----------------------------- MODULE ServerProcess -----------------------------
(***************************************************************************)
(* The server as a process: main and main_http of server.py with the       *)
(* loading of config.py, the tokens of auth.py behind BearerAuthMiddleware,*)
(* call_tool with the record it leaves, and audit_query as an agent pages  *)
(* through the log.                                                        *)
(*                                                                         *)
(* Importing server.py opens a logger before main has looked at a flag.    *)
(* The operator edits the configuration and the tokens while the server    *)
(* runs; other servers of the same user append to the same database; the   *)
(* process ends and starts again, with other flags or another transport.   *)
(* The event loop runs one call at a time, from the queue of those that    *)
(* the middleware has let in.                                              *)
(***************************************************************************)
EXTENDS AuditLog

CONSTANTS
  Actions,      \* the argument action of the queries
  Results,      \* their argument status
  Tails,        \* their argument tail
  PageSize,     \* end - start of the queries
  Overrides,    \* what SANDBOX_MCP_AUDIT_LOG_PATH may be, if it is set
  Unset,        \* it is not
  Tokens,       \* bearer tokens of the operator
  Local,        \* the sender of what comes over stdio
  MaxStarts,    \* bound on the starts of the server
  MaxRequests,  \* bound on the requests
  MaxQueries,   \* bound on the queries
  MaxOthers,    \* bound on the rows of other servers
  MaxConfEdits, \* bound on the edits of the configuration
  MaxTokEdits,  \* bound on the edits of the tokens file
  MaxEvents     \* bound on all of these together

ASSUME ProcessAssumption ==
  /\ Any \notin Tools \cup {"ok", "error"}
  /\ Actions \subseteq Tools \cup {Any} /\ Results \subseteq {"ok", "error", Any}
  /\ Tails \subseteq Nat \ {0} /\ PageSize \in Nat \ {0}
  /\ Overrides \subseteq Paths /\ Unset \notin Paths
  /\ Local \notin Tokens
  /\ {MaxStarts, MaxRequests, MaxQueries, MaxOthers, MaxConfEdits, MaxTokEdits,
      MaxEvents} \subseteq Nat

VARIABLES
  conf,      \* [audit] log_path of the default configuration file, and of the one that
             \* --config may name
  file,      \* the tokens file: its tokens, and whether its mode is 0600
  pc,        \* where the process is
  start,     \* how it was started, and after which edit of the configuration
  loggers,   \* the values that DEFAULT_AUDIT_LOGGER has had
  audit,     \* the one that SandboxServer.audit refers to, 0 for none
  inbox,     \* requests that were let in and wait for the event loop
  calls,     \* the calls so far: who asked, how they ended, and their record
  log,       \* the rows of each sink
  query,     \* the audit_query in progress, or the last one, and its answer
  sweep,     \* the pages that the agent has joined
  count      \* starts, requests, queries, rows of others, edits so far

operator == <<conf, file>>
process == <<start, loggers, audit>>
reading == <<query, sweep>>
vars == <<operator, pc, process, inbox, calls, log, reading, count>>

Kinds == {"starts", "requests", "queries", "others", "conf", "tokens"}
Files == {"home", "given"}
TokenFiles == {f \in [tokens : SUBSET Tokens, strict : BOOLEAN] : f.strict \/ f.tokens # {}}
Loggers == [path : Paths, open : BOOLEAN]
Senders == Tokens \cup {Local}
Requests == [id : 1..MaxRequests, by : Senders, edit : 0..MaxTokEdits]
Entries == [call : 0..MaxRequests, action : Tools, status : Statuses]
Calls == [request : Requests, entry : Entries, life : 1..MaxStarts,
          row : {"due", "kept", "lost"}, sink : Paths]
Booting == {"flags", "reset", "tokens", "build"}
Querying == {"tail", "total", "rows"}
Pcs == {"down", "serving", "record"} \cup Booting \cup Querying

NoStart == [http |-> FALSE, flag |-> FALSE, env |-> Unset, edit |-> 0]
NoQuery == [path |-> Unset, args |-> [action |-> Any, status |-> Any, tail |-> 1], start |-> 0,
            quiet |-> TRUE, tail_size |-> 0, total |-> 0, rows |-> <<>>, window |-> <<0, 0>>]
NoSweep == [on |-> FALSE, joined |-> <<>>, quiet |-> TRUE]

Init ==
  /\ conf \in [Files -> Paths] /\ file \in TokenFiles
  /\ pc = "down" /\ start = NoStart /\ loggers = <<>> /\ audit = 0
  /\ inbox = {} /\ calls = <<>> /\ log = [p \in Paths |-> <<>>]
  /\ query = NoQuery /\ sweep = NoSweep
  /\ count = [k \in Kinds |-> 0]

-----------------------------------------------------------------------------
(* Start-up. *)

\* config.load: the environment before the file; the file is the default one until a flag
\* was seen.
LogPath(run, c, flagged) ==
  IF run.env # Unset THEN run.env ELSE IF flagged THEN c.given ELSE c.home

\* One more event of a kind, within its bound and the bound on all.
Counted(what, max) ==
  /\ count[what] < max
  /\ count["starts"] + count["requests"] + count["queries"] + count["others"] + count["conf"]
       + count["tokens"] < MaxEvents
  /\ count' = [count EXCEPT ![what] = @ + 1]

\* audit.py is imported: DEFAULT_AUDIT_LOGGER = AuditLogger(), before any flag is parsed.
Import ==
  /\ pc = "down"
  /\ start' \in [http : BOOLEAN, flag : BOOLEAN, env : Overrides \cup {Unset},
                 edit : {count["conf"]}]
  /\ pc' = "flags" /\ loggers' = <<NewLogger(LogPath(start', conf, FALSE))>> /\ audit' = 0
  /\ Counted("starts", MaxStarts)
  /\ UNCHANGED <<operator, inbox, calls, log, reading>>

\* --config goes to SANDBOX_MCP_CONFIG; main makes its server next.
ApplyFlags ==
  /\ pc = "flags" /\ pc' = IF start.http THEN "reset" ELSE "build"
  /\ UNCHANGED <<operator, process, inbox, calls, log, reading, count>>

\* Slip: the logger of the log_path that was there before the flag.
Reset_Unflagged ==
  /\ pc = "reset" /\ pc' = "tokens"
  /\ loggers' = <<ClosedLogger(loggers[1]), NewLogger(LogPath(start, conf, FALSE))>>
  /\ UNCHANGED <<operator, start, audit, inbox, calls, log, reading, count>>

\* reset_default_logger of main_http.
Reset ==
  /\ pc = "reset" /\ pc' = "tokens"
  /\ loggers' = <<ClosedLogger(loggers[1]), NewLogger(LogPath(start, conf, start.flag))>>
  /\ UNCHANGED <<operator, start, audit, inbox, calls, log, reading, count>>

\* load_auth_tokens: nothing from a file that others may read.
Accepted(f) == IF f.strict THEN f.tokens ELSE {}

\* Without tokens main_http prints one of its own or, as auto_generate_if_empty is, exits.
ResolveTokens ==
  /\ pc = "tokens"
  /\ \/ pc' = "build" /\ UNCHANGED process
     \/ /\ Accepted(file) = {}
        /\ pc' = "down" /\ start' = NoStart /\ loggers' = <<>> /\ audit' = 0
  /\ UNCHANGED <<operator, inbox, calls, log, reading, count>>

\* Slip: the object that was imported, not the attribute of the module.
DefaultLogger_Imported == 1

\* audit_mod.DEFAULT_AUDIT_LOGGER.
DefaultLogger == Len(loggers)

\* SandboxServer(), with the logger of that moment.
Build ==
  /\ pc = "build" /\ pc' = "serving" /\ audit' = DefaultLogger
  /\ UNCHANGED <<operator, start, loggers, inbox, calls, log, reading, count>>

-----------------------------------------------------------------------------
(* Calls. *)

\* Slip: the tokens are those of a file whose mode nobody looked at.
Admits_AnyMode(by) == IF start.http THEN by \in file.tokens ELSE by = Local

\* BearerAuthMiddleware reads the file for each request; stdio asks nothing.
Admits(by) == IF start.http THEN by \in Accepted(file) ELSE by = Local

\* A request is let in.  One that is refused leaves no trace.
Arrive ==
  /\ pc = "serving"
  /\ \E by \in Senders :
       /\ Admits(by)
       /\ inbox' = inbox \cup {[id |-> count["requests"] + 1, by |-> by, edit |-> count["tokens"]]}
  /\ Counted("requests", MaxRequests)
  /\ UNCHANGED <<operator, pc, process, calls, log, reading>>

\* call_tool up to its finally: the handler answers, or raises.
Handle(r) ==
  /\ pc = "serving" /\ pc' = "record"
  /\ \E tool \in Tools, status \in Statuses :
       calls' = Append(calls,
         [request |-> r, entry |-> [call |-> r.id, action |-> tool, status |-> status],
          life |-> count["starts"], row |-> "due", sink |-> loggers[audit].path])
  /\ inbox' = inbox \ {r}
  /\ UNCHANGED <<operator, process, log, reading, count>>

\* Slip: the look-up of the handler has moved into the try.
HandleUnknown_Recorded(r) ==
  /\ pc = "serving" /\ pc' = "record" /\ inbox' = inbox \ {r}
  /\ calls' = Append(calls,
       [request |-> r, entry |-> [call |-> r.id, action |-> "unknown", status |-> "error"],
        life |-> count["starts"], row |-> "due", sink |-> loggers[audit].path])
  /\ UNCHANGED <<operator, process, log, reading, count>>

\* A name without a handler is answered and not recorded.
HandleUnknown(r) ==
  /\ pc = "serving" /\ inbox' = inbox \ {r}
  /\ UNCHANGED <<operator, pc, process, calls, log, reading, count>>

\* A row that somebody adds under a query or a sweep.
Disturb(path) ==
  /\ query' = [query EXCEPT !.quiet = @ /\ query.path # path]
  /\ sweep' = [sweep EXCEPT !.quiet = @ /\ query.path # path]

Insert(path, entry) == log' = [log EXCEPT ![path] = Append(@, entry)] /\ Disturb(path)

\* What becomes of the record of the call in progress.
Recorded(how) == calls' = [calls EXCEPT ![Len(calls)].row = how]

\* AuditLogger.record: a closed logger returns at once; what fails is logged and forgotten.
Record ==
  /\ pc = "record" /\ pc' = "serving"
  /\ LET call == calls[Len(calls)] IN
       \/ loggers[audit].open /\ Insert(call.sink, call.entry) /\ Recorded("kept")
       \/ loggers[audit].open /\ Recorded("lost") /\ UNCHANGED <<log, reading>>
       \/ ~loggers[audit].open /\ UNCHANGED <<calls, log, reading>>
  /\ UNCHANGED <<operator, process, inbox, count>>

-----------------------------------------------------------------------------
(* audit_query, as the pages of a sweep: the agent asks for the next page while the last *)
(* one was full.  A query is not recorded, so who asked and how long it waited are left   *)
(* out.                                                                                   *)

\* Where _handle_audit_query looks: the configuration as it is now.
QueryPath == LogPath(start, conf, start.flag)

\* The arguments and start of the next query: of a new sweep, or of its next page.
Asked ==
  IF sweep.on THEN {[args |-> query.args, start |-> query.start + PageSize]}
  ELSE {[args |-> args, start |-> 0] :
          args \in [action : Actions, status : Results, tail : Tails]}

\* Without a database an error, from the handler or from sqlite.  That ends a sweep, as
\* does an edit of the path in the middle of it.
QueryFails ==
  /\ pc = "serving"
  /\ QueryPath \notin Databases \/ (sweep.on /\ QueryPath # query.path)
  /\ query' = NoQuery /\ sweep' = NoSweep /\ Counted("queries", MaxQueries)
  /\ UNCHANGED <<operator, pc, process, inbox, calls, log>>

\* The arguments are good and the file is there; nothing is recorded, then or later.
BeginQuery ==
  /\ pc = "serving" /\ pc' = "tail"
  /\ QueryPath \in Databases /\ (sweep.on => QueryPath = query.path)
  /\ \E q \in Asked :
       query' = [NoQuery EXCEPT !.path = QueryPath, !.args = q.args, !.start = q.start]
  /\ sweep' = IF sweep.on THEN sweep ELSE [NoSweep EXCEPT !.on = TRUE]
  /\ Counted("queries", MaxQueries)
  /\ UNCHANGED <<operator, process, inbox, calls, log>>

\* Three statements outside a transaction: each sees the table as it is by then.
ReadTailSize ==
  /\ pc = "tail" /\ pc' = "total"
  /\ query' = [query EXCEPT !.tail_size = TailSize(log[query.path], query.args)]
  /\ UNCHANGED <<operator, process, inbox, calls, log, sweep, count>>

ReadTotal ==
  /\ pc = "total" /\ pc' = "rows"
  /\ query' = [query EXCEPT !.total = Total(log[query.path], query.args)]
  /\ UNCHANGED <<operator, process, inbox, calls, log, sweep, count>>

\* Slip: the query leaves a record of its own, like any other call.
ReadRows_Recorded ==
  /\ pc = "rows" /\ pc' = "serving"
  /\ LET end == query.start + PageSize
         got == Rows(log[query.path], query.args, query.start, end)
     IN  /\ query' = [query EXCEPT !.rows = got,
                                   !.window = Window(query.start, end, query.total)]
         /\ sweep' = [sweep EXCEPT !.joined = @ \o got, !.on = Len(got) = PageSize]
  /\ \E tool \in Tools : log' = [log EXCEPT ![query.path] =
       Append(@, [call |-> 0, action |-> tool, status |-> "ok"])]
  /\ UNCHANGED <<operator, process, inbox, calls, count>>

\* The records, the window, and the agent, who goes on if the page was full.
ReadRows ==
  /\ pc = "rows" /\ pc' = "serving"
  /\ LET end == query.start + PageSize
         got == Rows(log[query.path], query.args, query.start, end)
     IN  /\ query' = [query EXCEPT !.rows = got,
                                   !.window = Window(query.start, end, query.total)]
         /\ sweep' = [sweep EXCEPT !.joined = @ \o got, !.on = Len(got) = PageSize]
  /\ UNCHANGED <<operator, process, inbox, calls, log, count>>

-----------------------------------------------------------------------------
(* The world. *)

\* The process ends: a signal, a crash, a start that fails.  What waits is dropped, a
\* query loses its sweep.
Stop ==
  /\ pc # "down" /\ pc' = "down" /\ inbox' = {}
  /\ start' = NoStart /\ loggers' = <<>> /\ audit' = 0
  /\ IF pc \in Querying THEN query' = NoQuery /\ sweep' = NoSweep ELSE UNCHANGED reading
  /\ UNCHANGED <<operator, calls, log, count>>

\* Another server that shares the database records a call.
OtherAppends ==
  /\ Counted("others", MaxOthers)
  /\ \E p \in Databases, tool \in Tools, status \in Statuses :
       Insert(p, [call |-> 0, action |-> tool, status |-> status])
  /\ UNCHANGED <<operator, pc, process, inbox, calls>>

EditConf ==
  /\ Counted("conf", MaxConfEdits)
  /\ \E f \in Files, p \in Paths : conf[f] # p /\ conf' = [conf EXCEPT ![f] = p]
  /\ UNCHANGED <<file, pc, process, inbox, calls, log, reading>>

EditTokens ==
  /\ Counted("tokens", MaxTokEdits)
  /\ file' \in TokenFiles \ {file}
  /\ UNCHANGED <<conf, pc, process, inbox, calls, log, reading>>

Boot == Import \/ ApplyFlags \/ Reset \/ ResolveTokens \/ Build
Call == Arrive \/ (\E r \in inbox : Handle(r) \/ HandleUnknown(r)) \/ Record
Query == QueryFails \/ BeginQuery \/ ReadTailSize \/ ReadTotal \/ ReadRows
World == Stop \/ OtherAppends \/ EditConf \/ EditTokens

Next == Boot \/ Call \/ Query \/ World

Spec == Init /\ [][Next]_vars

-----------------------------------------------------------------------------
(* Properties. *)

\* Every variable keeps its type: the loggers, the calls and rows, the query and its
\* answer, the counts.
TypeOK ==
  /\ conf \in [Files -> Paths] /\ file \in TokenFiles /\ pc \in Pcs
  /\ start \in [http : BOOLEAN, flag : BOOLEAN, env : Overrides \cup {Unset},
                edit : 0..MaxConfEdits]
  /\ loggers \in Seq(Loggers) /\ audit \in 0..Len(loggers)
  /\ inbox \subseteq Requests /\ calls \in Seq(Calls) /\ log \in [Paths -> Seq(Entries)]
  /\ query \in [path : Paths \cup {Unset},
                args : [action : Tools \cup {Any}, status : Statuses \cup {Any}, tail : Nat],
                start : Nat, quiet : BOOLEAN, tail_size : Nat, total : Nat,
                rows : Seq(Entries), window : Seq(Nat)]
  /\ sweep \in [on : BOOLEAN, joined : Seq(Entries), quiet : BOOLEAN]
  /\ count \in [Kinds -> 0..MaxEvents]

\* call_tool's finally: every call of this life of the server is in the log, whether its
\* handler answered or raised, but for a record that failed and the call in progress; a
\* record says what its call did, no call has two, and none is there before its call has
\* ended, whatever logger was closed at start-up and wherever the process died.
TrailFaithful ==
  /\ \A i \in DOMAIN calls :
       /\ calls[i].row = "kept" =>
            \E k \in DOMAIN log[calls[i].sink] : log[calls[i].sink][k] = calls[i].entry
       /\ calls[i].row = "due" => calls[i].life # count["starts"] \/ pc = "down"
                                    \/ (pc = "record" /\ i = Len(calls))
  /\ \A p \in Paths : \A k \in DOMAIN log[p] : log[p][k].call # 0 =>
       /\ \E i \in DOMAIN calls : calls[i].entry = log[p][k] /\ calls[i].row = "kept"
       /\ \A m \in 1..(k - 1) : log[p][m].call # log[p][k].call

\* main_http resets the logger, SandboxServer takes it afterwards, audit_query reads the
\* configuration: what this life recorded is where audit_query looks, unless the
\* configuration was edited since, or main was given --config (see README).
QueriesOwnLog ==
  pc # "down" /\ start.edit = count["conf"] /\ (start.http \/ ~start.flag \/ start.env # Unset) =>
    \A i \in DOMAIN calls :
      calls[i].row = "kept" /\ calls[i].life = count["starts"] =>
        \E k \in DOMAIN log[QueryPath] : log[QueryPath][k].call = calls[i].request.id

\* BearerAuthMiddleware: whatever waits or has run since the operator last touched the
\* tokens file bears a token that is in it, in a file nobody else may read.
CallsAuthorised ==
  \A r \in inbox \cup {calls[i].request : i \in DOMAIN calls} :
    r.by # Local /\ r.edit = count["tokens"] => r.by \in Accepted(file)

\* Paging: the pages of a sweep, joined, are the beginning of what the log holds for its
\* arguments, each record once and in order, and all of it when the sweep has ended, as
\* long as nobody else appends; queries among themselves do not disturb each other.  A
\* log that grows but fits in the tail adds to the end only.
PagesJoin ==
  query.path # Unset =>
    LET found == Filtered(log[query.path], query.args) IN
      /\ sweep.quiet \/ Len(log[query.path]) <= query.args.tail =>
           sweep.joined = SubSeq(found, 1, Len(sweep.joined))
      /\ sweep.quiet /\ ~sweep.on => sweep.joined = found

\* The answer of audit_query: the window is as wide as the records that come with it and
\* the total within the tail; if others append between the three SELECTs to a log that
\* fits in the tail, the records may only be more than the window says.
WindowMatches ==
  query.path # Unset /\ pc \notin Querying =>
    LET width == query.window[2] - query.window[1] IN
      /\ query.quiet => Len(query.rows) = width /\ query.total <= query.tail_size
      /\ Len(log[query.path]) <= query.args.tail => Len(query.rows) >= width
===============================================================================
