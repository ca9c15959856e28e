------------------------------- MODULE AuditLog -------------------------------
(***************************************************************************)
(* audit.py without its state: what a log_path selects, the loggers, and   *)
(* the three SELECTs of query_audit over a table whose rows are in the     *)
(* order of their ids.                                                     *)
(***************************************************************************)
EXTENDS Naturals, Sequences, Selection

CONSTANTS
  Databases,  \* the log_paths that end in .db
  Streams,    \* the others: text files, and "" for stderr
  Tools,      \* the tools, as the action of a row
  Any         \* an argument of audit_query that is left out

ASSUME AuditLogAssumption == Databases \cap Streams = {}

Paths == Databases \cup Streams
Statuses == {"ok", "error"}
Row == [call : Nat, action : Tools, status : Statuses]

Least(a, b) == IF a <= b THEN a ELSE b

\* AuditLogger(path), and close().
NewLogger(path) == [path |-> path, open |-> TRUE]
ClosedLogger(logger) == [logger EXCEPT !.open = FALSE]

\* SELECT * FROM audit ORDER BY id DESC LIMIT ?
Tailed(log, tail) == SubSeq(log, Len(log) - Least(Len(log), tail) + 1, Len(log))

\* The WHERE clause, of those arguments that the properties tell apart.
Where(row, args) ==
  args.action \in {Any, row.action} /\ args.status \in {Any, row.status}

Matching(args) == {row \in Row : Where(row, args)}

Filtered(log, args) == Selected(Tailed(log, args.tail), Matching(args))

TailSize(log, args) == Len(Tailed(log, args.tail))

Total(log, args) == Len(Filtered(log, args))

\* ORDER BY id ASC LIMIT end - start OFFSET start
Rows(log, args, start, end) ==
  SubSeq(Filtered(log, args), start + 1, Least(end, Total(log, args)))

\* Slip: the window as it was asked for.
Window_Asked(start, end, total) == <<start, end>>

\* The window of the answer.
Window(start, end, total) == <<Least(start, total), Least(end, total)>>
===============================================================================
