------------------------- MODULE ServerProcessProofs -------------------------
(***************************************************************************)
(* ServerProcess for every set of paths, tokens and tools and every bound: *)
(* the log says of the calls what happened, audit_query looks where this   *)
(* life of the server records, nobody is let in without a token, and the   *)
(* pages of audit_query join to what the log holds.  What a query selects  *)
(* is Selected of a tail; its lemmas are those of SelectionProofs.         *)
(***************************************************************************)
EXTENDS ServerProcess, SelectionProofs

\* The process is past its start.
Up == {"serving", "record"} \cup Querying

\* Its latest logger, and the call that came last.
Logger == loggers[Len(loggers)]
Last == calls[Len(calls)]

CountType ==
  /\ count \in [Kinds -> Nat]
  /\ count["starts"] <= MaxStarts /\ count["requests"] <= MaxRequests
  /\ count["tokens"] <= MaxTokEdits

ProcessType ==
  /\ conf \in [Files -> Paths] /\ file \in TokenFiles /\ pc \in Pcs
  /\ start \in [http : BOOLEAN, flag : BOOLEAN, env : Overrides \cup {Unset}, edit : Nat]
  /\ loggers \in Seq(Loggers) /\ audit \in Nat

CallType == inbox \subseteq Requests /\ calls \in Seq(Calls) /\ log \in [Paths -> Seq(Entries)]

\* A process has an open logger, the server the latest one, which is that of the path
\* where audit_query would look unless main was given --config.
LoggerInv ==
  pc # "down" =>
    /\ count["starts"] >= 1 /\ loggers # <<>> /\ Logger.open
    /\ pc \in {"flags", "reset"} => Len(loggers) = 1
    /\ pc \in {"reset", "tokens"} => start.http
    /\ pc \in Up => audit = Len(loggers)
    /\ start.edit <= count["conf"]
    /\ start.edit = count["conf"] =>
         Logger.path = LogPath(start, conf, start.flag /\ start.http /\ pc \notin {"flags", "reset"})

\* Requests are told apart by their ids, and none is in two places.
IdInv ==
  /\ \A r \in inbox : r.id <= count["requests"]
  /\ \A i \in DOMAIN calls : calls[i].request.id <= count["requests"]
  /\ \A i \in DOMAIN calls : calls[i].entry.call = calls[i].request.id
  /\ \A r, s \in inbox : r.id = s.id => r = s
  /\ \A r \in inbox, i \in DOMAIN calls : r.id # calls[i].request.id
  /\ \A i, j \in DOMAIN calls : calls[i].request.id = calls[j].request.id => i = j

\* The call whose record comes next, and the sink of the calls of this life.
RowInv ==
  /\ \A i \in DOMAIN calls : calls[i].life <= count["starts"]
  /\ pc = "record" => calls # <<>> /\ Last.row = "due"
  /\ pc \in Booting => \A i \in DOMAIN calls : calls[i].life < count["starts"]
  /\ pc \in Up => \A i \in DOMAIN calls :
                    calls[i].life = count["starts"] => calls[i].sink = Logger.path

\* A request was let in before now, and with a token that was good then.
AdmitInv ==
  \A r \in inbox \cup {calls[i].request : i \in DOMAIN calls} :
    r.edit <= count["tokens"] /\ (r.by # Local /\ r.edit = count["tokens"] => r.by \in Accepted(file))

ProcInv == CountType /\ ProcessType /\ CallType /\ LoggerInv /\ IdInv /\ RowInv

-----------------------------------------------------------------------------
(* What the actions have in common. *)

LEMMA BoundTypes ==
  ASSUME ProcessAssumption
  PROVE  /\ MaxStarts \in Nat /\ MaxRequests \in Nat /\ MaxQueries \in Nat /\ MaxOthers \in Nat
         /\ MaxConfEdits \in Nat /\ MaxTokEdits \in Nat
BY DEF ProcessAssumption

\* Counted counts one event and leaves the other kinds.
LEMMA CountUp ==
  ASSUME CountType, NEW what \in Kinds, NEW max \in Nat, Counted(what, max)
  PROVE  /\ count' \in [Kinds -> Nat] /\ count'[what] = count[what] + 1 /\ count'[what] <= max
         /\ \A k \in Kinds \ {what} : count'[k] = count[k]
BY DEF CountType, Counted

\* What a query does: nothing to the process, the calls or the log.
LEMMA QueryQuiet ==
  ASSUME Query
  PROVE  /\ UNCHANGED <<operator, process, inbox, calls, log>>
         /\ UNCHANGED count \/ Counted("queries", MaxQueries)
         /\ pc \in Up \ {"record"} /\ pc' \in Up \ {"record"}
BY DEF Query, QueryFails, BeginQuery, ReadTailSize, ReadTotal, ReadRows, operator, process, Up, Querying

LEMMA OneLogger ==
  ASSUME NEW logger \in Loggers
  PROVE  <<logger>> \in Seq(Loggers)
OBVIOUS

\* A path that config.load may name.
LEMMA PathTypes ==
  ASSUME ProcessAssumption, NEW c \in [Files -> Paths], NEW env \in Overrides \cup {Unset},
         NEW run, run.env = env, NEW flagged
  PROVE  LogPath(run, c, flagged) \in Paths
BY DEF LogPath, Files, ProcessAssumption

\* The log keeps its type when a row is added.
LEMMA RowAdded ==
  ASSUME log \in [Paths -> Seq(Entries)], NEW p \in Paths, NEW entry \in Entries, Insert(p, entry)
  PROVE  /\ log' \in [Paths -> Seq(Entries)]
         /\ \A q \in Paths \ {p} : log'[q] = log[q]
         /\ Len(log'[p]) = Len(log[p]) + 1 /\ Len(log[p]) \in Nat
         /\ DOMAIN log'[p] = DOMAIN log[p] \cup {Len(log[p]) + 1}
         /\ \A k \in DOMAIN log[p] : log'[p][k] = log[p][k]
         /\ log'[p][Len(log[p]) + 1] = entry
<1>1. log[p] \in Seq(Entries) OBVIOUS
<1>2. log' = [log EXCEPT ![p] = Append(@, entry)] BY DEF Insert
<1>3. log'[p] = Append(log[p], entry) BY <1>2
<1> QED BY <1>1, <1>2, <1>3

\* The calls keep theirs when a record has been made or lost.
LEMMA RowWritten ==
  ASSUME calls \in Seq(Calls), calls # <<>>, NEW how \in {"kept", "lost"}, Recorded(how)
  PROVE  /\ calls' \in Seq(Calls) /\ Len(calls') = Len(calls) /\ DOMAIN calls' = DOMAIN calls
         /\ \A i \in DOMAIN calls :
              /\ calls'[i].request = calls[i].request /\ calls'[i].entry = calls[i].entry
              /\ calls'[i].life = calls[i].life /\ calls'[i].sink = calls[i].sink
              /\ i # Len(calls) => calls'[i] = calls[i]
         /\ calls'[Len(calls)].row = how
<1>1. Len(calls) \in DOMAIN calls /\ \A i \in DOMAIN calls : calls[i] \in Calls OBVIOUS
<1>2. calls' = [calls EXCEPT ![Len(calls)] = [@ EXCEPT !.row = how]] BY DEF Recorded
<1>3. [calls[Len(calls)] EXCEPT !.row = how] \in Calls BY <1>1 DEF Calls
<1>4. calls' \in Seq(Calls) /\ Len(calls') = Len(calls) /\ DOMAIN calls' = DOMAIN calls
  BY <1>1, <1>2, <1>3
<1>5. ASSUME NEW i \in DOMAIN calls, i # Len(calls) PROVE calls'[i] = calls[i]
  BY <1>2, <1>5
<1>6. calls'[Len(calls)] = [calls[Len(calls)] EXCEPT !.row = how] BY <1>1, <1>2
<1>7. /\ calls'[Len(calls)].request = calls[Len(calls)].request
      /\ calls'[Len(calls)].entry = calls[Len(calls)].entry
      /\ calls'[Len(calls)].life = calls[Len(calls)].life
      /\ calls'[Len(calls)].sink = calls[Len(calls)].sink
      /\ calls'[Len(calls)].row = how
  BY <1>1, <1>6 DEF Calls
<1> QED BY <1>4, <1>5, <1>7

\* The record that call_tool has to make, as Handle leaves it.
LEMMA CallAdded ==
  ASSUME ProcessAssumption, ProcInv, NEW r \in inbox, Handle(r)
  PROVE  /\ calls' \in Seq(Calls) /\ Len(calls') = Len(calls) + 1 /\ Len(calls) \in Nat
         /\ DOMAIN calls' = DOMAIN calls \cup {Len(calls) + 1}
         /\ \A i \in DOMAIN calls : calls'[i] = calls[i] /\ i # Len(calls) + 1
         /\ calls'[Len(calls) + 1].request = r /\ calls'[Len(calls) + 1].entry.call = r.id
         /\ calls'[Len(calls) + 1].row = "due" /\ calls'[Len(calls) + 1].life = count["starts"]
         /\ calls'[Len(calls) + 1].sink = Logger.path
<1> USE DEF ProcInv
<1>1. r \in Requests /\ r.id \in 1..MaxRequests /\ r.id \in 0..MaxRequests
  BY DEF CallType, Requests, ProcessAssumption
<1>2. /\ audit = Len(loggers) /\ loggers[audit].path = Logger.path /\ Logger.path \in Paths
      /\ count["starts"] \in 1..MaxStarts
  <2>1. audit = Len(loggers) /\ loggers # <<>> /\ count["starts"] >= 1
    BY DEF Handle, LoggerInv, Up
  <2>2. Logger.path \in Paths
    <3>1. loggers \in Seq(Loggers) BY DEF ProcessType
    <3>2. Len(loggers) \in 1..Len(loggers) BY <2>1, <3>1
    <3>3. Logger \in Loggers BY <3>1, <3>2 DEF Logger
    <3> QED BY <3>3 DEF Loggers
  <2>3. count["starts"] \in 1..MaxStarts BY <2>1, BoundTypes DEF CountType, Kinds
  <2> QED BY <2>1, <2>2, <2>3 DEF Logger
<1>3. PICK tool \in Tools, status \in Statuses :
        calls' = Append(calls,
         [request |-> r, entry |-> [call |-> r.id, action |-> tool, status |-> status],
          life |-> count["starts"], row |-> "due", sink |-> loggers[audit].path])
  BY DEF Handle
<1> DEFINE entry == [call |-> r.id, action |-> tool, status |-> status]
           call == [request |-> r, entry |-> entry, life |-> count["starts"], row |-> "due",
                    sink |-> loggers[audit].path]
<1>4. entry \in Entries BY <1>1 DEF Entries
<1>5. call \in Calls BY <1>1, <1>2, <1>4 DEF Calls
<1>6. calls \in Seq(Calls) BY DEF CallType
<1> HIDE DEF call
<1>7. calls' = Append(calls, call) BY <1>3 DEF call
<1>8. /\ calls' \in Seq(Calls) /\ Len(calls') = Len(calls) + 1 /\ Len(calls) \in Nat
      /\ DOMAIN calls' = DOMAIN calls \cup {Len(calls) + 1}
      /\ \A i \in DOMAIN calls : calls'[i] = calls[i] /\ i # Len(calls) + 1
      /\ calls'[Len(calls) + 1] = call
  BY <1>5, <1>6, <1>7
<1> QED BY <1>2, <1>8 DEF call

-----------------------------------------------------------------------------
(* The types and the process. *)

LEMMA CountStep ==
  ASSUME ProcessAssumption, ProcInv, [Next]_vars
  PROVE  /\ CountType' /\ \A k \in Kinds : count'[k] >= count[k]
         /\ UNCHANGED count \/ Counted("starts", MaxStarts) \/ Counted("requests", MaxRequests)
            \/ Counted("queries", MaxQueries) \/ Counted("others", MaxOthers)
            \/ Counted("conf", MaxConfEdits) \/ Counted("tokens", MaxTokEdits)
<1>1. UNCHANGED count \/ Counted("starts", MaxStarts) \/ Counted("requests", MaxRequests)
      \/ Counted("queries", MaxQueries) \/ Counted("others", MaxOthers)
      \/ Counted("conf", MaxConfEdits) \/ Counted("tokens", MaxTokEdits)
  BY QueryQuiet DEF Next, Boot, Call, World, Import, ApplyFlags, Reset, ResolveTokens, Build, Arrive, Handle,
    HandleUnknown, Record, Stop, OtherAppends, EditConf, EditTokens, vars
<1>2. /\ "starts" \in Kinds /\ "requests" \in Kinds /\ "queries" \in Kinds /\ "others" \in Kinds
      /\ "conf" \in Kinds /\ "tokens" \in Kinds
  BY DEF Kinds
<1>3. CASE UNCHANGED count BY <1>1, <1>3 DEF ProcInv, CountType
<1>4. ASSUME NEW what \in Kinds, NEW max \in Nat, Counted(what, max),
             what = "starts" => max = MaxStarts, what = "requests" => max = MaxRequests,
             what = "tokens" => max = MaxTokEdits
      PROVE  CountType' /\ \A k \in Kinds : count'[k] >= count[k]
  BY <1>2, <1>4, CountUp DEF ProcInv, CountType
<1> QED BY <1>1, <1>2, <1>3, <1>4, BoundTypes

LEMMA ProcessStep ==
  ASSUME ProcessAssumption, ProcInv, [Next]_vars
  PROVE  ProcessType'
<1> USE DEF ProcInv, ProcessType
<1>0. Unset \in Overrides \cup {Unset} /\ count["conf"] \in Nat /\ conf \in [Files -> Paths]
  BY DEF CountType, Kinds
<1>1. CASE Import
  <2>1. /\ start' \in [http : BOOLEAN, flag : BOOLEAN, env : Overrides \cup {Unset}, edit : {count["conf"]}]
        /\ pc' = "flags" /\ loggers' = <<NewLogger(LogPath(start', conf, FALSE))>> /\ audit' = 0
        /\ UNCHANGED operator
    BY <1>1 DEF Import
  <2>2. start'.env \in Overrides \cup {Unset} BY <2>1
  <2>3. LogPath(start', conf, FALSE) \in Paths BY <1>0, <2>2, PathTypes
  <2>4. NewLogger(LogPath(start', conf, FALSE)) \in Loggers
    BY <2>3 DEF NewLogger, Loggers
  <2>5. start' \in [http : BOOLEAN, flag : BOOLEAN, env : Overrides \cup {Unset}, edit : Nat]
    BY <1>0, <2>1
  <2>6. loggers' \in Seq(Loggers) BY <2>1, <2>4, OneLogger
  <2> QED BY <2>1, <2>5, <2>6 DEF operator, Pcs, Booting
<1>2. CASE ApplyFlags BY <1>2 DEF ApplyFlags, operator, process, Pcs, Booting
<1>3. CASE Reset
  <2>1. LogPath(start, conf, start.flag) \in Paths BY <1>0, PathTypes
  <2>2. loggers[1] \in Loggers
    <3>1. Len(loggers) = 1 BY <1>3 DEF Reset, LoggerInv
    <3>2. loggers \in Seq(Loggers) OBVIOUS
    <3> HIDE DEF ProcInv, ProcessType
    <3> QED BY <3>1, <3>2
  <2>3. /\ ClosedLogger(loggers[1]) \in Loggers
        /\ NewLogger(LogPath(start, conf, start.flag)) \in Loggers
    BY <2>1, <2>2 DEF ClosedLogger, NewLogger, Loggers
  <2> QED BY <1>3, <2>3 DEF Reset, operator, Pcs, Booting
<1>4. ASSUME start' = NoStart, loggers' = <<>>, audit' = 0, pc' = "down", UNCHANGED operator
      PROVE  ProcessType'
  BY <1>0, <1>4 DEF NoStart, operator, Pcs
<1>5. CASE ResolveTokens
  BY <1>4, <1>5 DEF ResolveTokens, operator, process, Pcs, Booting
<1>6. CASE Build BY <1>6 DEF Build, DefaultLogger, operator, Pcs
<1>7. ASSUME Arrive \/ (\E r \in inbox : Handle(r) \/ HandleUnknown(r)) \/ Record \/ OtherAppends
      PROVE  ProcessType'
  BY <1>7 DEF Arrive, Handle, HandleUnknown, Record, OtherAppends, operator, process, Pcs
<1>8. CASE Query BY <1>8, QueryQuiet DEF operator, process, Up, Pcs
<1>9. CASE Stop BY <1>4, <1>9 DEF Stop
<1>10. CASE EditConf BY <1>10 DEF EditConf, process
<1>11. CASE EditTokens BY <1>11 DEF EditTokens, process
<1>12. CASE UNCHANGED vars BY <1>12 DEF vars, operator, process
<1> QED BY <1>1, <1>2, <1>3, <1>5, <1>6, <1>7, <1>8, <1>9, <1>10, <1>11, <1>12 DEF Next, Boot, Call, World

LEMMA CallTypeStep ==
  ASSUME ProcessAssumption, ProcInv, [Next]_vars
  PROVE  CallType'
<1> USE DEF ProcInv, CallType
<1>1. CASE Arrive
  <2>1. PICK by \in Senders :
          inbox' = inbox \cup {[id |-> count["requests"] + 1, by |-> by, edit |-> count["tokens"]]}
    BY <1>1 DEF Arrive
  <2>2. count["requests"] + 1 \in 1..MaxRequests /\ count["tokens"] \in 0..MaxTokEdits
    <3>1. "requests" \in Kinds /\ "tokens" \in Kinds BY DEF Kinds
    <3>2. count["requests"] \in Nat /\ count["tokens"] \in Nat BY <3>1 DEF CountType
    <3>3. count'["requests"] = count["requests"] + 1 /\ count'["requests"] <= MaxRequests
      BY <1>1, <3>1, CountUp, BoundTypes DEF Arrive
    <3> QED BY <3>2, <3>3, BoundTypes DEF CountType
  <2>3. [id |-> count["requests"] + 1, by |-> by, edit |-> count["tokens"]] \in Requests
    BY <2>2 DEF Requests
  <2> QED BY <1>1, <2>1, <2>3 DEF Arrive
<1>2. ASSUME NEW r \in inbox, Handle(r) PROVE CallType' BY <1>2, CallAdded DEF Handle
<1>3. ASSUME NEW r \in inbox, HandleUnknown(r) PROVE CallType' BY <1>3 DEF HandleUnknown
<1>4. CASE Record
  <2>1. calls # <<>> BY <1>4 DEF Record, RowInv
  <2>2. Last \in Calls BY <2>1 DEF Last
  <2>3. Last.sink \in Paths /\ Last.entry \in Entries BY <2>2 DEF Calls
  <2>4. CASE Insert(Last.sink, Last.entry) /\ Recorded("kept")
    BY <1>4, <2>1, <2>3, <2>4, RowAdded, RowWritten DEF Record
  <2>5. CASE Recorded("lost") /\ UNCHANGED <<log, reading>>
    BY <1>4, <2>1, <2>5, RowWritten DEF Record
  <2> QED BY <1>4, <2>4, <2>5 DEF Record, Last
<1>5. CASE OtherAppends
  <2>1. PICK p \in Databases, tool \in Tools, status \in Statuses :
          Insert(p, [call |-> 0, action |-> tool, status |-> status])
    BY <1>5 DEF OtherAppends
  <2>2. [call |-> 0, action |-> tool, status |-> status] \in Entries /\ p \in Paths
    BY BoundTypes DEF Entries, Paths
  <2> QED BY <1>5, <2>1, <2>2, RowAdded DEF OtherAppends
<1>6. CASE Stop BY <1>6 DEF Stop
<1>7. CASE Query BY <1>7, QueryQuiet
<1>8. CASE Boot \/ EditConf \/ EditTokens \/ UNCHANGED vars
  BY <1>8 DEF Boot, Import, ApplyFlags, Reset, ResolveTokens, Build, EditConf, EditTokens, vars
<1> QED BY <1>1, <1>2, <1>3, <1>4, <1>5, <1>6, <1>7, <1>8 DEF Next, Call, World

\* The logger: closed and replaced at start-up, then that of the server to its end.
LEMMA LoggerStep ==
  ASSUME ProcessAssumption, ProcInv, [Next]_vars
  PROVE  LoggerInv'
<1> USE DEF ProcInv, LoggerInv
<1>0. /\ count["starts"] \in Nat /\ count["conf"] \in Nat /\ count'["starts"] \in Nat /\ count'["conf"] \in Nat
      /\ count'["starts"] >= count["starts"] /\ count'["conf"] >= count["conf"]
  BY CountStep DEF CountType, Kinds
\* Nothing of it changes but the number of edits and of starts, or where the process is.
<1>a. ASSUME UNCHANGED <<conf, process>>, pc \in Up \cup {"build"}, pc' = pc \/ (pc' \in Up /\ pc \in Up)
      PROVE  LoggerInv'
  <2>1. UNCHANGED <<start, loggers, audit, Logger>> BY <1>a DEF process, Logger
  <2>2. start.edit \in Nat BY DEF ProcessType
  <2>3. pc # "down" /\ pc \notin {"flags", "reset", "tokens"} /\ pc' \notin {"flags", "reset", "tokens"}
    BY <1>a DEF Up, Querying
  <2>4. start.edit <= count'["conf"] /\ (start.edit = count'["conf"] => start.edit = count["conf"])
    BY <1>0, <2>2, <2>3
  <2>5. pc' \in Up => audit = Len(loggers) BY <1>a, <2>3 DEF Up, Querying
  <2>6. LogPath(start, conf, start.flag /\ start.http /\ pc' \notin {"flags", "reset"})
          = LogPath(start, conf, start.flag /\ start.http /\ pc \notin {"flags", "reset"})
    BY <2>3 DEF LogPath
  <2>7. LogPath(start, conf, start.flag /\ start.http /\ pc \notin {"flags", "reset"})'
          = LogPath(start, conf, start.flag /\ start.http /\ pc' \notin {"flags", "reset"})
    BY <1>a, <2>1 DEF LogPath
  <2>8. count'["starts"] >= 1 BY <1>0, <2>3
  <2> QED BY <2>1, <2>3, <2>4, <2>5, <2>6, <2>7, <2>8
<1>1. CASE Import
  <2>1. /\ start' \in [http : BOOLEAN, flag : BOOLEAN, env : Overrides \cup {Unset}, edit : {count["conf"]}]
        /\ pc' = "flags" /\ loggers' = <<NewLogger(LogPath(start', conf, FALSE))>>
        /\ conf' = conf
    BY <1>1 DEF Import, operator
  <2>2. count'["starts"] = count["starts"] + 1 /\ count'["conf"] = count["conf"]
    BY <1>1, CountUp, BoundTypes DEF Import, Kinds
  <2>3. Len(loggers') = 1 /\ Logger' = NewLogger(LogPath(start', conf, FALSE)) BY <2>1 DEF Logger
  <2>4. Logger'.open /\ Logger'.path = LogPath(start', conf, FALSE) BY <2>3 DEF NewLogger
  <2> QED BY <1>0, <2>1, <2>2, <2>3, <2>4 DEF Up, Querying, LogPath
<1>2. CASE ApplyFlags
  <2>1. /\ pc = "flags" /\ pc' = IF start.http THEN "reset" ELSE "build"
        /\ UNCHANGED <<conf, start, loggers, audit, count>>
    BY <1>2 DEF ApplyFlags, operator, process
  <2> QED BY <2>1 DEF Up, Querying, Logger, LogPath
<1>3. CASE Reset
  <2>1. /\ pc = "reset" /\ pc' = "tokens" /\ UNCHANGED <<conf, start, count>>
        /\ loggers' = <<ClosedLogger(loggers[1]), NewLogger(LogPath(start, conf, start.flag))>>
    BY <1>3 DEF Reset, operator
  <2>2. Len(loggers') = 2 /\ Logger' = NewLogger(LogPath(start, conf, start.flag)) BY <2>1 DEF Logger
  <2>3. Logger'.open /\ Logger'.path = LogPath(start, conf, start.flag) BY <2>2 DEF NewLogger
  <2>4. start.http BY <2>1
  <2> QED BY <2>1, <2>2, <2>3, <2>4 DEF Up, Querying, LogPath
<1>4. CASE ResolveTokens
  <2>1. CASE pc' = "down" BY <2>1
  <2>2. CASE pc' = "build" /\ UNCHANGED process
    BY <1>4, <2>2 DEF ResolveTokens, operator, process, Up, Querying, Logger, LogPath
  <2> QED BY <1>4, <2>1, <2>2 DEF ResolveTokens
<1>5. CASE Build
  BY <1>5 DEF Build, DefaultLogger, operator, Up, Querying, Logger, LogPath
<1>6. ASSUME Arrive \/ (\E r \in inbox : Handle(r) \/ HandleUnknown(r)) \/ Record
      PROVE  LoggerInv'
  BY <1>a, <1>6 DEF Arrive, Handle, HandleUnknown, Record, operator, Up
<1>7. CASE Query BY <1>a, <1>7, QueryQuiet DEF operator
<1>8. CASE Stop BY <1>8 DEF Stop
<1>9. CASE OtherAppends \/ EditTokens
  <2>1. count'["conf"] = count["conf"]
    BY <1>9, CountUp, BoundTypes DEF OtherAppends, EditTokens, Kinds
  <2>2. UNCHANGED <<conf, pc, start, loggers, audit>>
    BY <1>9 DEF OtherAppends, EditTokens, operator, process
  <2>3. UNCHANGED Logger BY <2>2 DEF Logger
  <2>4. count'["starts"] >= 1 \/ pc = "down" BY <1>0
  <2> QED BY <2>1, <2>2, <2>3, <2>4 DEF LogPath
\* After an edit of the configuration a process that started before it is excused.
<1>10. CASE EditConf
  <2>1. count'["conf"] = count["conf"] + 1 BY <1>10, CountUp, BoundTypes DEF EditConf, Kinds
  <2>2. start.edit \in Nat BY DEF ProcessType
  <2>3. UNCHANGED <<pc, start, loggers, audit, Logger>> BY <1>10 DEF EditConf, process, Logger
  <2>4. start.edit <= count["conf"] \/ pc = "down" OBVIOUS
  <2>5. (start.edit <= count'["conf"] /\ start.edit # count'["conf"]) \/ pc = "down"
    BY <1>0, <2>1, <2>2, <2>4
  <2>6. count["starts"] >= 1 => count'["starts"] >= 1 BY <1>0
  <2> QED BY <2>3, <2>5, <2>6
<1>11. CASE UNCHANGED vars BY <1>11 DEF vars, operator, process, Logger, LogPath
<1> QED BY <1>1, <1>2, <1>3, <1>4, <1>5, <1>6, <1>7, <1>8, <1>9, <1>10, <1>11 DEF Next, Boot, Call, World

LEMMA IdStep ==
  ASSUME ProcessAssumption, ProcInv, [Next]_vars
  PROVE  IdInv'
<1> USE DEF ProcInv, IdInv
<1>0. /\ count["requests"] \in Nat /\ count'["requests"] \in Nat /\ count'["requests"] >= count["requests"]
      /\ \A r \in inbox : r.id \in Nat
      /\ \A i \in DOMAIN calls : calls[i].request.id \in Nat
  <2>1. "requests" \in Kinds BY DEF Kinds
  <2>2. \A r \in Requests : r.id \in Nat BY DEF Requests
  <2>3. \A i \in DOMAIN calls : calls[i] \in Calls BY DEF CallType
  <2>4. \A c \in Calls : c.request \in Requests BY DEF Calls
  <2> QED BY <2>1, <2>2, <2>3, <2>4, CountStep DEF CountType, CallType
<1>1. CASE Arrive
  <2>1. PICK by \in Senders :
          inbox' = inbox \cup {[id |-> count["requests"] + 1, by |-> by, edit |-> count["tokens"]]}
    BY <1>1 DEF Arrive
  <2>2. count'["requests"] = count["requests"] + 1 BY <1>1, CountUp, BoundTypes DEF Arrive, Kinds
  <2>3. calls' = calls BY <1>1 DEF Arrive
  <2> DEFINE new == [id |-> count["requests"] + 1, by |-> by, edit |-> count["tokens"]]
  <2>4. new.id = count["requests"] + 1 /\ inbox' = inbox \cup {new} BY <2>1
  <2> HIDE DEF new
  <2> QED BY <1>0, <2>2, <2>3, <2>4
<1>2. ASSUME NEW r \in inbox, Handle(r) PROVE IdInv'
  <2> DEFINE n == Len(calls) + 1
  <2>1. inbox' = inbox \ {r} BY <1>2 DEF Handle
  <2>2. /\ DOMAIN calls' = DOMAIN calls \cup {n} /\ \A i \in DOMAIN calls : calls'[i] = calls[i] /\ i # n
        /\ calls'[n].request = r /\ calls'[n].entry.call = r.id
    BY <1>2, CallAdded
  <2> HIDE DEF n
  <2>3. \A i \in DOMAIN calls' : calls'[i].request.id <= count'["requests"]
    BY <1>0, <2>2
  <2>4. \A i \in DOMAIN calls' : calls'[i].entry.call = calls'[i].request.id BY <2>2
  <2>5. \A q \in inbox', i \in DOMAIN calls' : q.id # calls'[i].request.id BY <2>1, <2>2
  <2>6. \A i, j \in DOMAIN calls' : calls'[i].request.id = calls'[j].request.id => i = j BY <2>2
  <2> QED BY <1>0, <2>1, <2>3, <2>4, <2>5, <2>6
<1>3. ASSUME NEW r \in inbox, HandleUnknown(r) PROVE IdInv' BY <1>0, <1>3 DEF HandleUnknown
<1>4. CASE Record
  <2>1. calls # <<>> BY <1>4 DEF Record, RowInv
  <2>2. UNCHANGED inbox /\ (UNCHANGED calls \/ Recorded("kept") \/ Recorded("lost")) BY <1>4 DEF Record
  <2>3. /\ DOMAIN calls' = DOMAIN calls
        /\ \A i \in DOMAIN calls : calls'[i].request = calls[i].request /\ calls'[i].entry = calls[i].entry
    BY <2>1, <2>2, RowWritten DEF CallType
  <2> QED BY <1>0, <2>2, <2>3
<1>5. CASE Stop BY <1>0, <1>5 DEF Stop
<1>6. CASE Query BY <1>0, <1>6, QueryQuiet
<1>7. CASE Boot \/ OtherAppends \/ EditConf \/ EditTokens \/ UNCHANGED vars
  <2>1. UNCHANGED <<inbox, calls>>
    BY <1>7 DEF Boot, Import, ApplyFlags, Reset, ResolveTokens, Build, OtherAppends, EditConf, EditTokens, vars
  <2> QED BY <1>0, <2>1
<1> QED BY <1>1, <1>2, <1>3, <1>4, <1>5, <1>6, <1>7 DEF Next, Call, World

-----------------------------------------------------------------------------
(* Calls and their records. *)

\* The steps that neither make a call, nor a record, nor an end or a beginning.
Aside ==
  \/ ApplyFlags \/ Reset \/ ResolveTokens \/ Build \/ Arrive \/ (\E r \in inbox : HandleUnknown(r))
  \/ Query \/ EditConf \/ EditTokens \/ UNCHANGED vars

\* They leave calls and log alone, and the calls of this life where they belong.
LEMMA AsideQuiet ==
  ASSUME ProcessAssumption, ProcInv, Aside
  PROVE  /\ UNCHANGED <<calls, log>> /\ count'["starts"] = count["starts"]
         /\ pc = "record" <=> pc' = "record"
         /\ pc = "down" => pc' = "down"
         /\ pc' \in Booting => pc \in Booting
         /\ pc' \in Up => pc \in Booting \/ (pc \in Up /\ Logger' = Logger)
<1>0. "starts" \in Kinds /\ "requests" \in Kinds /\ "queries" \in Kinds /\ "conf" \in Kinds /\ "tokens" \in Kinds
  BY DEF Kinds
<1>1. ASSUME NEW what \in Kinds \ {"starts"}, NEW max \in Nat, Counted(what, max)
      PROVE  count'["starts"] = count["starts"]
  BY <1>0, <1>1, CountUp DEF ProcInv
<1> USE DEF Aside, Up, Querying, Booting
<1>2. CASE ApplyFlags \/ Reset \/ ResolveTokens \/ Build
  BY <1>2 DEF ApplyFlags, Reset, ResolveTokens, Build
<1>3. CASE Arrive BY <1>0, <1>1, <1>3, BoundTypes DEF Arrive, process, Logger
<1>4. CASE \E r \in inbox : HandleUnknown(r) BY <1>4 DEF HandleUnknown, process, Logger
<1>5. CASE Query BY <1>0, <1>1, <1>5, QueryQuiet, BoundTypes DEF process, Logger
<1>6. CASE EditConf \/ EditTokens
  BY <1>0, <1>1, <1>6, BoundTypes DEF EditConf, EditTokens, process, Logger
<1>7. CASE UNCHANGED vars BY <1>7 DEF vars, process, Logger
<1> QED BY <1>2, <1>3, <1>4, <1>5, <1>6, <1>7

LEMMA RowStep ==
  ASSUME ProcessAssumption, ProcInv, [Next]_vars
  PROVE  RowInv'
<1> USE DEF ProcInv, RowInv
<1>0. /\ count["starts"] \in Nat /\ count'["starts"] \in Nat /\ count'["starts"] >= count["starts"]
      /\ \A i \in DOMAIN calls : calls[i].life \in Nat
  <2>1. "starts" \in Kinds BY DEF Kinds
  <2>2. \A i \in DOMAIN calls : calls[i] \in Calls BY DEF CallType
  <2>3. \A c \in Calls : c.life \in Nat BY DEF Calls
  <2> QED BY <2>1, <2>2, <2>3, CountStep DEF CountType
<1>1. CASE Import
  <2>1. pc = "down" /\ pc' = "flags" /\ UNCHANGED calls BY <1>1 DEF Import
  <2>2. count'["starts"] = count["starts"] + 1 BY <1>1, CountUp, BoundTypes DEF Import, Kinds
  <2> QED BY <1>0, <2>1, <2>2 DEF Up, Querying
<1>2. ASSUME NEW r \in inbox, Handle(r) PROVE RowInv'
  <2> DEFINE n == Len(calls) + 1
  <2>1. /\ DOMAIN calls' = DOMAIN calls \cup {n} /\ \A i \in DOMAIN calls : calls'[i] = calls[i]
        /\ calls'[n].row = "due" /\ calls'[n].life = count["starts"] /\ calls'[n].sink = Logger.path
        /\ Len(calls') = n
    BY <1>2, CallAdded
  <2>2. /\ pc = "serving" /\ pc' = "record" /\ Logger' = Logger /\ UNCHANGED count
    BY <1>2 DEF Handle, process, Logger
  <2>3. Last'.row = "due" BY <2>1 DEF Last
  <2>4. calls' # <<>>
    <3>1. Len(calls) \in Nat BY <1>2, CallAdded
    <3> QED BY <2>1, <3>1
  <2> HIDE DEF n
  <2> QED BY <1>0, <2>1, <2>2, <2>3, <2>4 DEF Up, Booting
<1>3. CASE Record
  <2>1. calls # <<>> /\ pc = "record" /\ pc' = "serving" /\ UNCHANGED <<Logger, count>>
    BY <1>3 DEF Record, RowInv, process, Logger
  <2>2. UNCHANGED calls \/ Recorded("kept") \/ Recorded("lost") BY <1>3 DEF Record
  <2>3. /\ DOMAIN calls' = DOMAIN calls
        /\ \A i \in DOMAIN calls : calls'[i].life = calls[i].life /\ calls'[i].sink = calls[i].sink
    BY <2>1, <2>2, RowWritten DEF CallType
  <2> QED BY <1>0, <2>1, <2>3 DEF Up, Booting
<1>4. CASE OtherAppends
  <2>1. UNCHANGED <<pc, calls, Logger, Last>> BY <1>4 DEF OtherAppends, process, Logger, Last
  <2>2. count'["starts"] = count["starts"] BY <1>4, CountUp, BoundTypes DEF OtherAppends, Kinds
  <2> QED BY <1>0, <2>1, <2>2
<1>5. CASE Stop
  <2>1. pc' = "down" /\ UNCHANGED <<calls, count>> BY <1>5 DEF Stop
  <2> QED BY <1>0, <2>1 DEF Up, Querying, Booting
<1>6. CASE Aside
  <2>1. UNCHANGED Last BY <1>6, AsideQuiet DEF Last
  <2> QED BY <1>0, <1>6, <2>1, AsideQuiet
<1> QED BY <1>1, <1>2, <1>3, <1>4, <1>5, <1>6 DEF Next, Boot, Call, World, Aside

LEMMA TrailStep ==
  ASSUME ProcessAssumption, ProcInv, TrailFaithful, [Next]_vars
  PROVE  TrailFaithful'
<1> USE DEF ProcInv
<1>0. /\ calls \in Seq(Calls) /\ log \in [Paths -> Seq(Entries)]
      /\ \A i \in DOMAIN calls : calls[i].life \in Nat /\ calls[i].sink \in Paths /\ calls[i].entry \in Entries
                                   /\ calls[i].request.id \in Nat \ {0}
      /\ count["starts"] \in Nat
  <2>1. calls \in Seq(Calls) /\ log \in [Paths -> Seq(Entries)] /\ \A i \in DOMAIN calls : calls[i] \in Calls
    BY DEF CallType
  <2>2. \A c \in Calls : c.life \in Nat /\ c.sink \in Paths /\ c.entry \in Entries /\ c.request \in Requests
    BY DEF Calls
  <2>3. \A r \in Requests : r.id \in Nat \ {0} BY DEF Requests
  <2> QED BY <2>1, <2>2, <2>3 DEF CountType, Kinds
<1>d. \A q \in Paths : DOMAIN log[q] = 1..Len(log[q]) /\ Len(log[q]) \in Nat
  <2> SUFFICES ASSUME NEW q \in Paths PROVE DOMAIN log[q] = 1..Len(log[q]) /\ Len(log[q]) \in Nat OBVIOUS
  <2>1. log[q] \in Seq(Entries) BY <1>0
  <2> QED BY <2>1
\* A new row at the end leaves the others where they are.
<1>e. ASSUME NEW p \in Paths, NEW row \in Entries, Insert(p, row),
             NEW q \in Paths, NEW k \in DOMAIN log[q]
      PROVE  k \in DOMAIN log'[q] /\ log'[q][k] = log[q][k] /\ \A m \in 1..(k - 1) : log'[q][m] = log[q][m]
  <2>1. k \in 1..Len(log[q]) /\ \A m \in 1..(k - 1) : m \in DOMAIN log[q] BY <1>d
  <2>2. CASE q = p BY <1>0, <1>e, <2>1, <2>2, RowAdded
  <2>3. CASE q # p BY <1>0, <1>e, <2>1, <2>3, RowAdded
  <2> QED BY <2>2, <2>3
<1>f. ASSUME NEW p \in Paths, NEW row \in Entries, Insert(p, row),
             NEW q \in Paths, NEW k \in DOMAIN log'[q], k \notin DOMAIN log[q]
      PROVE  q = p /\ k = Len(log[p]) + 1 /\ log'[p][k] = row
  <2>1. CASE q = p BY <1>0, <1>f, <2>1, RowAdded
  <2>2. CASE q # p BY <1>0, <1>f, <2>2, RowAdded
  <2> QED BY <2>1, <2>2
<1>1. CASE Import
  <2>1. pc = "down" /\ pc' = "flags" /\ UNCHANGED <<calls, log>> BY <1>1 DEF Import
  <2>2. count'["starts"] = count["starts"] + 1 BY <1>1, CountUp, BoundTypes DEF Import, Kinds
  <2>3. \A i \in DOMAIN calls : calls[i].life # count'["starts"] BY <1>0, <2>2 DEF RowInv
  <2> QED BY <2>1, <2>3 DEF TrailFaithful
<1>2. ASSUME NEW r \in inbox, Handle(r) PROVE TrailFaithful'
  <2> DEFINE n == Len(calls) + 1
  <2>1. /\ DOMAIN calls' = DOMAIN calls \cup {n} /\ \A i \in DOMAIN calls : calls'[i] = calls[i]
        /\ calls'[n].row = "due" /\ Len(calls') = n
    BY <1>2, CallAdded
  <2>2. pc = "serving" /\ pc' = "record" /\ UNCHANGED <<log, count>> BY <1>2 DEF Handle
  <2> HIDE DEF n
  <2>3. \A i \in DOMAIN calls' :
          /\ calls'[i].row = "kept" =>
               \E k \in DOMAIN log[calls'[i].sink] : log[calls'[i].sink][k] = calls'[i].entry
          /\ calls'[i].row = "due" => calls'[i].life # count["starts"] \/ i = n
    BY <2>1, <2>2 DEF TrailFaithful
  <2>4. \A p \in Paths : \A k \in DOMAIN log[p] : log[p][k].call # 0 =>
          /\ \E i \in DOMAIN calls' : calls'[i].entry = log[p][k] /\ calls'[i].row = "kept"
          /\ \A m \in 1..(k - 1) : log[p][m].call # log[p][k].call
    BY <2>1 DEF TrailFaithful
  <2> QED BY <2>1, <2>2, <2>3, <2>4 DEF TrailFaithful
<1>4. CASE OtherAppends
  <2>1. PICK p \in Databases, tool \in Tools, status \in Statuses :
          Insert(p, [call |-> 0, action |-> tool, status |-> status])
    BY <1>4 DEF OtherAppends
  <2> DEFINE row == [call |-> 0, action |-> tool, status |-> status]
  <2>2. row \in Entries /\ row.call = 0 /\ p \in Paths BY BoundTypes DEF Entries, Paths
  <2>3. Insert(p, row) BY <2>1
  <2> HIDE DEF row
  <2>5. UNCHANGED <<pc, calls>> /\ count'["starts"] = count["starts"]
    BY <1>4, CountUp, BoundTypes DEF OtherAppends, Kinds
  <2>6. ASSUME NEW i \in DOMAIN calls, calls[i].row = "kept"
        PROVE  \E k \in DOMAIN log'[calls[i].sink] : log'[calls[i].sink][k] = calls[i].entry
    <3>1. PICK k \in DOMAIN log[calls[i].sink] : log[calls[i].sink][k] = calls[i].entry
      BY <2>6 DEF TrailFaithful
    <3>2. calls[i].sink \in Paths BY <1>0
    <3>3. k \in DOMAIN log'[calls[i].sink] /\ log'[calls[i].sink][k] = log[calls[i].sink][k]
      BY <1>e, <2>2, <2>3, <3>1, <3>2
    <3> QED BY <3>1, <3>3
  <2>7. ASSUME NEW q \in Paths, NEW k \in DOMAIN log'[q], log'[q][k].call # 0
        PROVE  k \in DOMAIN log[q] /\ log'[q][k] = log[q][k] /\ \A m \in 1..(k - 1) : log'[q][m] = log[q][m]
    <3>1. k \in DOMAIN log[q] BY <1>f, <2>2, <2>3, <2>7
    <3> QED BY <1>e, <2>2, <2>3, <3>1
  <2>8. ASSUME NEW q \in Paths, NEW k \in DOMAIN log'[q], log'[q][k].call # 0
        PROVE  /\ \E i \in DOMAIN calls : calls[i].entry = log'[q][k] /\ calls[i].row = "kept"
               /\ \A m \in 1..(k - 1) : log'[q][m].call # log'[q][k].call
    BY <2>7, <2>8 DEF TrailFaithful
  <2> QED BY <2>5, <2>6, <2>8 DEF TrailFaithful
<1>5. CASE Stop
  <2>1. pc' = "down" /\ UNCHANGED <<calls, log, count>> BY <1>5 DEF Stop
  <2> QED BY <2>1 DEF TrailFaithful
<1>6. CASE Aside BY <1>6, AsideQuiet DEF TrailFaithful
<1>3. CASE Record
  <2> DEFINE n == Len(calls)
             p == calls[n].sink
             entry == calls[n].entry
  <2>1. /\ n \in DOMAIN calls /\ calls[n].row = "due" /\ loggers[audit].open
        /\ pc = "record" /\ pc' = "serving" /\ UNCHANGED count /\ calls # <<>>
    <3>1. pc = "record" /\ pc' = "serving" /\ UNCHANGED count BY <1>3 DEF Record
    <3>2. loggers[audit].open BY <3>1 DEF LoggerInv, Up, Logger
    <3>3. calls # <<>> /\ calls[n].row = "due" BY <3>1 DEF RowInv, Last
    <3>4. n \in DOMAIN calls BY <1>0, <3>3
    <3> QED BY <3>1, <3>2, <3>3, <3>4
  <2>2. p \in Paths /\ entry \in Entries /\ entry.call # 0 BY <1>0, <2>1 DEF IdInv
  <2>3. \A i \in DOMAIN calls : i # n /\ calls[i].row = "due" => calls[i].life # count["starts"]
    BY <2>1 DEF TrailFaithful
  <2>a. CASE Recorded("lost") /\ UNCHANGED log
    <3>1. /\ DOMAIN calls' = DOMAIN calls /\ calls'[n].row = "lost"
          /\ \A i \in DOMAIN calls : i # n => calls'[i] = calls[i]
      BY <1>0, <2>1, <2>a, RowWritten
    <3>2. \A i \in DOMAIN calls' :
          /\ calls'[i].row = "kept" =>
               \E k \in DOMAIN log[calls'[i].sink] : log[calls'[i].sink][k] = calls'[i].entry
          /\ calls'[i].row = "due" => calls'[i].life # count["starts"]
      <4> SUFFICES ASSUME NEW i \in DOMAIN calls' PROVE
          /\ calls'[i].row = "kept" =>
               \E k \in DOMAIN log[calls'[i].sink] : log[calls'[i].sink][k] = calls'[i].entry
          /\ calls'[i].row = "due" => calls'[i].life # count["starts"]
        OBVIOUS
      <4>1. CASE i = n BY <3>1, <4>1
      <4>2. CASE i # n
        <5>1. calls'[i] = calls[i] /\ i \in DOMAIN calls BY <3>1, <4>2
        <5> HIDE DEF n
        <5> QED BY <2>3, <4>2, <5>1 DEF TrailFaithful
      <4> QED BY <4>1, <4>2
    <3>3. ASSUME NEW q \in Paths, NEW k \in DOMAIN log[q], log[q][k].call # 0
          PROVE  /\ \E i \in DOMAIN calls' : calls'[i].entry = log[q][k] /\ calls'[i].row = "kept"
                 /\ \A m \in 1..(k - 1) : log[q][m].call # log[q][k].call
      <4>1. PICK i \in DOMAIN calls : calls[i].entry = log[q][k] /\ calls[i].row = "kept"
        BY <3>3 DEF TrailFaithful
      <4>2. i # n BY <2>1, <4>1
      <4> QED BY <3>1, <3>3, <4>1, <4>2 DEF TrailFaithful
    <3> QED BY <2>1, <2>a, <3>2, <3>3 DEF TrailFaithful
  <2>b. CASE Insert(p, entry) /\ Recorded("kept")
    <3>1. /\ DOMAIN calls' = DOMAIN calls /\ calls'[n].row = "kept"
          /\ \A i \in DOMAIN calls : i # n => calls'[i] = calls[i]
          /\ calls'[n].sink = p /\ calls'[n].entry = entry
      BY <1>0, <2>1, <2>b, RowWritten
    <3>2. /\ log'[p][Len(log[p]) + 1] = entry /\ Len(log[p]) + 1 \in DOMAIN log'[p]
      <4>1. log \in [Paths -> Seq(Entries)] BY <1>0
      <4> HIDE DEF n, p, entry
      <4>2. /\ log'[p][Len(log[p]) + 1] = entry
            /\ DOMAIN log'[p] = DOMAIN log[p] \cup {Len(log[p]) + 1}
        BY <2>2, <2>b, <4>1, RowAdded
      <4> QED BY <4>2
    \* No row of this call is there yet: its record was due.
    <3>3. ASSUME NEW q \in Paths, NEW k \in DOMAIN log[q] PROVE log[q][k].call # entry.call
      <4> SUFFICES ASSUME log[q][k].call = entry.call PROVE FALSE OBVIOUS
      <4>1. PICK i \in DOMAIN calls : calls[i].entry = log[q][k] /\ calls[i].row = "kept"
        BY <2>2 DEF TrailFaithful
      <4>2. calls[i].request.id = calls[n].request.id BY <2>1, <4>1 DEF IdInv
      <4>3. i = n BY <2>1, <4>2 DEF IdInv
      <4> QED BY <2>1, <4>1, <4>3
    <3> HIDE DEF n, p, entry
    <3>4. ASSUME NEW i \in DOMAIN calls'
          PROVE  /\ calls'[i].row = "kept" =>
                      \E k \in DOMAIN log'[calls'[i].sink] : log'[calls'[i].sink][k] = calls'[i].entry
                 /\ calls'[i].row = "due" => calls'[i].life # count["starts"]
      <4>1. CASE i = n BY <3>1, <3>2, <4>1
      <4>2. CASE i # n
        <5>1. calls'[i] = calls[i] /\ i \in DOMAIN calls BY <3>1, <4>2
        <5>2. calls[i].row = "kept" =>
                \E k \in DOMAIN log[calls[i].sink] : log[calls[i].sink][k] = calls[i].entry
          BY <5>1 DEF TrailFaithful
        <5>3. calls[i].row = "kept" =>
                \E k \in DOMAIN log'[calls[i].sink] : log'[calls[i].sink][k] = calls[i].entry
          BY <1>0, <1>e, <2>2, <2>b, <5>1, <5>2
        <5> QED BY <2>3, <4>2, <5>1, <5>3
      <4> QED BY <4>1, <4>2
    <3>5. ASSUME NEW q \in Paths, NEW k \in DOMAIN log'[q], log'[q][k].call # 0
          PROVE  /\ \E i \in DOMAIN calls' : calls'[i].entry = log'[q][k] /\ calls'[i].row = "kept"
                 /\ \A m \in 1..(k - 1) : log'[q][m].call # log'[q][k].call
      <4>1. CASE k \in DOMAIN log[q]
        <5>1. log'[q][k] = log[q][k] /\ \A m \in 1..(k - 1) : log'[q][m] = log[q][m]
          BY <1>e, <2>2, <2>b, <4>1
        <5>2. PICK i \in DOMAIN calls : calls[i].entry = log[q][k] /\ calls[i].row = "kept"
          BY <3>5, <4>1, <5>1 DEF TrailFaithful
        <5>3. i # n BY <2>1, <5>2
        <5> QED BY <3>1, <3>5, <4>1, <5>1, <5>2, <5>3 DEF TrailFaithful
      <4>2. CASE k \notin DOMAIN log[q]
        <5>1. q = p /\ k = Len(log[p]) + 1 /\ log'[p][k] = entry BY <1>f, <2>2, <2>b, <4>2
        <5>2. \A m \in 1..(k - 1) : m \in DOMAIN log[p] BY <1>d, <2>2, <5>1
        <5>3. \A m \in 1..(k - 1) : log'[p][m] = log[p][m] BY <1>e, <2>2, <2>b, <5>2
        <5> QED BY <2>1, <2>2, <3>1, <3>3, <5>1, <5>2, <5>3
      <4> QED BY <4>1, <4>2
    <3> QED BY <2>1, <3>4, <3>5 DEF TrailFaithful
  <2> QED BY <1>3, <2>1, <2>a, <2>b DEF Record
<1> QED BY <1>1, <1>2, <1>3, <1>4, <1>5, <1>6 DEF Next, Boot, Call, World, Aside

-----------------------------------------------------------------------------
(* Who was let in. *)

\* Between two edits of the tokens file nothing that a request was let in for changes.
LEMMA AdmitStep ==
  ASSUME ProcessAssumption, ProcInv, AdmitInv, [Next]_vars
  PROVE  AdmitInv'
<1> USE DEF ProcInv
<1>0. count["tokens"] \in Nat /\ count'["tokens"] \in Nat /\ count'["tokens"] >= count["tokens"]
  BY CountStep DEF CountType, Kinds
<1>k. "starts" \in Kinds /\ "requests" \in Kinds /\ "queries" \in Kinds /\ "others" \in Kinds
      /\ "conf" \in Kinds /\ "tokens" \in Kinds
  BY DEF Kinds
<1> DEFINE Asking == inbox \cup {calls[i].request : i \in DOMAIN calls}
\* No request is new, and the file is the same or has been edited.
<1>a. ASSUME Asking' \subseteq Asking, UNCHANGED file \/ count'["tokens"] = count["tokens"] + 1,
             \A r \in Asking : r.edit \in Nat
      PROVE  AdmitInv'
  BY <1>0, <1>a DEF AdmitInv, Accepted
<1>b. \A r \in Asking : r.edit \in Nat
  <2>1. \A i \in DOMAIN calls : calls[i] \in Calls BY DEF CallType
  <2>2. \A c \in Calls : c.request \in Requests BY DEF Calls
  <2>3. \A r \in Requests : r.edit \in Nat BY DEF Requests
  <2> QED BY <2>1, <2>2, <2>3 DEF CallType
<1>1. CASE Arrive
  <2>1. PICK by \in Senders :
          /\ Admits(by)
          /\ inbox' = inbox \cup {[id |-> count["requests"] + 1, by |-> by, edit |-> count["tokens"]]}
    BY <1>1 DEF Arrive
  <2> DEFINE new == [id |-> count["requests"] + 1, by |-> by, edit |-> count["tokens"]]
  <2>2. new.by = by /\ new.edit = count["tokens"] /\ inbox' = inbox \cup {new} BY <2>1
  <2>3. count'["tokens"] = count["tokens"] BY <1>1, <1>k, CountUp, BoundTypes DEF Arrive
  <2>4. UNCHANGED <<file, calls>> BY <1>1 DEF Arrive, operator
  <2>5. by # Local => by \in Accepted(file) BY <2>1 DEF Admits
  <2> HIDE DEF new
  <2> QED BY <1>0, <2>2, <2>3, <2>4, <2>5 DEF AdmitInv, Accepted
<1>2. ASSUME NEW r \in inbox, Handle(r) PROVE AdmitInv'
  <2> DEFINE n == Len(calls) + 1
  <2>1. DOMAIN calls' = DOMAIN calls \cup {n} /\ \A i \in DOMAIN calls : calls'[i] = calls[i]
    BY <1>2, CallAdded
  <2>2. calls'[n].request = r BY <1>2, CallAdded
  <2> HIDE DEF n
  <2>3. inbox' \subseteq inbox /\ UNCHANGED file BY <1>2 DEF Handle, operator
  <2>4. Asking' \subseteq Asking BY <2>1, <2>2, <2>3
  <2> QED BY <1>a, <1>b, <2>3, <2>4
<1>3. CASE Record
  <2>1. calls # <<>> BY <1>3 DEF Record, RowInv
  <2>2. UNCHANGED <<inbox, file>> /\ (UNCHANGED calls \/ Recorded("kept") \/ Recorded("lost"))
    BY <1>3 DEF Record, operator
  <2>3. DOMAIN calls' = DOMAIN calls /\ \A i \in DOMAIN calls : calls'[i].request = calls[i].request
    BY <2>1, <2>2, RowWritten DEF CallType
  <2>4. Asking' \subseteq Asking BY <2>2, <2>3
  <2> QED BY <1>a, <1>b, <2>2, <2>4
<1>4. CASE EditTokens
  <2>1. UNCHANGED <<inbox, calls>> /\ count'["tokens"] = count["tokens"] + 1
    BY <1>4, <1>k, CountUp, BoundTypes DEF EditTokens
  <2> QED BY <1>a, <1>b, <2>1
<1>5. ASSUME \/ Boot \/ (\E r \in inbox : HandleUnknown(r)) \/ Query
             \/ Stop \/ OtherAppends \/ EditConf \/ UNCHANGED vars
      PROVE  AdmitInv'
  <2>1. UNCHANGED <<calls, file>> /\ inbox' \subseteq inbox
    BY <1>5, QueryQuiet DEF Boot, Import, ApplyFlags, Reset, ResolveTokens, Build, HandleUnknown, Stop,
      OtherAppends, EditConf, vars, operator
  <2> QED BY <1>a, <1>b, <2>1
<1> QED BY <1>1, <1>2, <1>3, <1>4, <1>5 DEF Next, Call, World

-----------------------------------------------------------------------------

LEMMA InitOK == ProcessAssumption /\ Init => ProcInv /\ TrailFaithful /\ AdmitInv
<1> SUFFICES ASSUME ProcessAssumption, Init PROVE ProcInv /\ TrailFaithful /\ AdmitInv OBVIOUS
<1>1. CountType BY BoundTypes DEF Init, CountType, Kinds
<1>2. ProcessType BY DEF Init, ProcessType, NoStart, Pcs, Loggers
<1>3. CallType
  <2>1. <<>> \in Seq(Calls) /\ <<>> \in Seq(Entries) OBVIOUS
  <2> QED BY <2>1 DEF Init, CallType
<1>4. LoggerInv BY DEF Init, LoggerInv
<1>5. IdInv /\ RowInv /\ AdmitInv BY DEF Init, IdInv, RowInv, AdmitInv, Booting, Up, Querying
<1>6. TrailFaithful BY DEF Init, TrailFaithful
<1> QED BY <1>1, <1>2, <1>3, <1>4, <1>5, <1>6 DEF ProcInv

\* ProcInv is an invariant.
THEOREM ProcessInvariant == Spec => []ProcInv
<1>1. ProcessAssumption BY ProcessAssumption
<1>2. Init => ProcInv BY <1>1, InitOK
<1>3. ProcInv /\ [Next]_vars => ProcInv'
  BY <1>1, CountStep, ProcessStep, CallTypeStep, LoggerStep, IdStep, RowStep DEF ProcInv
<1> QED BY <1>2, <1>3, PTL DEF Spec

\* The log says of every call what it did, once, unless its record failed: whatever logger
\* start-up has closed, and wherever the process dies.
THEOREM TrailIsFaithful == Spec => []TrailFaithful
<1>1. ProcessAssumption BY ProcessAssumption
<1>2. Init => TrailFaithful BY <1>1, InitOK
<1>3. ProcInv /\ TrailFaithful /\ [Next]_vars => TrailFaithful' BY <1>1, TrailStep
<1> QED BY <1>2, <1>3, ProcessInvariant, PTL DEF Spec

\* What this life of the server has recorded is where audit_query looks.
THEOREM OwnLogQueried == Spec => []QueriesOwnLog
<1>1. ProcInv /\ TrailFaithful => QueriesOwnLog
  <2> SUFFICES ASSUME ProcInv, TrailFaithful, pc # "down", start.edit = count["conf"],
                      start.http \/ ~start.flag \/ start.env # Unset,
                      NEW i \in DOMAIN calls, calls[i].row = "kept", calls[i].life = count["starts"]
               PROVE  \E k \in DOMAIN log[QueryPath] : log[QueryPath][k].call = calls[i].request.id
    BY DEF QueriesOwnLog
  <2>1. pc \notin Booting BY DEF ProcInv, RowInv, CountType, Kinds
  <2>2. pc \in Up BY <2>1 DEF ProcInv, ProcessType, Pcs, Up
  <2>3. pc \notin {"flags", "reset"} BY <2>1 DEF Booting
  <2>4. Logger.path = LogPath(start, conf, start.flag /\ start.http)
    BY <2>3 DEF ProcInv, LoggerInv, LogPath
  <2>5. Logger.path = QueryPath BY <2>4 DEF QueryPath, LogPath
  <2>6. calls[i].sink = QueryPath BY <2>2, <2>5 DEF ProcInv, RowInv
  <2>7. PICK k \in DOMAIN log[calls[i].sink] : log[calls[i].sink][k] = calls[i].entry
    BY DEF TrailFaithful
  <2>8. calls[i].entry.call = calls[i].request.id BY DEF ProcInv, IdInv
  <2> QED BY <2>6, <2>7, <2>8
<1> QED BY <1>1, ProcessInvariant, TrailIsFaithful, PTL

\* Nobody has been let in since the last edit of the tokens without one of them.
THEOREM CallersAuthorised == Spec => []CallsAuthorised
<1>1. ProcessAssumption BY ProcessAssumption
<1>2. Init => AdmitInv BY <1>1, InitOK
<1>3. ProcInv /\ AdmitInv /\ [Next]_vars => AdmitInv' BY <1>1, AdmitStep
<1>4. AdmitInv => CallsAuthorised BY DEF AdmitInv, CallsAuthorised
<1> QED BY <1>2, <1>3, <1>4, ProcessInvariant, PTL DEF Spec

-----------------------------------------------------------------------------
(* The bounds and what audit_query keeps: ReadInv is inductive, relative to ProcInv.      *)

Sum == count["starts"] + count["requests"] + count["queries"] + count["others"] + count["conf"]
         + count["tokens"]

\* The bounds, and what a process leaves behind.
BoundInv ==
  /\ Sum <= MaxEvents /\ count["conf"] <= MaxConfEdits
  /\ pc = "down" => start = NoStart
  /\ audit <= Len(loggers)

Args == [action : Tools \cup {Any}, status : Statuses \cup {Any}, tail : Nat]

ReadType ==
  /\ query \in [path : Paths \cup {Unset}, args : Args, start : Nat, quiet : BOOLEAN,
                tail_size : Nat, total : Nat, rows : Seq(Entries), window : Seq(Nat)]
  /\ sweep \in [on : BOOLEAN, joined : Seq(Entries), quiet : BOOLEAN]

LEMMA BoundStep ==
  ASSUME ProcessAssumption, ProcInv, BoundInv, [Next]_vars
  PROVE  BoundInv'
<1>1. Sum' <= MaxEvents /\ count'["conf"] <= MaxConfEdits
  <2>1. ASSUME NEW what \in Kinds, NEW max \in Nat, Counted(what, max),
               what = "conf" => max = MaxConfEdits
        PROVE  Sum' <= MaxEvents /\ count'["conf"] <= MaxConfEdits
    <3>1. /\ count' \in [Kinds -> Nat] /\ count'[what] = count[what] + 1 /\ count'[what] <= max
          /\ \A k \in Kinds \ {what} : count'[k] = count[k]
      BY <2>1, CountUp DEF ProcInv
    <3>2. Sum < MaxEvents
      BY <2>1 DEF Counted, Sum
    <3>3. count \in [Kinds -> Nat] /\ MaxEvents \in Nat
      BY DEF ProcInv, CountType, ProcessAssumption
    <3>4. \A k \in Kinds : count[k] \in Nat /\ count'[k] = IF k = what THEN count[k] + 1 ELSE count[k]
      BY <3>1, <3>3
    <3>5. Sum' = Sum + 1 /\ Sum \in Nat
      <4>1. \A k \in Kinds : k \in {"starts", "requests", "queries", "others", "conf", "tokens"}
        BY DEF Kinds
      <4>2. what \in {"starts", "requests", "queries", "others", "conf", "tokens"}
        BY <4>1
      <4> QED
        BY <3>4, <4>2 DEF Sum, Kinds
    <3>6. what # "conf" => count'["conf"] = count["conf"]
      BY <3>4 DEF Kinds
    <3> QED
      BY <2>1, <3>1, <3>2, <3>3, <3>5, <3>6 DEF BoundInv
  <2>2. CASE UNCHANGED count
    BY <2>2 DEF BoundInv, Sum
  <2>3. /\ "starts" \in Kinds /\ "requests" \in Kinds /\ "queries" \in Kinds
        /\ "others" \in Kinds /\ "conf" \in Kinds /\ "tokens" \in Kinds
    BY DEF Kinds
  <2> QED
    BY <2>1, <2>2, <2>3, CountStep, BoundTypes
<1>2. pc' = "down" => start' = NoStart
  BY QueryQuiet DEF BoundInv, Next, Boot, Call, World, Import, ApplyFlags, Reset, ResolveTokens,
     Build, Arrive, Handle, HandleUnknown, Record, Stop, OtherAppends, EditConf, EditTokens,
     vars, process, Up, Querying
<1>3. audit' <= Len(loggers')
  <2>1. CASE Import
    BY <2>1 DEF Import
  <2>2. CASE Reset
    <3>1. Len(loggers) = 1 /\ audit' = audit
      BY <2>2 DEF Reset, ProcInv, LoggerInv
    <3>2. Len(loggers') = 2
      BY <2>2 DEF Reset
    <3> QED
      BY <3>1, <3>2 DEF BoundInv, ProcInv, ProcessType
  <2>3. CASE Build
    BY <2>3 DEF Build, DefaultLogger, ProcInv, ProcessType
  <2>4. CASE UNCHANGED <<loggers, audit>>
    BY <2>4 DEF BoundInv
  <2>5. CASE loggers' = <<>> /\ audit' = 0
    BY <2>5
  <2> QED
    BY <2>1, <2>2, <2>3, <2>4, <2>5, QueryQuiet DEF Next, Boot, Call, World, ApplyFlags,
       ResolveTokens, Arrive, Handle, HandleUnknown, Record, Stop, OtherAppends, EditConf,
       EditTokens, vars, process
<1> QED
  BY <1>1, <1>2, <1>3 DEF BoundInv

-----------------------------------------------------------------------------
(* audit_query. *)

Found == Filtered(log[query.path], query.args)

\* The page that is asked for begins where the pages so far end, and those are no longer
\* than what is found while nothing can fall out of the tail.
SweepInv ==
  /\ sweep.on => query.path # Unset
  /\ pc \in Querying => sweep.on /\ Len(sweep.joined) = query.start
  /\ pc \notin Querying /\ sweep.on => Len(sweep.joined) = query.start + PageSize
  /\ query.path # Unset /\ (sweep.quiet \/ Len(log[query.path]) <= query.args.tail) =>
       Len(sweep.joined) <= Len(Found)
  /\ PagesJoin

\* What the statements so far have returned: still true of the log if nobody appended, and
\* too little at most if the log fits in the tail.
AnswerInv ==
  /\ query.path # Unset /\ query.quiet /\ pc \in {"total", "rows"} =>
       query.tail_size = TailSize(log[query.path], query.args)
  /\ query.path # Unset /\ pc = "rows" =>
       /\ query.quiet => query.total = Len(Found)
       /\ Len(log[query.path]) <= query.args.tail => query.total <= Len(Found)
  /\ WindowMatches

ReadInv == ReadType /\ SweepInv /\ AnswerInv

\* The tail of a log, and what is found in it.
LEMMA TailedType ==
  ASSUME NEW rows \in Seq(Entries), NEW tail \in Nat
  PROVE  /\ Tailed(rows, tail) \in Seq(Entries)
         /\ Len(rows) <= tail => Tailed(rows, tail) = rows
<1> DEFINE first == Len(rows) - Least(Len(rows), tail) + 1
<1>1. Len(rows) \in Nat
  OBVIOUS
<1>2. first \in 1..(Len(rows) + 1) /\ (Len(rows) <= tail => first = 1)
  <2>1. CASE Len(rows) <= tail
    BY <1>1, <2>1 DEF Least
  <2>2. CASE ~(Len(rows) <= tail)
    BY <1>1, <2>2 DEF Least
  <2> QED
    BY <2>1, <2>2
<1> HIDE DEF first
<1>3. SubSeq(rows, first, Len(rows)) \in Seq(Entries)
  BY <1>1, <1>2
<1>4. SubSeq(rows, 1, Len(rows)) = rows
  BY SubSeqFull
<1> QED
  BY <1>2, <1>3, <1>4 DEF Tailed, first

LEMMA FoundType ==
  ASSUME NEW rows \in Seq(Entries), NEW args \in Args
  PROVE  /\ Filtered(rows, args) \in Seq(Entries)
         /\ Total(rows, args) = Len(Filtered(rows, args)) /\ Total(rows, args) \in Nat
         /\ TailSize(rows, args) \in Nat /\ Total(rows, args) <= TailSize(rows, args)
<1>1. args.tail \in Nat
  BY DEF Args
<1> DEFINE t == Tailed(rows, args.tail)  f == Selected(t, Matching(args))
<1>2. t \in Seq(Entries)
  BY <1>1, TailedType
<1> HIDE DEF t
<1>3. f \in Seq(Entries \cap Matching(args)) /\ Len(f) <= Len(t)
  BY <1>2, SelectedType
<1> HIDE DEF f
<1>4. f \in Seq(Entries)
  BY <1>3
<1>5. Len(f) \in Nat /\ Len(t) \in Nat
  BY <1>2, <1>4
<1> QED
  BY <1>3, <1>4, <1>5 DEF Filtered, Total, TailSize, f, t

\* A log that fits in the tail: a new row adds to the end of what is found, or nothing.
LEMMA FoundGrows ==
  ASSUME NEW rows \in Seq(Entries), NEW entry \in Entries, NEW args \in Args,
         Len(Append(rows, entry)) <= args.tail
  PROVE  Filtered(Append(rows, entry), args) \in
           {Filtered(rows, args), Append(Filtered(rows, args), entry)}
<1>1. Append(rows, entry) \in Seq(Entries) /\ Len(Append(rows, entry)) = Len(rows) + 1
      /\ Len(rows) \in Nat /\ args.tail \in Nat
  BY DEF Args
<1>2. Len(rows) <= args.tail
  BY <1>1
<1>3. /\ Tailed(rows, args.tail) = rows
      /\ Tailed(Append(rows, entry), args.tail) = Append(rows, entry)
  BY <1>1, <1>2, TailedType
<1> QED
  BY <1>3, SelectedAppend DEF Filtered

\* The records of an answer: how many there are.
RowsRight(rows, args, begin, end) ==
  LET found == Filtered(rows, args)
      last == Least(end, Len(found))
  IN  /\ Rows(rows, args, begin, end) = SubSeq(found, begin + 1, last)
      /\ Rows(rows, args, begin, end) \in Seq(Entries)
      /\ Len(Rows(rows, args, begin, end)) = IF begin <= last THEN last - begin ELSE 0

LEMMA RowsType ==
  ASSUME NEW rows \in Seq(Entries), NEW args \in Args, NEW begin \in Nat, NEW end \in Nat,
         begin <= end
  PROVE  RowsRight(rows, args, begin, end)
<1> DEFINE found == Filtered(rows, args)  last == Least(end, Len(found))
<1>1. found \in Seq(Entries) /\ Total(rows, args) = Len(found) /\ Len(found) \in Nat
  BY FoundType
<1> HIDE DEF found
<1>2. last \in 0..Len(found)
  BY <1>1 DEF Least
<1> HIDE DEF last
<1>3. SubSeq(found, begin + 1, last) \in Seq(Entries)
      /\ Len(SubSeq(found, begin + 1, last)) = IF begin <= last THEN last - begin ELSE 0
  <2>1. CASE begin + 1 <= last
    <3>1. begin + 1 \in 1..Len(found) /\ last \in 1..Len(found)
      BY <1>2, <2>1
    <3> QED
      BY <1>1, <2>1, <3>1
  <2>2. CASE ~(begin + 1 <= last)
    <3>1. SubSeq(found, begin + 1, last) = <<>>
      <4>1. begin + 1 \in Int /\ last \in Int /\ last < begin + 1
        BY <1>2, <2>2
      <4> QED
        BY <4>1, SubSeqEmpty
    <3>2. ~(begin <= last) \/ last - begin = 0
      BY <1>2, <2>2
    <3>3. (IF begin <= last THEN last - begin ELSE 0) = 0
      BY <3>2
    <3>4. <<>> \in Seq(Entries) /\ Len(<<>>) = 0
      OBVIOUS
    <3> QED
      BY <3>1, <3>3, <3>4
  <2> QED
    BY <2>1, <2>2
<1> QED
  BY <1>1, <1>3 DEF Rows, RowsRight, found, last

-----------------------------------------------------------------------------
(* The steps of the log, of a query and of the sweep. *)

LEMMA ReadStart == ProcessAssumption /\ Init => ReadInv
<1> SUFFICES ASSUME ProcessAssumption, Init PROVE ReadInv
  OBVIOUS
<1>1. ReadType
  BY DEF Init, ReadType, NoQuery, NoSweep, Args
<1> QED
  BY <1>1 DEF Init, ReadInv, SweepInv, AnswerInv, PagesJoin, WindowMatches, NoQuery, NoSweep, Querying

\* A query that is given up leaves nothing.
LEMMA NoneInv ==
  ASSUME query' = NoQuery, sweep' = NoSweep, pc' \notin Querying
  PROVE  ReadInv'
<1>1. ReadType'
  BY DEF ReadType, NoQuery, NoSweep, Args
<1> QED
  BY <1>1 DEF ReadInv, SweepInv, AnswerInv, PagesJoin, WindowMatches, NoQuery, NoSweep, Querying

LEMMA QuietInv ==
  ASSUME ReadInv, UNCHANGED <<log, query, sweep>>,
         pc' = pc \/ (pc \notin Querying /\ pc' \notin Querying)
  PROVE  ReadInv'
<1>1. ReadType'
  BY DEF ReadInv, ReadType
<1>2. SweepInv'
  BY DEF ReadInv, SweepInv, PagesJoin, Found
<1>3. AnswerInv'
  BY DEF ReadInv, AnswerInv, WindowMatches, Found, Querying
<1> QED
  BY <1>1, <1>2, <1>3 DEF ReadInv

\* A row that somebody adds.
LEMMA InsertInv ==
  ASSUME ProcessAssumption, ProcInv, ReadInv, NEW p \in Paths, NEW entry \in Entries,
         Insert(p, entry), pc' = pc \/ (pc \notin Querying /\ pc' \notin Querying)
  PROVE  ReadInv'
<1>1. /\ query' = [query EXCEPT !.quiet = @ /\ query.path # p]
      /\ sweep' = [sweep EXCEPT !.quiet = @ /\ query.path # p]
      /\ log' = [log EXCEPT ![p] = Append(@, entry)]
  BY DEF Insert, Disturb
<1>2. ReadType /\ SweepInv /\ AnswerInv /\ log \in [Paths -> Seq(Entries)]
  BY DEF ReadInv, ProcInv, CallType
<1>3. /\ query'.path = query.path /\ query'.args = query.args /\ query'.start = query.start
      /\ query'.tail_size = query.tail_size /\ query'.total = query.total
      /\ query'.rows = query.rows /\ query'.window = query.window
      /\ query'.quiet = (query.quiet /\ query.path # p)
      /\ sweep'.on = sweep.on /\ sweep'.joined = sweep.joined
      /\ sweep'.quiet = (sweep.quiet /\ query.path # p)
  BY <1>1, <1>2 DEF ReadType
<1>4. ReadType'
  BY <1>1, <1>2, <1>3 DEF ReadType
<1>5. CASE query.path # p
  <2>1. query.path # Unset => log'[query.path] = log[query.path]
    BY <1>1, <1>2, <1>5 DEF ReadType
  <2>2. SweepInv'
    BY <1>2, <1>3, <1>5, <2>1 DEF SweepInv, PagesJoin, Found
  <2>3. AnswerInv'
    BY <1>2, <1>3, <1>5, <2>1 DEF AnswerInv, WindowMatches, Found, Querying
  <2> QED
    BY <1>4, <2>2, <2>3 DEF ReadInv
<1>6. CASE query.path = p
  <2> DEFINE rows == log[p]  more == Append(rows, entry)  args == query.args
  <2>0. ~query'.quiet /\ ~sweep'.quiet
    BY <1>3, <1>6
  <2>1. /\ log'[p] = more /\ rows \in Seq(Entries) /\ args \in Args
        /\ Len(more) = Len(rows) + 1 /\ Len(rows) \in Nat /\ args.tail \in Nat
    <3>1. rows \in Seq(Entries) /\ args \in Args
      BY <1>2 DEF ReadType
    <3>2. args.tail \in Nat
      BY <3>1 DEF Args
    <3>3. log'[p] = more
      BY <1>1, <1>2
    <3> HIDE DEF args, rows
    <3>4. Len(more) = Len(rows) + 1 /\ Len(rows) \in Nat
      BY <3>1
    <3> QED
      BY <3>1, <3>2, <3>3, <3>4
  <2>2. Filtered(rows, args) \in Seq(Entries) /\ Len(Filtered(rows, args)) \in Nat
    BY <2>1, FoundType
  <2>3. Len(more) <= args.tail =>
          /\ Len(rows) <= args.tail
          /\ Filtered(more, args) \in {Filtered(rows, args), Append(Filtered(rows, args), entry)}
    <3> SUFFICES ASSUME Len(more) <= args.tail
                 PROVE  /\ Len(rows) <= args.tail
                        /\ Filtered(more, args) \in
                             {Filtered(rows, args), Append(Filtered(rows, args), entry)}
      OBVIOUS
    <3>1. Len(rows) <= args.tail
      BY <2>1
    <3>2. rows \in Seq(Entries) /\ args \in Args /\ Len(Append(rows, entry)) <= args.tail
      BY <2>1
    <3> HIDE DEF args, rows
    <3>3. Filtered(Append(rows, entry), args) \in
            {Filtered(rows, args), Append(Filtered(rows, args), entry)}
      BY <3>2, FoundGrows
    <3> QED
      BY <3>1, <3>3
  <2>4. SweepInv'
    <3>1. ASSUME Len(more) <= args.tail
          PROVE  /\ sweep.joined = SubSeq(Filtered(more, args), 1, Len(sweep.joined))
                 /\ Len(sweep.joined) <= Len(Filtered(more, args))
      <4>1. p # Unset
        BY DEF ProcessAssumption
      <4>2. /\ sweep.joined = SubSeq(Filtered(rows, args), 1, Len(sweep.joined))
            /\ Len(sweep.joined) <= Len(Filtered(rows, args))
        BY <1>2, <1>6, <2>3, <3>1, <4>1 DEF SweepInv, PagesJoin, Found
      <4> DEFINE f == Filtered(rows, args)  k == Len(sweep.joined)  g == Append(f, entry)
      <4>3. k \in Nat
        BY <1>2 DEF ReadType
      <4> HIDE DEF f, k
      <4>4. k <= Len(f)
        BY <4>2 DEF f, k
      <4>5. SubSeq(g, 1, k) = SubSeq(f, 1, k) /\ Len(g) = Len(f) + 1
        BY <2>2, <4>3, <4>4 DEF f
      <4>6. k <= Len(g)
        BY <2>2, <4>3, <4>4, <4>5 DEF f
      <4> QED
        BY <2>3, <3>1, <4>2, <4>5, <4>6 DEF f, k
    <3>2. PagesJoin'
      BY <1>3, <1>6, <2>0, <2>1, <3>1 DEF PagesJoin
    <3> QED
      BY <1>2, <1>3, <1>6, <2>0, <2>1, <3>1, <3>2 DEF SweepInv, Found
  <2>5. AnswerInv'
    <3>1. WindowMatches'
      BY <1>2, <1>3, <1>6, <2>0, <2>1, <2>3 DEF AnswerInv, WindowMatches, Querying
    <3>2. ASSUME Len(more) <= args.tail, pc = "rows", query.total <= Len(Filtered(rows, args))
          PROVE  query.total <= Len(Filtered(more, args))
      <4>1. Len(Append(Filtered(rows, args), entry)) = Len(Filtered(rows, args)) + 1
        BY <2>2
      <4>2. query.total \in Nat
        BY <1>2 DEF ReadType
      <4> QED
        BY <2>2, <2>3, <3>2, <4>1, <4>2
    <3> QED
      BY <1>2, <1>3, <1>6, <2>0, <2>1, <2>3, <3>1, <3>2 DEF AnswerInv, Found, Querying
  <2> QED
    BY <1>4, <2>4, <2>5 DEF ReadInv
<1> QED
  BY <1>5, <1>6

\* A query begins, with the next page of its sweep or with a new one.
LEMMA BeginInv ==
  ASSUME ProcessAssumption, ProcInv, ReadInv, BeginQuery
  PROVE  ReadInv'
<1>1. ReadType /\ SweepInv /\ AnswerInv /\ pc \notin Querying /\ pc' = "tail" /\ log' = log
      /\ QueryPath \in Databases /\ (sweep.on => QueryPath = query.path)
  BY DEF ReadInv, BeginQuery, Querying
<1>2. PICK q \in Asked :
        query' = [NoQuery EXCEPT !.path = QueryPath, !.args = q.args, !.start = q.start]
  BY DEF BeginQuery
<1>3. sweep' = IF sweep.on THEN sweep ELSE [NoSweep EXCEPT !.on = TRUE]
  BY DEF BeginQuery
<1>4. /\ query'.path = QueryPath /\ query'.args = q.args /\ query'.start = q.start
  BY <1>2 DEF NoQuery
<1>5. q.args \in Args /\ q.start \in Nat
  <2>1. CASE sweep.on
    BY <1>1, <2>1 DEF Asked, ReadType, ProcessAssumption
  <2>2. CASE ~sweep.on
    <3>1. PICK args \in [action : Actions, status : Results, tail : Tails] :
            q = [args |-> args, start |-> 0]
      BY <2>2 DEF Asked
    <3>2. args \in Args
      BY <3>1 DEF Args, ProcessAssumption, Statuses
    <3> QED
      BY <3>1, <3>2
  <2> QED
    BY <2>1, <2>2
<1>6. ReadType'
  <2>1. query' \in [path : Paths \cup {Unset}, args : Args, start : Nat, quiet : BOOLEAN,
                    tail_size : Nat, total : Nat, rows : Seq(Entries), window : Seq(Nat)]
    <3>1. QueryPath \in Paths \cup {Unset} /\ <<0, 0>> \in Seq(Nat) /\ <<>> \in Seq(Entries)
      BY <1>1 DEF Paths
    <3>2. query' = [path |-> QueryPath, args |-> q.args, start |-> q.start, quiet |-> TRUE,
                    tail_size |-> 0, total |-> 0, rows |-> <<>>, window |-> <<0, 0>>]
      BY <1>2 DEF NoQuery
    <3> QED
      BY <1>5, <3>1, <3>2
  <2>2. sweep' \in [on : BOOLEAN, joined : Seq(Entries), quiet : BOOLEAN]
    <3>1. CASE sweep.on
      BY <1>1, <1>3, <3>1 DEF ReadType
    <3>2. CASE ~sweep.on
      <4>1. sweep' = [on |-> TRUE, joined |-> <<>>, quiet |-> TRUE]
        BY <1>3, <3>2 DEF NoSweep
      <4>2. <<>> \in Seq(Entries)
        OBVIOUS
      <4> QED
        BY <4>1, <4>2
    <3> QED
      BY <3>1, <3>2
  <2> QED
    BY <2>1, <2>2 DEF ReadType
<1>7. query'.path # Unset
  BY <1>1, <1>4 DEF ProcessAssumption, Paths
<1>8. SweepInv'
  <2>1. CASE sweep.on
    <3>1. q.args = query.args /\ q.start = query.start + PageSize /\ sweep' = sweep
      BY <1>3, <2>1 DEF Asked
    <3>2. PagesJoin'
      BY <1>1, <1>4, <2>1, <3>1 DEF SweepInv, PagesJoin
    <3> QED
      BY <1>1, <1>4, <1>7, <2>1, <3>1, <3>2 DEF SweepInv, Querying, Found
  <2>2. CASE ~sweep.on
    <3>1. sweep'.on /\ sweep'.joined = <<>> /\ q.start = 0
      BY <1>3, <2>2 DEF Asked, NoSweep
    <3>2. Len(sweep'.joined) = 0
      BY <3>1
    <3>3. SubSeq(Filtered(log[QueryPath], q.args), 1, 0) = <<>>
      BY SubSeqEmpty
    <3>4. PagesJoin'
      BY <1>1, <1>4, <3>1, <3>2, <3>3 DEF PagesJoin
    <3>5. 0 <= Len(Found')
      <4>1. log[QueryPath] \in Seq(Entries)
        BY <1>1 DEF ProcInv, CallType, Paths
      <4> QED
        BY <1>1, <1>4, <1>5, <4>1, FoundType DEF Found
    <3> QED
      BY <1>1, <1>4, <1>7, <3>1, <3>2, <3>4, <3>5 DEF SweepInv, Querying
  <2> QED
    BY <2>1, <2>2
<1>9. AnswerInv'
  BY <1>1 DEF AnswerInv, WindowMatches, Querying
<1> QED
  BY <1>6, <1>8, <1>9 DEF ReadInv

LEMMA TailSizeInv ==
  ASSUME ProcInv, ReadInv, ReadTailSize
  PROVE  ReadInv'
<1>1. /\ ReadType /\ SweepInv /\ AnswerInv /\ pc = "tail" /\ pc' = "total"
      /\ UNCHANGED <<log, sweep>>
      /\ query' = [query EXCEPT !.tail_size = TailSize(log[query.path], query.args)]
  BY DEF ReadInv, ReadTailSize
<1>2. /\ query'.path = query.path /\ query'.args = query.args /\ query'.start = query.start
      /\ query'.total = query.total /\ query'.rows = query.rows
      /\ query'.window = query.window /\ query'.quiet = query.quiet
      /\ query'.tail_size = TailSize(log[query.path], query.args)
  BY <1>1 DEF ReadType
<1>3. query.path # Unset /\ query.args \in Args /\ log[query.path] \in Seq(Entries)
  BY <1>1 DEF SweepInv, Querying, ReadType, ProcInv, CallType
<1>4. TailSize(log[query.path], query.args) \in Nat
  BY <1>3, FoundType
<1>5. ReadType'
  BY <1>1, <1>4 DEF ReadType
<1>6. SweepInv'
  BY <1>1, <1>2 DEF SweepInv, PagesJoin, Found, Querying
<1>7. AnswerInv'
  BY <1>1, <1>2 DEF AnswerInv, WindowMatches, Querying
<1> QED
  BY <1>5, <1>6, <1>7 DEF ReadInv

LEMMA TotalInv ==
  ASSUME ProcInv, ReadInv, ReadTotal
  PROVE  ReadInv'
<1>1. /\ ReadType /\ SweepInv /\ AnswerInv /\ pc = "total" /\ pc' = "rows"
      /\ UNCHANGED <<log, sweep>>
      /\ query' = [query EXCEPT !.total = Total(log[query.path], query.args)]
  BY DEF ReadInv, ReadTotal
<1>2. /\ query'.path = query.path /\ query'.args = query.args /\ query'.start = query.start
      /\ query'.tail_size = query.tail_size /\ query'.rows = query.rows
      /\ query'.window = query.window /\ query'.quiet = query.quiet
      /\ query'.total = Total(log[query.path], query.args)
  BY <1>1 DEF ReadType
<1>3. query.path # Unset /\ query.args \in Args /\ log[query.path] \in Seq(Entries)
  BY <1>1 DEF SweepInv, Querying, ReadType, ProcInv, CallType
<1>4. /\ Total(log[query.path], query.args) = Len(Found)
      /\ Total(log[query.path], query.args) \in Nat
  BY <1>3, FoundType DEF Found
<1>5. ReadType'
  BY <1>1, <1>4 DEF ReadType
<1>6. SweepInv'
  BY <1>1, <1>2 DEF SweepInv, PagesJoin, Found, Querying
<1>7. AnswerInv'
  <2>1. Found' = Found /\ query'.total = Len(Found) /\ Len(Found) \in Nat
    BY <1>1, <1>2, <1>4 DEF Found
  <2>2. WindowMatches'
    BY <1>1 DEF WindowMatches, Querying
  <2> QED
    BY <1>1, <1>2, <2>1, <2>2 DEF AnswerInv
<1> QED
  BY <1>5, <1>6, <1>7 DEF ReadInv

\* The last statement: the page joins the pages before it, and its length is the window's.
LEMMA RowsInv ==
  ASSUME ProcessAssumption, ProcInv, ReadInv, ReadRows
  PROVE  ReadInv'
<1> DEFINE rows == log[query.path]  begin == query.start  end == begin + PageSize
           got == Rows(rows, query.args, begin, end)  f == Filtered(rows, query.args)
           last == Least(end, Len(f))  total == query.total
<1>1. /\ ReadType /\ SweepInv /\ AnswerInv /\ pc = "rows" /\ pc' = "serving"
      /\ log' = log
      /\ query' = [query EXCEPT !.rows = got, !.window = Window(begin, end, total)]
      /\ sweep' = [sweep EXCEPT !.joined = @ \o got, !.on = Len(got) = PageSize]
  BY DEF ReadInv, ReadRows
<1>2. /\ query'.path = query.path /\ query'.args = query.args /\ query'.start = begin
      /\ query'.tail_size = query.tail_size /\ query'.total = total
      /\ query'.rows = got /\ query'.window = <<Least(begin, total), Least(end, total)>>
      /\ query'.quiet = query.quiet /\ sweep'.quiet = sweep.quiet
      /\ sweep'.joined = sweep.joined \o got /\ sweep'.on = (Len(got) = PageSize)
  BY <1>1 DEF ReadType, Window
<1>3. /\ query.path # Unset /\ query.args \in Args /\ rows \in Seq(Entries)
      /\ begin \in Nat /\ PageSize \in Nat \ {0} /\ total \in Nat
      /\ sweep.joined \in Seq(Entries) /\ Len(sweep.joined) = begin
  BY <1>1 DEF SweepInv, Querying, ReadType, ProcInv, CallType, ProcessAssumption
<1> HIDE DEF rows, begin
<1>4. end \in Nat /\ begin <= end /\ end = begin + PageSize
  <2>1. begin \in Nat /\ PageSize \in Nat
    BY <1>3
  <2> QED
    BY <2>1
<1> HIDE DEF end
<1>5. /\ got = SubSeq(f, begin + 1, last) /\ got \in Seq(Entries)
      /\ begin <= last => Len(got) = last - begin
      /\ ~(begin <= last) => Len(got) = 0
  <2>1. /\ got = SubSeq(f, begin + 1, last) /\ got \in Seq(Entries)
        /\ Len(got) = IF begin <= last THEN last - begin ELSE 0
    <3>1. query.args \in Args /\ rows \in Seq(Entries) /\ begin \in Nat /\ end \in Nat /\ begin <= end
      BY <1>3, <1>4
    <3>2. RowsRight(rows, query.args, begin, end)
      <4> HIDE DEF end
      <4> QED
        BY <3>1, RowsType
    <3> QED
      BY <3>2 DEF RowsRight
  <2> HIDE DEF got, f, last
  <2> QED
    BY <2>1
<1>6. /\ f \in Seq(Entries) /\ Len(f) \in Nat /\ Total(rows, query.args) = Len(f)
      /\ TailSize(rows, query.args) \in Nat /\ Len(f) <= TailSize(rows, query.args)
  BY <1>3, FoundType
<1> HIDE DEF got, f
<1>7. last \in Nat /\ last <= Len(f) /\ last <= end /\ (last = end \/ last = Len(f))
  BY <1>4, <1>6 DEF Least
<1> HIDE DEF last, total
<1>8. ReadType'
  <2>1. <<Least(begin, total), Least(end, total)>> \in Seq(Nat)
    <3>1. Least(begin, total) \in Nat /\ Least(end, total) \in Nat
      BY <1>3, <1>4 DEF Least
    <3> QED
      BY <3>1
  <2>2. sweep.joined \o got \in Seq(Entries)
    BY <1>3, <1>5
  <2>3. Window(begin, end, total) \in Seq(Nat)
    BY <2>1 DEF Window
  <2> QED
    BY <1>1, <1>5, <2>2, <2>3 DEF ReadType
<1>9. Found' = f /\ Found = f
  BY <1>1, <1>2 DEF Found, f, rows
<1>10. ASSUME sweep.quiet \/ Len(rows) <= query.args.tail
       PROVE  /\ begin <= last
              /\ sweep'.joined = SubSeq(f, 1, Len(sweep'.joined))
              /\ Len(sweep'.joined) = last
  <2>1. begin <= Len(f) /\ sweep.joined = SubSeq(f, 1, begin)
    BY <1>1, <1>3, <1>9, <1>10 DEF SweepInv, PagesJoin, Found, f, rows
  <2>2. begin <= last
    BY <1>3, <1>4, <1>7, <2>1
  <2>3. Len(sweep.joined \o got) = last
    <3>1. Len(sweep.joined \o got) = begin + Len(got)
      BY <1>3, <1>5
    <3>2. Len(got) = last - begin
      BY <1>5, <2>2
    <3> QED
      BY <1>3, <1>7, <3>1, <3>2
  <2>4. SubSeq(f, 1, begin) \o SubSeq(f, begin + 1, last) = SubSeq(f, 1, last)
    <3>1. /\ 1 \in 1..(Len(f) + 1) /\ begin \in (1 - 1)..Len(f)
          /\ last \in begin..Len(f)
      BY <1>3, <1>6, <1>7, <2>2
    <3> QED
      BY <1>6, <3>1, ConcatAdjacentSubSeq, Zenon
  <2> QED
    BY <1>2, <1>5, <2>1, <2>2, <2>3, <2>4
<1>11. SweepInv'
  <2>1. ASSUME sweep.quiet, Len(got) # PageSize
        PROVE  sweep'.joined = f
    <3>1. last = Len(f)
      BY <1>3, <1>4, <1>5, <1>6, <1>7, <1>10, <2>1
    <3> QED
      BY <1>6, <1>10, <2>1, <3>1, SubSeqFull
  <2>2. PagesJoin'
    BY <1>1, <1>2, <1>10, <2>1 DEF PagesJoin, f, rows
  <2>3. Len(got) = PageSize => Len(sweep'.joined) = begin + PageSize
    <3>1. Len(sweep.joined \o got) = begin + Len(got)
      BY <1>3, <1>5
    <3> QED
      BY <1>2, <3>1
  <2> QED
    BY <1>1, <1>2, <1>3, <1>7, <1>9, <1>10, <2>2, <2>3 DEF SweepInv, Querying, rows
<1>12. AnswerInv'
  <2>1. /\ query.quiet => total = Len(f) /\ query.tail_size = TailSize(rows, query.args)
        /\ Len(rows) <= query.args.tail => total <= Len(f)
    BY <1>1, <1>3, <1>9 DEF AnswerInv, total, rows
  <2>2. query'.window[2] - query'.window[1] = Least(end, total) - Least(begin, total)
    BY <1>2
  <2>3. query.quiet => Len(got) = Least(end, total) - Least(begin, total)
    <3>1. ASSUME total = Len(f) PROVE Len(got) = Least(end, total) - Least(begin, total)
      <4>1. CASE begin <= total
        <5>1. Least(begin, total) = begin /\ Least(end, total) = last /\ begin <= last
          BY <1>3, <1>4, <3>1, <4>1 DEF Least, last
        <5> QED
          BY <1>5, <5>1
      <4>2. CASE ~(begin <= total)
        <5>1. Least(begin, total) = total /\ Least(end, total) = total /\ ~(begin <= last)
          BY <1>3, <1>4, <3>1, <4>2 DEF Least, last
        <5> QED
          BY <1>3, <1>5, <5>1
      <4> QED
        BY <4>1, <4>2
    <3> QED
      BY <2>1, <3>1
  <2>4. total <= Len(f) => Len(got) >= Least(end, total) - Least(begin, total)
    <3> SUFFICES ASSUME total <= Len(f) PROVE Len(got) >= Least(end, total) - Least(begin, total)
      OBVIOUS
    <3>1. CASE begin <= total
      <4>1. Least(begin, total) = begin /\ Least(end, total) <= last /\ begin <= last
            /\ Least(end, total) \in Nat
        BY <1>3, <1>4, <1>6, <3>1 DEF Least, last
      <4> QED
        BY <1>3, <1>5, <1>7, <4>1
    <3>2. CASE ~(begin <= total)
      <4>1. Least(begin, total) = total /\ Least(end, total) = total
        BY <1>3, <1>4, <3>2 DEF Least
      <4>2. Len(got) >= 0
        BY <1>5
      <4> QED
        BY <1>3, <4>1, <4>2
    <3> QED
      BY <3>1, <3>2
  <2>5. query.quiet => total <= query.tail_size
    BY <1>6, <2>1
  <2>6. WindowMatches'
    BY <1>1, <1>2, <2>1, <2>2, <2>3, <2>4, <2>5 DEF WindowMatches, rows
  <2> QED
    BY <1>1, <2>6 DEF AnswerInv
<1> QED
  BY <1>8, <1>11, <1>12 DEF ReadInv

LEMMA ReadStep ==
  ASSUME ProcessAssumption, ProcInv, ReadInv, [Next]_vars
  PROVE  ReadInv'
<1>1. CASE Boot \/ Arrive \/ (\E r \in inbox : Handle(r) \/ HandleUnknown(r))
  <2>1. UNCHANGED <<log, query, sweep>>
    BY <1>1 DEF Boot, Import, ApplyFlags, Reset, ResolveTokens, Build, Arrive, Handle,
       HandleUnknown, reading
  <2>2. pc' = pc \/ (pc \notin Querying /\ pc' \notin Querying)
    BY <1>1 DEF Boot, Import, ApplyFlags, Reset, ResolveTokens, Build, Arrive, Handle,
       HandleUnknown, Querying
  <2> QED
    BY <2>1, <2>2, QuietInv
<1>2. CASE Record
  <2>1. pc \notin Querying /\ pc' \notin Querying
    BY <1>2 DEF Record, Querying
  <2>2. Last \in Calls
    <3>1. calls # <<>> /\ calls \in Seq(Calls)
      BY <1>2 DEF Record, ProcInv, RowInv, CallType
    <3> QED
      BY <3>1 DEF Last
  <2>3. Last.sink \in Paths /\ Last.entry \in Entries
    BY <2>2 DEF Calls
  <2>4. Insert(Last.sink, Last.entry) \/ UNCHANGED <<log, query, sweep>>
    BY <1>2 DEF Record, Last, reading
  <2> QED
    BY <2>1, <2>3, <2>4, InsertInv, QuietInv
<1>3. CASE OtherAppends
  <2>1. PICK p \in Databases, tool \in Tools, status \in Statuses :
          Insert(p, [call |-> 0, action |-> tool, status |-> status])
    BY <1>3 DEF OtherAppends
  <2>2. [call |-> 0, action |-> tool, status |-> status] \in Entries /\ p \in Paths
    BY BoundTypes DEF Entries, Paths
  <2>3. pc' = pc
    BY <1>3 DEF OtherAppends
  <2> QED
    BY <2>1, <2>2, <2>3, InsertInv
<1>4. CASE QueryFails
  BY <1>4, NoneInv DEF QueryFails, Querying
<1>5. CASE BeginQuery \/ ReadTailSize \/ ReadTotal \/ ReadRows
  BY <1>5, BeginInv, TailSizeInv, TotalInv, RowsInv
<1>6. CASE Stop
  <2>1. CASE pc \in Querying
    BY <1>6, <2>1, NoneInv DEF Stop, Querying
  <2>2. CASE pc \notin Querying
    <3>1. UNCHANGED <<log, query, sweep>> /\ pc' \notin Querying
      BY <1>6, <2>2 DEF Stop, reading, Querying
    <3> QED
      BY <2>2, <3>1, QuietInv
  <2> QED
    BY <2>1, <2>2
<1>7. CASE EditConf \/ EditTokens \/ UNCHANGED vars
  <2>1. UNCHANGED <<log, query, sweep>> /\ pc' = pc
    BY <1>7 DEF EditConf, EditTokens, vars, reading
  <2> QED
    BY <2>1, QuietInv
<1> QED
  BY <1>1, <1>2, <1>3, <1>4, <1>5, <1>6, <1>7 DEF Next, Call, Query, World

LEMMA BoundStart == ProcessAssumption /\ Init => BoundInv
<1> SUFFICES ASSUME ProcessAssumption, Init PROVE BoundInv
  OBVIOUS
<1>1. \A k \in Kinds : count[k] = 0
  BY DEF Init
<1>2. Sum = 0 /\ count["conf"] = 0
  BY <1>1 DEF Sum, Kinds
<1>3. MaxEvents \in Nat /\ MaxConfEdits \in Nat
  BY DEF ProcessAssumption
<1>4. audit = 0 /\ Len(loggers) = 0 /\ start = NoStart
  BY DEF Init
<1> QED
  BY <1>2, <1>3, <1>4 DEF BoundInv

\* What a query keeps from one statement to the next, and the agent from one page to the
\* next.
THEOREM ReadInvariant == Spec => [](BoundInv /\ ReadInv)
<1>1. ProcessAssumption
  BY ProcessAssumption
<1>2. Init => BoundInv /\ ReadInv
  BY <1>1, BoundStart, ReadStart
<1>3. ProcInv /\ BoundInv /\ ReadInv /\ [Next]_vars => BoundInv' /\ ReadInv'
  BY <1>1, BoundStep, ReadStep
<1> QED
  BY <1>2, <1>3, ProcessInvariant, PTL DEF Spec

\* Every variable keeps its type, the counts and the edit of the start their bounds.
THEOREM ProcessTypeCorrect == Spec => []TypeOK
<1>1. ProcessAssumption
  BY ProcessAssumption
<1>2. ASSUME ProcessAssumption, ProcInv, BoundInv, ReadInv PROVE TypeOK
  <2>1. ProcessType /\ CallType /\ ReadType /\ count \in [Kinds -> Nat] /\ MaxEvents \in Nat
        /\ MaxConfEdits \in Nat
    BY <1>2 DEF ProcInv, CountType, ReadInv, ProcessAssumption
  <2>2. start.edit \in 0..MaxConfEdits
    <3>1. CASE pc = "down"
      BY <1>2, <2>1, <3>1 DEF BoundInv, NoStart
    <3>2. CASE pc # "down"
      <4>1. start.edit <= count["conf"] /\ count["conf"] <= MaxConfEdits
        BY <1>2, <3>2 DEF ProcInv, LoggerInv, BoundInv
      <4>2. start.edit \in Nat /\ count["conf"] \in Nat
        BY <2>1 DEF ProcessType, Kinds
      <4> QED
        BY <2>1, <4>1, <4>2
    <3> QED
      BY <3>1, <3>2
  <2>3. start \in [http : BOOLEAN, flag : BOOLEAN, env : Overrides \cup {Unset},
                   edit : 0..MaxConfEdits]
    BY <2>1, <2>2 DEF ProcessType
  <2>4. audit \in 0..Len(loggers)
    <3>1. audit \in Nat /\ Len(loggers) \in Nat /\ audit <= Len(loggers)
      BY <1>2, <2>1 DEF ProcessType, BoundInv
    <3> QED
      BY <3>1
  <2>5. count \in [Kinds -> 0..MaxEvents]
    <3>1. \A k \in Kinds : count[k] \in Nat
      BY <2>1
    <3>2. Sum <= MaxEvents
      BY <1>2 DEF BoundInv
    <3>3. \A k \in Kinds : count[k] <= MaxEvents
      BY <2>1, <3>1, <3>2 DEF Sum, Kinds
    <3> QED
      BY <2>1, <3>1, <3>3
  <2> QED
    BY <2>1, <2>3, <2>4, <2>5 DEF TypeOK, ProcessType, CallType, ReadType, Args
<1> QED
  BY <1>1, <1>2, ProcessInvariant, ReadInvariant, PTL

\* The pages of a sweep are the beginning of what the log holds for its arguments, and
\* all of it in the end.
THEOREM PagesAreJoined == Spec => []PagesJoin
<1>1. ReadInv => PagesJoin
  BY DEF ReadInv, SweepInv
<1> QED
  BY <1>1, ReadInvariant, PTL

\* The window of an answer is as wide as its records.
THEOREM WindowIsRight == Spec => []WindowMatches
<1>1. ReadInv => WindowMatches
  BY DEF ReadInv, AnswerInv
<1> QED
  BY <1>1, ReadInvariant, PTL
===============================================================================
