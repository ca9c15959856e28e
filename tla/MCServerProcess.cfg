SPECIFICATION Spec
CONSTANTS
  Databases = {"audit.db"}
  Streams = {"audit.log"}
  Any = Any
  Tools = {"shell_exec"}
  Actions = {Any}
  Results = {Any, "error"}
  Tails = {1, 4}
  PageSize = 1
  Overrides = {"audit.db"}
  Unset = Unset
  Tokens = {t1}
  Local = Local
  MaxStarts = 2
  MaxRequests = 2
  MaxQueries = 3
  MaxOthers = 2
  MaxConfEdits = 1
  MaxTokEdits = 1
  MaxEvents = 5
CHECK_DEADLOCK FALSE
INVARIANT TypeOK
INVARIANT TrailFaithful
INVARIANT QueriesOwnLog
INVARIANT CallsAuthorised
INVARIANT PagesJoin
INVARIANT WindowMatches
