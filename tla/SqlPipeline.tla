---------------------------- MODULE SqlPipeline ----------------------------
(***************************************************************************)
(* The SQL graph that both query branches use: generate, parse, validate,  *)
(* guard, execute, and after a failure describe it and generate again, on  *)
(* one budget of attempts for all the stages.  One run of it is modelled;  *)
(* runs share nothing but the tables their attempts and traces go to.      *)
(*                                                                         *)
(* A stage keeps str(exc) and the edges test it for truth, so an exception *)
(* without a text is taken for success.  The stages that call the model or *)
(* the customer's database can raise one (TimeoutError()).                 *)
(*                                                                         *)
(* Every execution reads the source's row anew and connects for itself,    *)
(* while administrators change the source: the graph is composed with      *)
(* SourceAccess, in which it is the caller Executor.                       *)
(***************************************************************************)
EXTENDS SourceAccess, Sequences

CONSTANTS Query,          \* texts the model may answer with
          OneStatement,   \* those that parse to exactly one statement
          InScope,        \* ... whose tables and columns are of the selected source
          SelectRooted,   \* ... that are a SELECT, UNION, INTERSECT or EXCEPT
          Harmless,       \* ... without a forbidden node or an unknown function
          Empty,          \* the text of an attempt whose generation failed
          Executor,       \* the call of SQLExecutor.execute
          MaxRetries,     \* CCE_SQL_MAX_RETRIES
          SilentErrors    \* whether exceptions without a text occur

ASSUME SqlPipelineAssumption ==
  /\ Empty \notin Query
  /\ OneStatement \subseteq Query
  /\ InScope \subseteq OneStatement /\ SelectRooted \subseteq OneStatement
  /\ Harmless \subseteq OneStatement
  /\ Executor \in Caller
  /\ MaxRetries \in Nat
  /\ SilentErrors \in BOOLEAN

VARIABLES
  node,       \* the node of the graph that runs next
  current,    \* SQLAttempt under way
  error,      \* SQLWork.error
  stage,      \* SQLWork.stage
  tries,      \* StructuredLLM.invoke: malformed replies so far
  target,     \* schema_context.source_id
  attempts,   \* SQLWork.attempts
  result,     \* SQLWork.result: "none", "SUCCESS", "EXHAUSTED" or "DISABLED"
  log,        \* sql_attempt rows
  executed,   \* history: what was sent to the customer's database, by which attempt
              \* and over a session with which guarantee
  granted     \* history: the attempts that found the source enabled and the
              \* Workspace active

graphVars == <<node, current, error, stage, tries, target, attempts, result, log,
               executed, granted>>
vars == <<graphVars, accessVars>>

Stage == {"SQL_GENERATION_FAILED", "SQL_PARSE_FAILED", "SQL_VALIDATION_FAILED",
          "SQL_GUARD_FAILED", "SQL_EXECUTION_FAILED"}
Attempt == [sql : Query \cup {Empty}, status : Stage \cup {"FAILED", "SUCCESS"}]
Node == {"generate_sql", "parse_sql", "validate_sql", "guard_sql", "execute_sql",
         "describe_sql_error", "persist_attempt"}
Budget == 1 + MaxRetries
LastTry == 2    \* of three, from 0

TypeOK ==
  /\ node \in Node \cup {"end", "raised"}
  /\ current \in Attempt
  /\ error \in {"none", "silent", "text"}
  /\ stage \in Stage
  /\ tries \in 0 .. LastTry
  /\ target \in Source
  /\ attempts \in Seq(Attempt) /\ log \in Seq(Attempt)
  /\ result \in {"none", "SUCCESS", "EXHAUSTED", "DISABLED"}
  /\ executed \subseteq [sql : Query, attempt : 1 .. Budget, readOnly : BOOLEAN]
  /\ granted \subseteq 1 .. Budget
  /\ AccessTypeOK

Fresh == [sql |-> Empty, status |-> "FAILED"]

Init ==
  /\ \/ node = "generate_sql" /\ result = "none"
     \/ node = "end" /\ result = "DISABLED"    \* sql_generation_enabled is off
  /\ current = Fresh
  /\ error = "none" /\ stage = "SQL_GENERATION_FAILED" /\ tries = 0
  /\ attempts = <<>> /\ log = <<>> /\ executed = {} /\ granted = {}
  /\ AccessInit
  /\ target \in {s \in Source : row[s] = "ENABLED"}

-----------------------------------------------------------------------------
\* What a call of the model or the database that raises leaves in error.
Raised == {"text"} \cup (IF SilentErrors THEN {"silent"} ELSE {})

\* Continue, had a failure been retried on the spot (a faulty variant).
ContinueAtOnce(next) == node' = IF error' = "text" THEN "generate_sql" ELSE next

\* The conditional edge after a stage: error is tested for truth.
Continue(next) == node' = IF error' = "text" THEN "describe_sql_error" ELSE next

\* StructuredLLM.invoke: a reply that does not validate is sent back with the errors,
\* twice; the third such reply is raised.
AskAgain == tries < LastTry /\ tries' = tries + 1

\* generate_sql: a new attempt and a cleared error.
GenerateSql ==
  /\ node = "generate_sql"
  /\ stage' = "SQL_GENERATION_FAILED"
  /\ \/ /\ AskAgain
        /\ error' = "none" /\ current' = Fresh
        /\ UNCHANGED node
     \/ /\ error' = "none" /\ tries' = 0
        /\ \E q \in Query : current' = [Fresh EXCEPT !.sql = q]
        /\ Continue("parse_sql")
     \/ /\ error' \in Raised /\ tries' = 0
        /\ current' = Fresh
        /\ Continue("parse_sql")
  /\ UNCHANGED <<target, attempts, result, log, executed, granted, accessVars>>

\* A stage that looks at the text of the attempt; its exceptions have a text.
Check(this, name, good, next) ==
  /\ node = this
  /\ stage' = name
  /\ error' = IF current.sql \in good THEN error ELSE "text"
  /\ Continue(next)
  /\ UNCHANGED <<current, tries, target, attempts, result, log, executed, granted,
                 accessVars>>

\* Guarded, had only the root of the statement been looked at (a faulty variant).
GuardedAtRoot == SelectRooted

\* guard_ast: a query at the root and nothing but reading below.
Guarded == SelectRooted \cap Harmless

ParseSql    == Check("parse_sql", "SQL_PARSE_FAILED", OneStatement, "validate_sql")
ValidateSql == Check("validate_sql", "SQL_VALIDATION_FAILED", InScope, "guard_sql")
GuardSql    == Check("guard_sql", "SQL_GUARD_FAILED", Guarded, "execute_sql")

\* guard_query: the checks of the three stages once more, before the query is
\* wrapped in the outer limit.
Bounded(q) == q \in OneStatement \cap Guarded \cap InScope

\* attempt_no of the attempt under way.
AttemptNo == Len(attempts) + 1

\* execute_sql is left with an exception, before there is a connector.
RefuseSql ==
  /\ node = "execute_sql" /\ conn[Executor] = None
  /\ stage' = "SQL_EXECUTION_FAILED"
  /\ \/ (~Bounded(current.sql) \/ ~Usable(target)) /\ error' = "text"
     \/ error' \in Raised      \* the control database, or the credential store
  /\ Continue("persist_attempt")
  /\ UNCHANGED <<current, tries, target, attempts, result, log, executed, granted,
                 accessVars>>

\* SQLExecutor.execute reads the source's row and builds a connector.
OpenSource ==
  /\ node = "execute_sql" /\ Bounded(current.sql)
  /\ stage' = "SQL_EXECUTION_FAILED"
  /\ RequireSource(Executor, target) /\ UNCHANGED requests
  /\ granted' = IF active /\ row[target] = "ENABLED" THEN granted \cup {AttemptNo} ELSE granted
  /\ UNCHANGED <<node, current, error, tries, target, attempts, result, log, executed>>

ConnectSource ==
  /\ node = "execute_sql"
  /\ Connect(Executor)
  /\ UNCHANGED graphVars

\* What execute_guarded_query sends, its time limit set and its rows bounded.
Sent == [sql |-> current.sql, attempt |-> AttemptNo, readOnly |-> conn[Executor].readOnly]

\* The limits and the query: the query may fail, or not be reached.
RunQuery ==
  /\ node = "execute_sql" /\ conn[Executor] # None /\ conn[Executor].at = "open"
  /\ \/ executed' = executed \cup {Sent} /\ conn' \in {[conn EXCEPT ![Executor].at = "done"],
                                                       [conn EXCEPT ![Executor].at = "failed"]}
     \/ conn' = [conn EXCEPT ![Executor].at = "failed"] /\ UNCHANGED executed
  /\ UNCHANGED <<node, current, error, stage, tries, target, attempts, result, log, granted,
                 active, row, ask, requests, live>>

\* The rows are the result once the session is closed; otherwise, and when close()
\* raises, there is an exception.
ExecuteSql ==
  /\ node = "execute_sql" /\ conn[Executor] # None /\ conn[Executor].at \in {"done", "failed"}
  /\ Close(Executor)
  /\ \/ /\ conn[Executor].at = "done"
        /\ current' = [current EXCEPT !.status = "SUCCESS"]
        /\ result' = "SUCCESS"
        /\ UNCHANGED error
     \/ /\ error' \in Raised
        /\ UNCHANGED <<current, result>>
  /\ Continue("persist_attempt")
  /\ UNCHANGED <<stage, tries, target, attempts, log, executed, granted>>

\* describe_sql_error: whether the analysis answers or raises, the attempt is
\* described by the stage it failed in.
DescribeSqlError ==
  /\ node = "describe_sql_error"
  /\ \/ AskAgain /\ UNCHANGED <<current, node>>
     \/ /\ current' = [current EXCEPT !.status = stage]
        /\ tries' = 0
        /\ node' = "persist_attempt"
  /\ UNCHANGED <<error, stage, target, attempts, result, log, executed, granted, accessVars>>

\* Logged, had only failures been worth a row (a faulty variant).
LoggedFailures == IF current.status = "SUCCESS" THEN log ELSE Append(log, current)

Logged == Append(log, current)

\* Exhausted, had the attempt under way not been counted (a faulty variant).
ExhaustedLate == Len(attempts) >= Budget

Exhausted == Len(attempts') >= Budget

PersistAttempt ==
  /\ node = "persist_attempt"
  /\ log' = Logged
  /\ attempts' = Append(attempts, current)
  /\ result' = IF result = "none" /\ Exhausted THEN "EXHAUSTED" ELSE result
  /\ node' = IF result' = "none" THEN "generate_sql" ELSE "end"
  /\ UNCHANGED <<current, error, stage, tries, target, executed, granted, accessVars>>

\* Every node records its trace when it is through, and the insert of the trace or
\* of the attempt may raise: the graph is left, the branch reports a failure.
TraceFails ==
  /\ node \in Node /\ conn[Executor] = None /\ tries = 0
  /\ node' = "raised"
  /\ \/ node = "persist_attempt" /\ log' = Logged
     \/ UNCHANGED log
  /\ UNCHANGED <<current, error, stage, tries, target, attempts, result, executed, granted,
                 accessVars>>

GraphNext ==
  \/ GenerateSql \/ ParseSql \/ ValidateSql \/ GuardSql
  \/ RefuseSql \/ OpenSource \/ ConnectSource \/ RunQuery \/ ExecuteSql
  \/ DescribeSqlError \/ PersistAttempt \/ TraceFails

Next ==
  \/ GraphNext
  \/ (AdminNext \/ \E c \in Caller \ {Executor} : TestNext(c)) /\ UNCHANGED graphVars

\* The graph's nodes run one after another in the thread of the branch.
Spec == Init /\ [][Next]_vars /\ WF_vars(GraphNext)

-----------------------------------------------------------------------------
(* Properties *)

\* Nothing but a single, read-only statement over the selected source ever reaches
\* the customer's database, also when an earlier stage failed without a text.
OnlyGuardedRuns ==
  {x.sql : x \in executed} \subseteq OneStatement \cap InScope \cap SelectRooted \cap Harmless

\* Each attempt that reaches the customer's database has itself found the source
\* enabled and its Workspace active, however long the graph has been at it, and has
\* done so over a session that cannot write, where connect() sees to that.  No session
\* outlives its call.
SessionsAreAuthorised ==
  /\ \A x \in executed :
       x.attempt \in granted /\ (target \in Enforcing => x.readOnly)
  /\ SessionsEnd
  /\ Executor \in live => node = "execute_sql"

\* The result's attempts are the persisted ones, in order, a success is the success of
\* the last of them, and only what ran succeeds.  There is one budget for failures of
\* every kind: it is never exceeded, and giving up means that it is used up.
AttemptsAreLogged ==
  /\ node # "raised" => log = attempts
  /\ \A k \in 1 .. Len(attempts) : attempts[k].status = "SUCCESS" =>
       k = Len(attempts) /\ \E x \in executed : x.attempt = k /\ x.sql = attempts[k].sql
  /\ node = "end" =>
       CASE result = "SUCCESS"   -> attempts # <<>> /\ attempts[Len(attempts)].status = "SUCCESS"
         [] result = "EXHAUSTED" -> Len(attempts) = Budget
         [] OTHER                -> attempts = <<>>
  /\ Len(log) <= Budget

\* However the stages fail, the graph comes to an end.
Terminates == <>(node \in {"end", "raised"})
=============================================================================
