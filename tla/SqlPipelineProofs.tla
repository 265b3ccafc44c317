-------------------------- MODULE SqlPipelineProofs --------------------------
(***************************************************************************)
(* Proofs about SqlPipeline and the SourceAccess it is composed with, for  *)
(* all sets of queries, sources, administrators and calls and every        *)
(* budget.  The graph is at execute_sql as long as its connector is there, *)
(* and what was found out when it was built (the query is bounded, the     *)
(* attempt authorised) is about the attempt under way (ConnInv); the       *)
(* budget is checked in one node and holds in all (NodeInv); a request     *)
(* that holds the Workspace's row keeps the Workspace active (AccessInv).  *)
(* The steps that are left on the budget are counted down (StepsLeft).     *)
(***************************************************************************)
EXTENDS SqlPipeline, TLAPS

\* Requests with the row of the Workspace, sessions and their guarantee.
AccessInv ==
  /\ AccessTypeOK
  /\ \A r \in Admin : ask[r] # None /\ ask[r].at = "locked" => active
  /\ SessionsEnd
  /\ \A c \in Caller : conn[c] # None /\ conn[c].at \in {"open", "done"} =>
       conn[c].readOnly = Verified(conn[c].source)

\* The attempt under way was sent to the customer's database.
Ran == \E x \in executed : x.attempt = AttemptNo /\ x.sql = current.sql

ConnInv ==
  conn[Executor] # None =>
    /\ node = "execute_sql" /\ Bounded(current.sql)
    /\ conn[Executor].source = target /\ AttemptNo \in granted
    /\ conn[Executor].at = "done" => Ran

NodeInv ==
  node \in Node =>
    /\ Len(attempts) < Budget
    /\ \A k \in 1 .. Len(attempts) : attempts[k].status # "SUCCESS"
    /\ current.status = "SUCCESS" => node = "persist_attempt" /\ result = "SUCCESS" /\ Ran
    /\ current.status # "SUCCESS" => result = "none"
    /\ node \in {"parse_sql", "validate_sql", "guard_sql", "execute_sql"} => error # "text"

ExecutedInv ==
  \A x \in executed :
    /\ Bounded(x.sql)
    /\ x.attempt \in granted
    /\ target \in Enforcing => x.readOnly

IInv ==
  /\ TypeOK
  /\ AccessInv
  /\ ConnInv
  /\ NodeInv
  /\ ExecutedInv
  /\ AttemptsAreLogged

-----------------------------------------------------------------------------
(* SourceAccess *)

LEMMA AccessStays == AccessInv /\ UNCHANGED accessVars => AccessInv'
  BY DEF AccessInv, AccessTypeOK, SessionsEnd, Verified, accessVars

\* Nothing is enabled or added once the Workspace is archived, nor a source revived.
LEMMA ChangeIsAllowed ==
  ASSUME AccessInv, NEW r \in Admin, Change(r)
  PROVE  /\ active
         /\ row' \in [Source -> Status]
         /\ \A s \in Source : row[s] = "ARCHIVED" => row'[s] = "ARCHIVED"
<1>1. /\ ask[r].op \in Op /\ ask[r].source \in Source /\ active
      /\ row \in [Source -> Status]
  BY DEF Change, AccessInv, AccessTypeOK
<1>2. \A s \in Source :
        /\ Updated(ask[r].op, s) \in Status
        /\ row[s] = "ARCHIVED" => Updated(ask[r].op, s) = "ARCHIVED"
  BY <1>1 DEF Updated, Updatable, Op, Status
<1> QED
  BY <1>1, <1>2 DEF Change

\* What administrators do leaves connections alone.
LEMMA AdminKeeps ==
  ASSUME AccessInv, AdminNext
  PROVE  AccessInv' /\ UNCHANGED <<conn, live>>
<1>1. ASSUME NEW r \in Admin, NEW op \in Op, NEW s \in Source, Ask(r, op, s)
      PROVE  AccessInv' /\ UNCHANGED <<conn, live>>
  <2>1. requests' \in 0 .. MaxRequests
    BY <1>1, SourceAccessAssumption DEF SourceAccessAssumption, Ask, AccessInv, AccessTypeOK
  <2> QED
    BY <1>1, <2>1 DEF Ask, AccessInv, AccessTypeOK, SessionsEnd, Verified
<1>2. ASSUME NEW r \in Admin, RequireWorkspace(r)
      PROVE  AccessInv' /\ UNCHANGED <<conn, live>>
  <2>1. CASE active
    BY <1>2, <2>1 DEF RequireWorkspace, AccessInv, AccessTypeOK, SessionsEnd, Verified
  <2>2. CASE ~active
    BY <1>2, <2>2 DEF RequireWorkspace, AccessInv, AccessTypeOK, SessionsEnd, Verified
  <2> QED
    BY <2>1, <2>2
<1>3. ASSUME NEW r \in Admin, Change(r)
      PROVE  AccessInv' /\ UNCHANGED <<conn, live>>
  <2>1. row' \in [Source -> Status]
    BY <1>3, ChangeIsAllowed
  <2> QED
    BY <1>3, <2>1 DEF Change, AccessInv, AccessTypeOK, SessionsEnd, Verified
<1>4. ASSUME ArchiveWorkspace PROVE AccessInv' /\ UNCHANGED <<conn, live>>
  <2>1. requests' \in 0 .. MaxRequests
    BY <1>4, SourceAccessAssumption
    DEF SourceAccessAssumption, ArchiveWorkspace, AccessInv, AccessTypeOK
  <2> QED
    BY <1>4, <2>1 DEF ArchiveWorkspace, Unshared, AccessInv, AccessTypeOK, SessionsEnd, Verified
<1> QED
  BY <1>1, <1>2, <1>3, <1>4 DEF AdminNext

LEMMA OpenKeeps ==
  ASSUME AccessInv, NEW c \in Caller, NEW s \in Source, RequireSource(c, s),
         requests' \in 0 .. MaxRequests
  PROVE  AccessInv' /\ conn'[c] # None /\ conn'[c] = Built(s)
<1>1. Built(s) \in Connector
  BY DEF Built, Connector
<1>2. conn' = [conn EXCEPT ![c] = Built(s)] /\ UNCHANGED <<active, row, ask, live>>
  BY DEF RequireSource
<1> QED
  BY <1>1, <1>2, ConnectorAssumption
  DEF ConnectorAssumption, AccessInv, AccessTypeOK, SessionsEnd, Verified, Built

LEMMA ConnectKeeps ==
  ASSUME AccessInv, NEW c \in Caller, Connect(c)
  PROVE  /\ AccessInv'
         /\ conn'[c] # None /\ conn'[c].source = conn[c].source
         /\ conn'[c].at \in {"open", "failed"}
         /\ \A d \in Caller : d # c => conn'[d] = conn[d]
<1>1. conn[c] \in Connector /\ conn[c].at = "built"
  BY DEF Connect, AccessInv, AccessTypeOK
<1>2. Verified(conn[c].source) \in BOOLEAN
  BY DEF Verified
<1>3. CASE /\ conn' = [conn EXCEPT ![c].at = "open", ![c].readOnly = Verified(conn[c].source)]
           /\ live' = live \cup {c}
  <2> DEFINE new == [conn[c] EXCEPT !.at = "open", !.readOnly = Verified(conn[c].source)]
  <2>1. conn' = [conn EXCEPT ![c] = new]
    BY <1>3
  <2>2. /\ new \in Connector /\ new # None
        /\ new.source = conn[c].source /\ new.at = "open"
        /\ new.readOnly = Verified(conn[c].source)
    BY <1>1, <1>2, ConnectorAssumption DEF ConnectorAssumption, Connector
  <2> HIDE DEF new
  <2>3. conn'[c] = new /\ \A d \in Caller : d # c => conn'[d] = conn[d]
    BY <2>1 DEF AccessInv, AccessTypeOK
  <2>4. UNCHANGED <<active, row, ask, requests>>
    BY DEF Connect
  <2>5. AccessTypeOK'
    BY <1>3, <2>1, <2>2, <2>4 DEF AccessInv, AccessTypeOK
  <2>6. SessionsEnd'
    BY <1>3, <2>2, <2>3 DEF AccessInv, AccessTypeOK, SessionsEnd
  <2>7. \A d \in Caller : conn'[d] # None /\ conn'[d].at \in {"open", "done"} =>
          conn'[d].readOnly = Verified(conn'[d].source)
    BY <2>2, <2>3 DEF AccessInv, Verified
  <2> QED
    BY <2>2, <2>3, <2>4, <2>5, <2>6, <2>7 DEF AccessInv, Verified
<1>4. CASE conn' = [conn EXCEPT ![c].at = "failed"] /\ UNCHANGED live
  <2> DEFINE new == [conn[c] EXCEPT !.at = "failed"]
  <2>1. conn' = [conn EXCEPT ![c] = new]
    BY <1>4
  <2>2. new \in Connector /\ new # None /\ new.source = conn[c].source /\ new.at = "failed"
    BY <1>1, ConnectorAssumption DEF ConnectorAssumption, Connector
  <2> HIDE DEF new
  <2> QED
    BY <1>4, <2>1, <2>2 DEF Connect, AccessInv, AccessTypeOK, SessionsEnd, Verified
<1> QED
  BY <1>3, <1>4 DEF Connect

LEMMA CloseKeeps ==
  ASSUME AccessInv, NEW c \in Caller, Close(c)
  PROVE  AccessInv' /\ conn'[c] = None /\ \A d \in Caller : d # c => conn'[d] = conn[d]
  BY DEF Close, AccessInv, AccessTypeOK, SessionsEnd, Verified

\* A test has a connection of its own.
LEMMA TestKeeps ==
  ASSUME AccessInv, NEW c \in Caller, TestNext(c)
  PROVE  AccessInv' /\ \A d \in Caller : d # c => conn'[d] = conn[d]
<1>1. CASE TestConnection(c)
  <2>1. PICK s \in Source : RequireSource(c, s)
    BY <1>1 DEF TestConnection
  <2>2. requests' \in 0 .. MaxRequests
    BY <1>1, SourceAccessAssumption
    DEF SourceAccessAssumption, TestConnection, AccessInv, AccessTypeOK
  <2>3. AccessInv'
    BY <2>1, <2>2, OpenKeeps
  <2> QED
    BY <2>1, <2>3 DEF RequireSource, AccessInv, AccessTypeOK
<1>2. CASE Connect(c)
  BY <1>2, ConnectKeeps
<1>3. CASE EndTest(c)
  BY <1>3, CloseKeeps DEF EndTest
<1> QED
  BY <1>1, <1>2, <1>3 DEF TestNext

-----------------------------------------------------------------------------
(* The graph *)

LEMMA BudgetIsPositive == Budget \in Nat \ {0}
  BY SqlPipelineAssumption DEF SqlPipelineAssumption, Budget

\* Appending is all that happens to the attempts.
LEMMA Appended ==
  ASSUME NEW s \in Seq(Attempt), NEW a \in Attempt
  PROVE  /\ Append(s, a) \in Seq(Attempt)
         /\ Len(Append(s, a)) = Len(s) + 1
         /\ Append(s, a)[Len(s) + 1] = a
         /\ \A k \in 1 .. Len(s) : Append(s, a)[k] = s[k]
  OBVIOUS

LEMMA InitInv == Init => IInv
<1> SUFFICES ASSUME Init PROVE IInv
  OBVIOUS
<1>1. AccessInv
  BY SourceAccessAssumption
  DEF SourceAccessAssumption, Init, AccessInit, AccessInv, AccessTypeOK, SessionsEnd, Status
<1>2. attempts = <<>> /\ log = <<>> /\ Len(attempts) = 0 /\ Len(log) = 0
  BY DEF Init
<1>3. TypeOK
  <2>1. current \in Attempt
    BY DEF Init, Fresh, Attempt
  <2>2. attempts \in Seq(Attempt) /\ log \in Seq(Attempt)
    BY <1>2
  <2> QED
    BY <1>1, <2>1, <2>2 DEF Init, TypeOK, Node, Stage, LastTry, AccessInv
<1>4. ConnInv
  BY SqlPipelineAssumption DEF SqlPipelineAssumption, Init, AccessInit, ConnInv
<1>5. NodeInv
  BY <1>2, BudgetIsPositive DEF Init, NodeInv, Node, Fresh
<1>6. AttemptsAreLogged
  BY <1>2, BudgetIsPositive DEF Init, AttemptsAreLogged
<1> QED
  BY <1>1, <1>3, <1>4, <1>5, <1>6 DEF Init, IInv, ExecutedInv

\* A stage that neither connects nor ends the attempt.
LEMMA StageMoves ==
  ASSUME IInv, node \in Node, conn[Executor] = None, current.status # "SUCCESS",
         node' \in Node, current' \in Attempt, current'.status # "SUCCESS",
         error' \in {"none", "silent", "text"}, stage' \in Stage, tries' \in 0 .. LastTry,
         node' \in {"parse_sql", "validate_sql", "guard_sql", "execute_sql"} => error' # "text",
         UNCHANGED <<target, attempts, result, log, executed, granted, accessVars>>
  PROVE  IInv'
<1>0. UNCHANGED <<active, row, ask, requests, conn, live>>
  BY DEF accessVars
<1>1. AccessInv'
  BY AccessStays DEF IInv
<1>2. TypeOK'
  BY <1>1 DEF IInv, TypeOK, AccessInv
<1>3. ConnInv'
  BY <1>0 DEF ConnInv
<1>4. NodeInv'
  BY DEF IInv, NodeInv, Budget
<1>5. ExecutedInv'
  BY DEF IInv, ExecutedInv, Bounded, Guarded
<1>6. AttemptsAreLogged'
  BY DEF IInv, AttemptsAreLogged, Node, Budget
<1> QED
  BY <1>1, <1>2, <1>3, <1>4, <1>5, <1>6 DEF IInv

\* The stages before the execution have no connector and no success yet.
LEMMA BeforeExecution ==
  ASSUME IInv, node \in Node, node # "persist_attempt"
  PROVE  /\ current.status # "SUCCESS" /\ result = "none"
         /\ node # "execute_sql" => conn[Executor] = None
  BY DEF IInv, NodeInv, ConnInv

LEMMA GenerateSqlInv == IInv /\ GenerateSql => IInv'
<1> SUFFICES ASSUME IInv, GenerateSql PROVE IInv'
  OBVIOUS
<1>1. node \in Node /\ node = "generate_sql"
  BY DEF GenerateSql, Node
<1>2. current' \in Attempt /\ current'.status # "SUCCESS"
  BY DEF GenerateSql, Fresh, Attempt
<1>3. node' \in Node /\ (node' = "generate_sql" \/ node' = "describe_sql_error" \/ error' # "text")
  BY <1>1 DEF GenerateSql, Continue, Node
<1>4. error' \in {"none", "silent", "text"} /\ stage' \in Stage
  BY DEF GenerateSql, Raised, Stage
<1>5. tries' \in 0 .. LastTry
  BY DEF GenerateSql, AskAgain, LastTry, IInv, TypeOK
<1> QED
  BY <1>1, <1>2, <1>3, <1>4, <1>5, BeforeExecution, StageMoves DEF GenerateSql

LEMMA CheckInv ==
  ASSUME IInv, NEW this \in {"parse_sql", "validate_sql", "guard_sql"}, NEW name \in Stage,
         NEW good, NEW next \in Node, Check(this, name, good, next)
  PROVE  IInv'
<1>1. node \in Node /\ node # "persist_attempt" /\ node # "execute_sql"
  BY DEF Check, Node
<1>2. node' \in Node /\ (node' = "describe_sql_error" \/ error' # "text")
  BY DEF Check, Continue, Node
<1>3. error' \in {"none", "silent", "text"}
  BY DEF Check, IInv, TypeOK
<1>4. tries' \in 0 .. LastTry /\ current' \in Attempt
  BY DEF Check, IInv, TypeOK
<1> QED
  BY <1>1, <1>2, <1>3, <1>4, BeforeExecution, StageMoves DEF Check

LEMMA RefuseSqlInv == IInv /\ RefuseSql => IInv'
<1> SUFFICES ASSUME IInv, RefuseSql PROVE IInv'
  OBVIOUS
<1>1. node \in Node /\ node = "execute_sql" /\ conn[Executor] = None
  BY DEF RefuseSql, Node
<1>2. node' \in Node /\ node' \in {"describe_sql_error", "persist_attempt"}
  BY DEF RefuseSql, Continue, Node
<1>3. error' \in {"none", "silent", "text"} /\ stage' \in Stage
  BY DEF RefuseSql, Raised, Stage
<1>4. tries' \in 0 .. LastTry /\ current' \in Attempt
  BY DEF RefuseSql, IInv, TypeOK
<1> QED
  BY <1>1, <1>2, <1>3, <1>4, BeforeExecution, StageMoves DEF RefuseSql

LEMMA DescribeSqlErrorInv == IInv /\ DescribeSqlError => IInv'
<1> SUFFICES ASSUME IInv, DescribeSqlError PROVE IInv'
  OBVIOUS
<1>1. node \in Node /\ node = "describe_sql_error"
  BY DEF DescribeSqlError, Node
<1>2. current' \in Attempt /\ current'.status # "SUCCESS"
  <2>1. CASE UNCHANGED current
    BY <1>1, <2>1, BeforeExecution DEF IInv, TypeOK
  <2>2. CASE current' = [current EXCEPT !.status = stage]
    BY <2>2 DEF IInv, TypeOK, Attempt, Stage
  <2> QED
    BY <2>1, <2>2 DEF DescribeSqlError
<1>3. node' \in Node /\ node' \in {"describe_sql_error", "persist_attempt"}
  BY <1>1 DEF DescribeSqlError, Node
<1>4. error' \in {"none", "silent", "text"} /\ stage' \in Stage
  BY DEF DescribeSqlError, IInv, TypeOK
<1>5. tries' \in 0 .. LastTry
  BY DEF DescribeSqlError, AskAgain, LastTry, IInv, TypeOK
<1> QED
  BY <1>1, <1>2, <1>3, <1>4, <1>5, BeforeExecution, StageMoves DEF DescribeSqlError

\* A query that the guard lets through is one of the model's answers.
LEMMA BoundedIsQuery == \A q : Bounded(q) => q \in Query
  BY SqlPipelineAssumption DEF SqlPipelineAssumption, Bounded, Guarded

LEMMA AttemptIsInBudget == IInv /\ node \in Node => AttemptNo \in 1 .. Budget
<1> SUFFICES ASSUME IInv, node \in Node PROVE AttemptNo \in 1 .. Budget
  OBVIOUS
<1>1. Len(attempts) \in Nat /\ Len(attempts) < Budget
  BY DEF IInv, TypeOK, NodeInv
<1> QED
  BY <1>1, BudgetIsPositive DEF AttemptNo

\* A step of the execution that leaves the attempt and the results as they are.
LEMMA ExecutionMoves ==
  ASSUME IInv, node = "execute_sql", AccessInv',
         UNCHANGED <<node, current, error, tries, target, attempts, result, log>>,
         stage' \in Stage, executed \subseteq executed', granted \subseteq granted',
         executed' \subseteq [sql : Query, attempt : 1 .. Budget, readOnly : BOOLEAN],
         granted' \subseteq 1 .. Budget,
         ExecutedInv', ConnInv'
  PROVE  IInv'
<1>1. TypeOK'
  BY DEF IInv, TypeOK, AccessInv, Budget
<1>2. NodeInv'
  BY DEF IInv, NodeInv, Node, Ran, AttemptNo, Budget
<1>3. AttemptsAreLogged'
  <2>1. \A k \in 1 .. Len(attempts) : attempts[k].status # "SUCCESS"
    BY DEF IInv, NodeInv, Node
  <2> QED
    BY <2>1 DEF IInv, AttemptsAreLogged, Budget
<1> QED
  BY <1>1, <1>2, <1>3 DEF IInv

LEMMA OpenSourceInv == IInv /\ OpenSource => IInv'
<1> SUFFICES ASSUME IInv, OpenSource PROVE IInv'
  OBVIOUS
<1>0. Executor \in Caller /\ target \in Source
  BY SqlPipelineAssumption DEF SqlPipelineAssumption, IInv, TypeOK
<1>1. /\ node = "execute_sql" /\ Bounded(current.sql) /\ stage' \in Stage
      /\ RequireSource(Executor, target) /\ UNCHANGED requests
      /\ UNCHANGED <<node, current, error, tries, target, attempts, result, log, executed>>
  BY DEF OpenSource, Stage
<1>2. AccessInv' /\ conn'[Executor] # None /\ conn'[Executor] = Built(target)
  <2>1. requests' \in 0 .. MaxRequests
    BY <1>1 DEF IInv, AccessInv, AccessTypeOK
  <2> QED
    BY <1>0, <1>1, <2>1, OpenKeeps DEF IInv
<1>3. AttemptNo \in 1 .. Budget
  BY <1>1, AttemptIsInBudget DEF Node
<1>4. granted' = granted \cup {AttemptNo}
  BY <1>1 DEF OpenSource, RequireSource, Usable
<1>5. granted' \subseteq 1 .. Budget
  BY <1>3, <1>4 DEF IInv, TypeOK
<1>6. ConnInv'
  BY <1>1, <1>2, <1>4 DEF ConnInv, Built, AttemptNo, Bounded, Guarded
<1>7. ExecutedInv'
  BY <1>1, <1>4 DEF IInv, ExecutedInv, Bounded, Guarded
<1>8. executed' \subseteq [sql : Query, attempt : 1 .. Budget, readOnly : BOOLEAN]
  BY <1>1 DEF IInv, TypeOK
<1> QED
  BY <1>1, <1>2, <1>4, <1>5, <1>6, <1>7, <1>8, ExecutionMoves

LEMMA ConnectSourceInv == IInv /\ ConnectSource => IInv'
<1> SUFFICES ASSUME IInv, ConnectSource PROVE IInv'
  OBVIOUS
<1>0. Executor \in Caller
  BY SqlPipelineAssumption DEF SqlPipelineAssumption
<1>1. /\ node = "execute_sql" /\ Connect(Executor) /\ conn[Executor] # None
      /\ UNCHANGED <<node, current, error, stage, tries, target, attempts, result, log,
                     executed, granted>>
  BY DEF ConnectSource, graphVars, Connect
<1>2. /\ AccessInv'
      /\ conn'[Executor].source = conn[Executor].source
      /\ conn'[Executor].at \in {"open", "failed"}
  BY <1>0, <1>1, ConnectKeeps DEF IInv
<1>3. ConnInv'
  BY <1>1, <1>2 DEF IInv, ConnInv, AttemptNo, Bounded, Guarded
<1>4. ExecutedInv'
  BY <1>1 DEF IInv, ExecutedInv, Bounded, Guarded
<1>5. /\ executed' \subseteq [sql : Query, attempt : 1 .. Budget, readOnly : BOOLEAN]
      /\ granted' \subseteq 1 .. Budget /\ stage' \in Stage
  BY <1>1 DEF IInv, TypeOK
<1> QED
  BY <1>1, <1>2, <1>3, <1>4, <1>5, ExecutionMoves

LEMMA RunQueryInv == IInv /\ RunQuery => IInv'
<1> SUFFICES ASSUME IInv, RunQuery PROVE IInv'
  OBVIOUS
<1>0. Executor \in Caller
  BY SqlPipelineAssumption DEF SqlPipelineAssumption
<1>1. /\ node = "execute_sql" /\ conn[Executor] # None /\ conn[Executor].at = "open"
      /\ conn[Executor] \in Connector /\ conn \in [Caller -> Connector \cup {None}]
      /\ UNCHANGED <<node, current, error, stage, tries, target, attempts, result, log,
                     granted, active, row, ask, requests, live>>
  BY <1>0 DEF RunQuery, IInv, AccessInv, AccessTypeOK
<1>2. /\ Bounded(current.sql) /\ conn[Executor].source = target /\ AttemptNo \in granted
      /\ conn[Executor].readOnly = Verified(target)
  BY <1>0, <1>1 DEF IInv, ConnInv, AccessInv
<1>3. /\ Sent.sql = current.sql /\ Sent.attempt = AttemptNo /\ Sent.readOnly = Verified(target)
      /\ Sent \in [sql : Query, attempt : 1 .. Budget, readOnly : BOOLEAN]
  BY <1>1, <1>2, BoundedIsQuery, AttemptIsInBudget DEF Sent, Node, Verified
<1>4. PICK at \in {"done", "failed"} :
        /\ conn' = [conn EXCEPT ![Executor].at = at]
        /\ executed' \in {executed, executed \cup {Sent}}
        /\ at = "done" => executed' = executed \cup {Sent}
  BY DEF RunQuery
<1> DEFINE new == [conn[Executor] EXCEPT !.at = at]
<1>5. conn' = [conn EXCEPT ![Executor] = new]
  BY <1>4
<1>6. /\ new \in Connector /\ new # None /\ new.source = target /\ new.at = at
      /\ new.readOnly = Verified(target)
  BY <1>1, <1>2, ConnectorAssumption DEF ConnectorAssumption, Connector
<1> HIDE DEF new
<1>7. conn'[Executor] = new /\ \A c \in Caller : c # Executor => conn'[c] = conn[c]
  BY <1>0, <1>1, <1>5
<1>8. AccessInv'
  <2>1. AccessTypeOK'
    BY <1>1, <1>5, <1>6 DEF IInv, AccessInv, AccessTypeOK
  <2>2. SessionsEnd'
    BY <1>1, <1>6, <1>7 DEF IInv, AccessInv, AccessTypeOK, SessionsEnd
  <2>3. \A c \in Caller : conn'[c] # None /\ conn'[c].at \in {"open", "done"} =>
          conn'[c].readOnly = Verified(conn'[c].source)
    BY <1>6, <1>7 DEF IInv, AccessInv
  <2> QED
    BY <1>1, <2>1, <2>2, <2>3 DEF IInv, AccessInv, Verified
<1>9. ConnInv'
  <2>1. at = "done" => Ran'
    BY <1>1, <1>3, <1>4 DEF Ran, AttemptNo
  <2> QED
    BY <1>1, <1>2, <1>6, <1>7, <2>1 DEF ConnInv, AttemptNo, Bounded, Guarded
<1>10. ExecutedInv'
  BY <1>1, <1>2, <1>3, <1>4 DEF IInv, ExecutedInv, Bounded, Guarded, Verified
<1>11. /\ executed' \subseteq [sql : Query, attempt : 1 .. Budget, readOnly : BOOLEAN]
       /\ granted' \subseteq 1 .. Budget /\ stage' \in Stage
  BY <1>1, <1>3, <1>4 DEF IInv, TypeOK
<1> QED
  BY <1>1, <1>4, <1>8, <1>9, <1>10, <1>11, ExecutionMoves

LEMMA ExecuteSqlInv == IInv /\ ExecuteSql => IInv'
<1> SUFFICES ASSUME IInv, ExecuteSql PROVE IInv'
  OBVIOUS
<1>0. Executor \in Caller
  BY SqlPipelineAssumption DEF SqlPipelineAssumption
<1>1. /\ node = "execute_sql" /\ node \in Node /\ conn[Executor] # None /\ Close(Executor)
      /\ node' \in {"describe_sql_error", "persist_attempt"} /\ node' \in Node
      /\ UNCHANGED <<stage, tries, target, attempts, log, executed, granted>>
  BY DEF ExecuteSql, Continue, Node
<1>2. AccessInv' /\ conn'[Executor] = None
  BY <1>0, <1>1, CloseKeeps DEF IInv
<1>3. /\ Len(attempts) < Budget
      /\ \A k \in 1 .. Len(attempts) : attempts[k].status # "SUCCESS"
      /\ current.status # "SUCCESS" /\ result = "none" /\ current \in Attempt
      /\ error # "text"
  BY <1>1, BeforeExecution DEF IInv, NodeInv, TypeOK
<1>4. CASE /\ conn[Executor].at = "done" /\ current' = [current EXCEPT !.status = "SUCCESS"]
           /\ result' = "SUCCESS" /\ UNCHANGED error
  <2>1. current' \in Attempt /\ current'.sql = current.sql /\ current'.status = "SUCCESS"
    BY <1>3, <1>4 DEF Attempt
  <2>2. node' = "persist_attempt"
    BY <1>1, <1>3, <1>4 DEF ExecuteSql, Continue
  <2>3. Ran'
    BY <1>1, <1>4, <2>1 DEF IInv, ConnInv, Ran, AttemptNo
  <2>4. TypeOK'
    BY <1>1, <1>2, <1>4, <2>1 DEF IInv, TypeOK, AccessInv, Budget
  <2>5. NodeInv'
    BY <1>1, <1>3, <1>4, <2>1, <2>2, <2>3 DEF NodeInv, Budget
  <2>6. AttemptsAreLogged'
    BY <1>1, <1>3 DEF IInv, AttemptsAreLogged, Node, Budget
  <2>7. ConnInv' /\ ExecutedInv'
    BY <1>1, <1>2 DEF IInv, ConnInv, ExecutedInv, Bounded, Guarded
  <2> QED
    BY <1>2, <2>4, <2>5, <2>6, <2>7 DEF IInv
<1>5. CASE error' \in Raised /\ UNCHANGED <<current, result>>
  <2>1. error' \in {"none", "silent", "text"}
    BY <1>5 DEF Raised
  <2>2. TypeOK'
    BY <1>1, <1>2, <1>5, <2>1 DEF IInv, TypeOK, AccessInv, Budget
  <2>3. NodeInv'
    BY <1>1, <1>3, <1>5 DEF NodeInv, Budget
  <2>4. AttemptsAreLogged'
    BY <1>1, <1>3 DEF IInv, AttemptsAreLogged, Node, Budget
  <2>5. ConnInv' /\ ExecutedInv'
    BY <1>1, <1>2 DEF IInv, ConnInv, ExecutedInv, Bounded, Guarded
  <2> QED
    BY <1>2, <2>2, <2>3, <2>4, <2>5 DEF IInv
<1> QED
  BY <1>4, <1>5 DEF ExecuteSql

LEMMA PersistAttemptInv == IInv /\ PersistAttempt => IInv'
<1> SUFFICES ASSUME IInv, PersistAttempt PROVE IInv'
  OBVIOUS
<1>1. /\ node = "persist_attempt" /\ node \in Node
      /\ log' = Append(log, current) /\ attempts' = Append(attempts, current)
      /\ result' = IF result = "none" /\ Len(attempts') >= Budget THEN "EXHAUSTED" ELSE result
      /\ node' = IF result' = "none" THEN "generate_sql" ELSE "end"
      /\ UNCHANGED <<current, error, stage, tries, target, executed, granted, accessVars>>
  BY DEF PersistAttempt, Logged, Exhausted, Node
<1>2. /\ current \in Attempt /\ attempts \in Seq(Attempt) /\ log = attempts
      /\ Len(attempts) < Budget /\ Len(attempts) \in Nat /\ Budget \in Nat
      /\ \A k \in 1 .. Len(attempts) : attempts[k].status # "SUCCESS"
      /\ current.status = "SUCCESS" => result = "SUCCESS" /\ Ran
      /\ current.status # "SUCCESS" => result = "none"
  BY <1>1, BudgetIsPositive DEF IInv, TypeOK, NodeInv, AttemptsAreLogged, Node
<1>3. /\ attempts' \in Seq(Attempt) /\ log' = attempts'
      /\ Len(attempts') = Len(attempts) + 1 /\ Len(attempts') <= Budget
      /\ attempts'[Len(attempts) + 1] = current
      /\ \A k \in 1 .. Len(attempts) : attempts'[k] = attempts[k]
  BY <1>1, <1>2, Appended
<1>4. AccessInv'
  BY <1>1, AccessStays DEF IInv
<1>5. TypeOK'
  <2>1. node' \in {"generate_sql", "end"} /\ result' \in {"none", "SUCCESS", "EXHAUSTED"}
    BY <1>1, <1>2
  <2> QED
    BY <1>1, <1>3, <1>4, <2>1 DEF IInv, TypeOK, AccessInv, Node, Budget
<1>6. ConnInv'
  BY <1>1 DEF IInv, ConnInv, accessVars
<1>7. NodeInv'
  <2> SUFFICES ASSUME node' \in Node PROVE NodeInv'
    BY DEF NodeInv, Node
  <2>1. node' = "generate_sql" /\ result' = "none"
    BY <1>1 DEF Node
  <2>2. result = "none" /\ Len(attempts') < Budget /\ current.status # "SUCCESS"
    BY <1>1, <1>2, <1>3, <2>1
  <2>3. \A k \in 1 .. Len(attempts') : attempts'[k].status # "SUCCESS"
    BY <1>2, <1>3, <2>2
  <2> QED
    BY <1>1, <2>1, <2>2, <2>3 DEF NodeInv, Budget
<1>8. ExecutedInv'
  BY <1>1 DEF IInv, ExecutedInv, Bounded, Guarded
<1>9. AttemptsAreLogged'
  <2>1. \A k \in 1 .. Len(attempts') : attempts'[k].status = "SUCCESS" =>
          k = Len(attempts') /\ \E x \in executed' : x.attempt = k /\ x.sql = attempts'[k].sql
    <3> SUFFICES ASSUME NEW k \in 1 .. Len(attempts'), attempts'[k].status = "SUCCESS"
                 PROVE  k = Len(attempts')
                        /\ \E x \in executed' : x.attempt = k /\ x.sql = attempts'[k].sql
      OBVIOUS
    <3>1. k = Len(attempts) + 1
      BY <1>2, <1>3
    <3>2. attempts'[k] = current /\ Ran
      BY <1>2, <1>3, <3>1
    <3> QED
      BY <1>1, <1>3, <3>1, <3>2 DEF Ran, AttemptNo
  <2>2. result' = "SUCCESS" => attempts' # <<>> /\ attempts'[Len(attempts')].status = "SUCCESS"
    BY <1>1, <1>2, <1>3
  <2>3. result' = "EXHAUSTED" => Len(attempts') = Budget
    BY <1>1, <1>2, <1>3
  <2>4. node' = "end" => result' \in {"SUCCESS", "EXHAUSTED"}
    BY <1>1, <1>2
  <2> QED
    BY <1>3, <2>1, <2>2, <2>3, <2>4 DEF AttemptsAreLogged, Budget
<1> QED
  BY <1>4, <1>5, <1>6, <1>7, <1>8, <1>9 DEF IInv

LEMMA TraceFailsInv == IInv /\ TraceFails => IInv'
<1> SUFFICES ASSUME IInv, TraceFails PROVE IInv'
  OBVIOUS
<1>1. /\ node \in Node /\ conn[Executor] = None /\ node' = "raised"
      /\ log' = Append(log, current) \/ log' = log
      /\ UNCHANGED <<current, error, stage, tries, target, attempts, result, executed, granted,
                     accessVars>>
  BY DEF TraceFails, Logged
<1>2. /\ current \in Attempt /\ log \in Seq(Attempt) /\ log = attempts
      /\ Len(log) < Budget /\ Len(log) \in Nat /\ Budget \in Nat
  BY <1>1, BudgetIsPositive DEF IInv, TypeOK, NodeInv, AttemptsAreLogged, Node
<1>3. log' \in Seq(Attempt) /\ Len(log') <= Budget
  BY <1>1, <1>2, Appended
<1>4. AccessInv'
  BY <1>1, AccessStays DEF IInv
<1>5. TypeOK'
  BY <1>1, <1>3, <1>4 DEF IInv, TypeOK, AccessInv, Node, Budget
<1>6. ConnInv' /\ NodeInv' /\ ExecutedInv'
  BY <1>1 DEF IInv, ConnInv, NodeInv, ExecutedInv, Bounded, Guarded, accessVars, Node
<1>7. AttemptsAreLogged'
  BY <1>1, <1>3 DEF IInv, AttemptsAreLogged, Budget
<1> QED
  BY <1>4, <1>5, <1>6, <1>7 DEF IInv

\* What the other calls and the administrators do is nothing to the graph.
LEMMA OthersMove ==
  ASSUME IInv, AccessInv', conn'[Executor] = conn[Executor], UNCHANGED graphVars
  PROVE  IInv'
<1>1. UNCHANGED <<node, current, error, stage, tries, target, attempts, result, log, executed,
                  granted>>
  BY DEF graphVars
<1>2. TypeOK'
  BY <1>1 DEF IInv, TypeOK, AccessInv, Budget
<1>3. ConnInv'
  BY <1>1 DEF IInv, ConnInv, Ran, AttemptNo, Bounded, Guarded
<1>4. NodeInv'
  BY <1>1 DEF IInv, NodeInv, Ran, AttemptNo, Budget
<1>5. ExecutedInv' /\ AttemptsAreLogged'
  BY <1>1 DEF IInv, ExecutedInv, AttemptsAreLogged, Bounded, Guarded, Budget
<1> QED
  BY <1>2, <1>3, <1>4, <1>5 DEF IInv

LEMMA NextInv == IInv /\ [Next]_vars => IInv'
<1> SUFFICES ASSUME IInv, [Next]_vars PROVE IInv'
  OBVIOUS
<1>0. Executor \in Caller
  BY SqlPipelineAssumption DEF SqlPipelineAssumption
<1>1. CASE ParseSql \/ ValidateSql \/ GuardSql
  <2>1. ASSUME NEW this \in {"parse_sql", "validate_sql", "guard_sql"}, NEW name \in Stage,
               NEW good, NEW next \in Node, Check(this, name, good, next)
        PROVE  IInv'
    BY ONLY <2>1, CheckInv, IInv
  <2>2. /\ {"SQL_PARSE_FAILED", "SQL_VALIDATION_FAILED", "SQL_GUARD_FAILED"} \subseteq Stage
        /\ {"validate_sql", "guard_sql", "execute_sql"} \subseteq Node
    BY DEF Stage, Node
  <2> QED
    BY <1>1, <2>1, <2>2 DEF ParseSql, ValidateSql, GuardSql
<1>2. CASE AdminNext /\ UNCHANGED graphVars
  BY <1>2, AdminKeeps, OthersMove DEF IInv
<1>3. ASSUME NEW c \in Caller \ {Executor}, TestNext(c), UNCHANGED graphVars PROVE IInv'
  BY <1>0, <1>3, TestKeeps, OthersMove DEF IInv
<1>4. CASE UNCHANGED vars
  BY <1>4, AccessStays, OthersMove DEF IInv, vars, accessVars
<1>5. CASE GraphNext
  BY <1>1, <1>5, GenerateSqlInv, RefuseSqlInv, OpenSourceInv, ConnectSourceInv, RunQueryInv,
     ExecuteSqlInv, DescribeSqlErrorInv, PersistAttemptInv, TraceFailsInv DEF GraphNext
<1> QED
  BY <1>2, <1>3, <1>4, <1>5 DEF Next

LEMMA SpecInv == Spec => []IInv
  BY InitInv, NextInv, PTL DEF Spec

-----------------------------------------------------------------------------
(* Theorems *)

\* Every variable of the graph and of the sources stays in its type, the attempts
\* within their budget.
THEOREM TypeCorrect == Spec => []TypeOK
<1>1. IInv => TypeOK
  BY DEF IInv
<1> QED
  BY <1>1, SpecInv, PTL

\* Whatever the model answers and however the stages fail, the customer's database only
\* sees single read-only statements over the selected source.
THEOREM GuardedRuns == Spec => []OnlyGuardedRuns
<1>1. IInv => OnlyGuardedRuns
  BY DEF IInv, ExecutedInv, OnlyGuardedRuns, Bounded, Guarded
<1> QED
  BY <1>1, SpecInv, PTL

\* Each attempt that reaches the customer's database has itself found the source enabled,
\* over a session with the guarantee of its connector, and no session outlives its call:
\* for any number of administrators and other calls.
THEOREM SessionsAuthorised == Spec => []SessionsAreAuthorised
<1>1. IInv => SessionsAreAuthorised
  BY DEF IInv, ExecutedInv, SessionsAreAuthorised, AccessInv, SessionsEnd, ConnInv
<1> QED
  BY <1>1, SpecInv, PTL

\* The attempts of the result are those of the log and within one budget, for every
\* number of retries.
THEOREM AttemptsLogged == Spec => []AttemptsAreLogged
<1>1. IInv => AttemptsAreLogged
  BY DEF IInv
<1> QED
  BY <1>1, SpecInv, PTL

\* No request changes a source of an archived Workspace or revives an archived source,
\* whatever it had found out before.
THEOREM ArchivedFinal == Spec => ArchivedIsFinal
<1>1. IInv /\ [Next]_vars =>
        [/\ \A s \in Source : row[s] = "ARCHIVED" => row'[s] = "ARCHIVED"
         /\ ~active => row' = row]_accessVars
  <2> SUFFICES ASSUME IInv, [Next]_vars, ~ UNCHANGED accessVars
               PROVE  /\ \A s \in Source : row[s] = "ARCHIVED" => row'[s] = "ARCHIVED"
                      /\ ~active => row' = row
    OBVIOUS
  <2>1. \/ UNCHANGED row
        \/ \E r \in Admin : Change(r)
    BY DEF Next, GraphNext, GenerateSql, ParseSql, ValidateSql, GuardSql, Check, RefuseSql,
           OpenSource, ConnectSource, RunQuery, ExecuteSql, DescribeSqlError, PersistAttempt,
           TraceFails, AdminNext, Ask, RequireWorkspace, ArchiveWorkspace, TestNext,
           TestConnection, RequireSource, Connect, EndTest, Close, vars, accessVars
  <2> QED
    BY <2>1, ChangeIsAllowed DEF IInv
<1> QED
  BY <1>1, SpecInv, PTL DEF Spec, ArchivedIsFinal

-----------------------------------------------------------------------------
(* The end of the graph *)

\* How many steps the attempt under way can still take.
StepsOfAttempt ==
  CASE node = "generate_sql"       -> 13 + (LastTry - tries)
    [] node = "parse_sql"          -> 12
    [] node = "validate_sql"       -> 11
    [] node = "guard_sql"          -> 10
    [] node = "execute_sql"        -> IF conn[Executor] = None THEN 9
                                      ELSE IF conn[Executor].at = "built" THEN 8
                                      ELSE IF conn[Executor].at = "open" THEN 7 ELSE 6
    [] node = "describe_sql_error" -> 2 + (LastTry - tries)
    [] node = "persist_attempt"    -> 1
    [] OTHER                       -> 0

\* ... and the graph, on its budget.
StepsLeft == IF node \in Node THEN 15 * (Budget - AttemptNo) + StepsOfAttempt ELSE 0

\* A step of the graph leaves it fewer steps, one of another actor as many.
EachStepCounts ==
  [][IF GraphNext THEN StepsLeft' < StepsLeft ELSE StepsLeft' = StepsLeft]_vars

LEMMA StepsAreCounted ==
  ASSUME IInv
  PROVE  /\ node \in Node => /\ StepsOfAttempt \in 1 .. 15 /\ AttemptNo \in 1 .. Budget
                             /\ StepsLeft \in Nat /\ StepsLeft > 0
                             /\ StepsLeft = 15 * (Budget - AttemptNo) + StepsOfAttempt
         /\ node \notin Node => StepsLeft = 0
<1>1. CASE node \in Node
  <2>1. tries \in 0 .. 2 /\ LastTry = 2
    BY DEF IInv, TypeOK, LastTry
  <2>2. StepsOfAttempt \in 1 .. 15
    BY <1>1, <2>1 DEF StepsOfAttempt, Node
  <2>3. AttemptNo \in 1 .. Budget /\ Budget \in Nat
    BY <1>1, AttemptIsInBudget, BudgetIsPositive
  <2>4. StepsLeft = 15 * (Budget - AttemptNo) + StepsOfAttempt
    BY <1>1 DEF StepsLeft
  <2> QED
    BY <1>1, <2>2, <2>3, <2>4
<1>2. CASE node \notin Node
  BY <1>2 DEF StepsLeft
<1> QED
  BY <1>1, <1>2

\* A step within the attempt, or out of the graph.
LEMMA FewerOfAttempt ==
  ASSUME IInv, node \in Node, UNCHANGED attempts,
         node' \in Node => StepsOfAttempt' \in Nat /\ StepsOfAttempt' < StepsOfAttempt
  PROVE  StepsLeft' < StepsLeft
<1>1. AttemptNo' = AttemptNo /\ Budget' = Budget /\ Node' = Node
  BY DEF AttemptNo, Budget, Node
<1>2. /\ StepsOfAttempt \in 1 .. 15 /\ AttemptNo \in 1 .. Budget /\ StepsLeft > 0
      /\ StepsLeft = 15 * (Budget - AttemptNo) + StepsOfAttempt
  BY StepsAreCounted
<1>3. StepsLeft' = IF node' \in Node THEN 15 * (Budget - AttemptNo) + StepsOfAttempt' ELSE 0
  BY <1>1 DEF StepsLeft
<1>4. Budget \in Nat
  BY BudgetIsPositive
<1> QED
  BY <1>2, <1>3, <1>4

\* A stage, or the description of a failure, asks again or goes on to a later node.
LEMMA StageCounts ==
  ASSUME IInv, UNCHANGED attempts, UNCHANGED conn, tries' \in 0 .. 2,
         \/ node = "generate_sql" /\ node' = "generate_sql" /\ tries < tries'
         \/ node = "generate_sql" /\ node' \in {"parse_sql", "describe_sql_error"}
         \/ node = "parse_sql" /\ node' \in {"validate_sql", "describe_sql_error"}
         \/ node = "validate_sql" /\ node' \in {"guard_sql", "describe_sql_error"}
         \/ node = "guard_sql" /\ node' \in {"execute_sql", "describe_sql_error"}
         \/ node = "execute_sql" /\ node' \in {"persist_attempt", "describe_sql_error"}
         \/ node = "describe_sql_error" /\ node' = "describe_sql_error" /\ tries < tries'
         \/ node = "describe_sql_error" /\ node' = "persist_attempt"
  PROVE  StepsLeft' < StepsLeft
<1>1. tries \in 0 .. 2 /\ LastTry = 2 /\ LastTry' = 2
  BY DEF IInv, TypeOK, LastTry
<1>2. node \in Node
  BY DEF Node
<1>3. StepsOfAttempt' \in Nat /\ StepsOfAttempt' < StepsOfAttempt
  BY <1>1 DEF StepsOfAttempt
<1> QED
  BY <1>2, <1>3, FewerOfAttempt

LEMMA GraphCounts ==
  ASSUME IInv, IInv', GraphNext
  PROVE  StepsLeft' < StepsLeft
<1>0. tries' \in 0 .. 2 /\ Executor \in Caller
  BY SqlPipelineAssumption DEF SqlPipelineAssumption, IInv, TypeOK, LastTry
<1>1. CASE GenerateSql
  <2>1. UNCHANGED <<attempts, conn>>
    BY <1>1 DEF GenerateSql, accessVars
  <2> QED
    BY <1>0, <1>1, <2>1, StageCounts DEF GenerateSql, AskAgain, Continue, IInv, TypeOK, LastTry
<1>2. ASSUME NEW this, NEW name, NEW good, NEW next, Check(this, name, good, next)
      PROVE  node = this /\ node' \in {next, "describe_sql_error"} /\ UNCHANGED <<attempts, conn>>
  BY <1>2 DEF Check, Continue, accessVars
<1>3. CASE ParseSql \/ ValidateSql \/ GuardSql
  BY <1>0, <1>2, <1>3, StageCounts DEF ParseSql, ValidateSql, GuardSql
<1>4. CASE RefuseSql
  BY <1>0, <1>4, StageCounts DEF RefuseSql, Continue, accessVars
<1>5. CASE OpenSource
  <2>1. node = "execute_sql" /\ UNCHANGED <<attempts, node>> /\ conn[Executor] = None
    BY <1>5 DEF OpenSource, RequireSource
  <2>2. conn'[Executor] # None /\ conn'[Executor].at = "built"
    <3>1. RequireSource(Executor, target) /\ target \in Source /\ requests' \in 0 .. MaxRequests
      BY <1>5 DEF OpenSource, IInv, TypeOK, AccessInv, AccessTypeOK
    <3>2. conn'[Executor] # None /\ conn'[Executor] = Built(target)
      BY <1>0, <3>1, OpenKeeps DEF IInv
    <3> QED
      BY <3>2 DEF Built
  <2>3. StepsOfAttempt = 9 /\ StepsOfAttempt' = 8 /\ node \in Node
    BY <2>1, <2>2 DEF StepsOfAttempt, Node
  <2> QED
    BY <2>1, <2>3, FewerOfAttempt
<1>6. CASE ConnectSource
  <2>1. /\ node = "execute_sql" /\ UNCHANGED <<attempts, node>>
        /\ conn[Executor] # None /\ conn[Executor].at = "built"
    BY <1>6 DEF ConnectSource, Connect, graphVars
  <2>2. conn'[Executor] # None /\ conn'[Executor].at \in {"open", "failed"}
    BY <1>0, <1>6, ConnectKeeps DEF ConnectSource, IInv
  <2>3. StepsOfAttempt = 8 /\ StepsOfAttempt' \in {6, 7} /\ node \in Node
    BY <2>1, <2>2 DEF StepsOfAttempt, Node
  <2> QED
    BY <2>1, <2>3, FewerOfAttempt
<1>7. CASE RunQuery
  <2>1. /\ node = "execute_sql" /\ UNCHANGED <<attempts, node>>
        /\ conn[Executor] # None /\ conn[Executor].at = "open"
    BY <1>7 DEF RunQuery
  <2>2. conn'[Executor] # None /\ conn'[Executor].at \in {"done", "failed"}
    <3>1. conn \in [Caller -> Connector \cup {None}] /\ conn[Executor] \in Connector
      BY <1>0, <2>1 DEF IInv, TypeOK, AccessTypeOK
    <3>2. PICK at \in {"done", "failed"} : conn' = [conn EXCEPT ![Executor].at = at]
      BY <1>7 DEF RunQuery
    <3>3. conn'[Executor] = [conn[Executor] EXCEPT !.at = at]
      BY <1>0, <3>1, <3>2
    <3>4. [conn[Executor] EXCEPT !.at = at] \in Connector /\ [conn[Executor] EXCEPT !.at = at].at = at
      BY <3>1 DEF Connector
    <3> QED
      BY <3>3, <3>4, ConnectorAssumption
  <2>3. StepsOfAttempt = 7 /\ StepsOfAttempt' = 6 /\ node \in Node
    BY <2>1, <2>2 DEF StepsOfAttempt, Node
  <2> QED
    BY <2>1, <2>3, FewerOfAttempt
<1>8. CASE ExecuteSql
  <2>1. /\ node = "execute_sql" /\ UNCHANGED attempts
        /\ conn[Executor] # None /\ conn[Executor].at \in {"done", "failed"}
        /\ node' \in {"persist_attempt", "describe_sql_error"}
    BY <1>8 DEF ExecuteSql, Continue
  <2>2. tries' \in 0 .. 2 /\ LastTry' = 2
    BY <1>0 DEF LastTry
  <2>3. StepsOfAttempt = 6 /\ StepsOfAttempt' \in 1 .. 4 /\ node \in Node
    BY <2>1, <2>2 DEF StepsOfAttempt, Node
  <2> QED
    BY <2>1, <2>3, FewerOfAttempt
<1>9. CASE DescribeSqlError
  <2>1. UNCHANGED <<attempts, conn>>
    BY <1>9 DEF DescribeSqlError, accessVars
  <2> QED
    BY <1>0, <1>9, <2>1, StageCounts DEF DescribeSqlError, AskAgain, IInv, TypeOK, LastTry
<1>10. CASE PersistAttempt
  <2>1. /\ node = "persist_attempt" /\ node' \in {"generate_sql", "end"}
        /\ AttemptNo' = AttemptNo + 1
    BY <1>10, Appended DEF PersistAttempt, AttemptNo, IInv, TypeOK
  <2>2. StepsOfAttempt = 1 /\ (node' = "generate_sql" => StepsOfAttempt' \in 13 .. 15)
    BY <1>0, <2>1 DEF StepsOfAttempt, Node, LastTry
  <2>3. StepsLeft = 15 * (Budget - AttemptNo) + 1 /\ AttemptNo \in 1 .. Budget /\ StepsLeft > 0
    <3>1. node \in Node
      BY <2>1 DEF Node
    <3> QED
      BY <2>2, <3>1, StepsAreCounted
  <2>4. StepsLeft' = IF node' = "generate_sql" THEN 15 * (Budget - (AttemptNo + 1)) + StepsOfAttempt' ELSE 0
    BY <2>1 DEF StepsLeft, Node, Budget
  <2> QED
    BY <2>1, <2>2, <2>3, <2>4, BudgetIsPositive
<1>11. CASE TraceFails
  BY <1>11, FewerOfAttempt DEF TraceFails, Node
<1> QED
  BY <1>1, <1>3, <1>4, <1>5, <1>6, <1>7, <1>8, <1>9, <1>10, <1>11 DEF GraphNext

\* Each step of the graph leaves it fewer steps to take, and no other actor adds any: so it
\* takes 15 per attempt of its budget at most, whatever the model and the sources answer.
\* Terminates asks for fairness only that it takes them.
THEOREM GraphIsBounded == Spec => [](StepsLeft \in 0 .. 15 * Budget) /\ EachStepCounts
<1>1. IInv => StepsLeft \in 0 .. 15 * Budget
  BY StepsAreCounted, BudgetIsPositive
<1>2. IInv /\ IInv' /\ [Next]_vars =>
        [IF GraphNext THEN StepsLeft' < StepsLeft ELSE StepsLeft' = StepsLeft]_vars
  <2> SUFFICES ASSUME IInv, IInv', Next, ~ GraphNext PROVE StepsLeft' = StepsLeft
    BY GraphCounts
  <2>1. UNCHANGED graphVars /\ conn'[Executor] = conn[Executor]
    <3>1. CASE AdminNext
      BY <3>1 DEF Next, AdminNext, Ask, RequireWorkspace, Change, ArchiveWorkspace
    <3>2. ASSUME NEW c \in Caller \ {Executor}, TestNext(c)
          PROVE  conn'[Executor] = conn[Executor]
      BY <3>2, SqlPipelineAssumption
      DEF TestNext, TestConnection, RequireSource, Connect, EndTest, Close, IInv, TypeOK, AccessTypeOK
    <3> QED
      BY <3>1, <3>2 DEF Next
  <2> QED
    BY <2>1 DEF graphVars, StepsLeft, StepsOfAttempt, AttemptNo, Budget, Node, LastTry
<1> QED
  BY <1>1, <1>2, SpecInv, PTL DEF Spec, EachStepCounts
=============================================================================
