---------------------------- MODULE SourceAccess ----------------------------
(***************************************************************************)
(* The sources of one Workspace: the requests of its administrators, and   *)
(* the connections that tests, grounding and SQL execution open to them.   *)
(*                                                                         *)
(* Every mutator of a source first takes the Workspace's row FOR SHARE and *)
(* finds it ACTIVE, and archiving the Workspace waits for those that hold  *)
(* it.  A connection is opened for one call, from a row read for it, and   *)
(* the row may change while the call goes on.                              *)
(***************************************************************************)
EXTENDS Naturals

CONSTANTS Source,       \* sources of the Workspace
          Enforcing,    \* those whose connect() makes the session read-only, or proves
                        \* that its credentials are: all but Snowflake
          Caller,       \* calls that may have a connection
          Admin,        \* requests of administrators being served at once
          None,
          MaxRequests   \* bound: requests of administrators

ASSUME SourceAccessAssumption ==
  /\ Enforcing \subseteq Source
  /\ None \notin Source
  /\ MaxRequests \in Nat

VARIABLES
  active,     \* workspace.status = 'ACTIVE'
  row,        \* cce_source: whether it is there, enabled, archived
  ask,        \* what an administrator's request is about and how far it is
  requests,   \* counter
  conn,       \* a call's connector: the source it is of and where it stands
  live        \* the calls with a session at the customer's server

accessVars == <<active, row, ask, requests, conn, live>>

Status    == {"ABSENT", "ENABLED", "DISABLED", "ARCHIVED"}
Op        == {"register", "enable", "disable", "archive"}
Connector == [source : Source, at : {"built", "open", "done", "failed"}, readOnly : BOOLEAN]

ASSUME ConnectorAssumption == None \notin Connector

AccessTypeOK ==
  /\ active \in BOOLEAN
  /\ row \in [Source -> Status]
  /\ ask \in [Admin -> [op : Op, source : Source, at : {"checked", "locked"}] \cup {None}]
  /\ requests \in 0 .. MaxRequests
  /\ conn \in [Caller -> Connector \cup {None}]
  /\ live \subseteq Caller

AccessInit ==
  /\ active = TRUE
  /\ row \in [Source -> {"ABSENT", "ENABLED"}]
  /\ ask = [r \in Admin |-> None]
  /\ requests = 0
  /\ conn = [c \in Caller |-> None]
  /\ live = {}

-----------------------------------------------------------------------------
(* Administration *)

\* Operations.execute finds the Workspace active and, to register a source, its
\* config valid.
Ask(r, op, s) ==
  /\ ask[r] = None /\ requests < MaxRequests
  /\ active
  /\ op = "register" <=> row[s] = "ABSENT"
  /\ ask' = [ask EXCEPT ![r] = [op |-> op, source |-> s, at |-> "checked"]]
  /\ requests' = requests + 1
  /\ UNCHANGED <<active, row, conn, live>>

\* require_workspace, FOR SHARE: the mutator's transaction begins, or ends here.
RequireWorkspace(r) ==
  /\ ask[r] # None /\ ask[r].at = "checked"
  /\ ask' = [ask EXCEPT ![r] = IF active THEN [ask[r] EXCEPT !.at = "locked"] ELSE None]
  /\ UNCHANGED <<active, row, requests, conn, live>>

\* Updatable, without "archived_at IS NULL" (a faulty variant).
UpdatableIfThere(s) == row[s] # "ABSENT"

\* The row that update() finds.
Updatable(s) == row[s] \notin {"ABSENT", "ARCHIVED"}

\* What the mutator's statement makes of the row.
Updated(op, s) ==
  CASE op = "register" /\ row[s] = "ABSENT" -> "ENABLED"
    [] op = "enable" /\ Updatable(s)        -> "ENABLED"
    [] op = "disable" /\ Updatable(s)       -> "DISABLED"
    [] op = "archive" /\ row[s] # "ABSENT"  -> "ARCHIVED"
    [] OTHER                                -> row[s]

\* The statement, and the commit that lets go of the Workspace's row.
Change(r) ==
  /\ ask[r] # None /\ ask[r].at = "locked"
  /\ row' = [row EXCEPT ![ask[r].source] = Updated(ask[r].op, ask[r].source)]
  /\ ask' = [ask EXCEPT ![r] = None]
  /\ UNCHANGED <<active, requests, conn, live>>

\* Unshared, had require_workspace read without FOR SHARE (a faulty variant).
UnsharedAlways == TRUE

\* No transaction holds the Workspace's row.
Unshared == {r \in Admin : ask[r] # None /\ ask[r].at = "locked"} = {}

ArchiveWorkspace ==
  /\ active /\ requests < MaxRequests
  /\ Unshared
  /\ active' = FALSE
  /\ requests' = requests + 1
  /\ UNCHANGED <<row, ask, conn, live>>

-----------------------------------------------------------------------------
(* Connections *)

\* Usable, without the join with the active Workspace (a faulty variant).
UsableIfEnabled(s) == row[s] = "ENABLED"

\* get_internal_source finds the row and _enabled lets it pass.
Usable(s) == active /\ row[s] = "ENABLED"

\* The connector of a source's row, unconnected.
Built(s) == [source |-> s, at |-> "built", readOnly |-> FALSE]

\* _require_source, then _build_connector with the row that was read.
RequireSource(c, s) ==
  /\ conn[c] = None /\ Usable(s)
  /\ conn' = [conn EXCEPT ![c] = Built(s)]
  /\ UNCHANGED <<active, row, ask, live>>

\* Verified, had the session's settings been left to the server (a faulty variant).
VerifiedNever(s) == FALSE

\* Whether connect() returns with read_only_verified: Snowflake's is without the probe.
Verified(s) == s \in Enforcing

\* connect(): with a session, or with an exception and none, a session whose check
\* failed being closed again.
Connect(c) ==
  /\ conn[c] # None /\ conn[c].at = "built"
  /\ \/ /\ conn' = [conn EXCEPT ![c].at = "open", ![c].readOnly = Verified(conn[c].source)]
        /\ live' = live \cup {c}
     \/ /\ conn' = [conn EXCEPT ![c].at = "failed"]
        /\ UNCHANGED live
  /\ UNCHANGED <<active, row, ask, requests>>

\* finally: connector.close()
Close(c) ==
  /\ conn' = [conn EXCEPT ![c] = None]
  /\ live' = live \ {c}
  /\ UNCHANGED <<active, row, ask, requests>>

\* TestSource: a request that only proves the connection.
TestConnection(c) ==
  /\ requests < MaxRequests /\ requests' = requests + 1
  /\ \E s \in Source : RequireSource(c, s)

EndTest(c) ==
  /\ conn[c] # None /\ conn[c].at \in {"open", "failed"}
  /\ Close(c)

AdminNext ==
  \/ \E r \in Admin :
       \/ \E op \in Op, s \in Source : Ask(r, op, s)
       \/ RequireWorkspace(r) \/ Change(r)
  \/ ArchiveWorkspace

TestNext(c) == TestConnection(c) \/ Connect(c) \/ EndTest(c)

-----------------------------------------------------------------------------
(* Properties *)

\* An archived source stays as it is, and all sources of an archived Workspace do,
\* whatever requests had looked at them before: none is enabled again and none
\* appears.
ArchivedIsFinal ==
  [][/\ \A s \in Source : row[s] = "ARCHIVED" => row'[s] = "ARCHIVED"
     /\ ~active => row' = row]_accessVars

\* A session at the customer's server belongs to a call under way.
SessionsEnd == \A c \in live : conn[c] # None
=============================================================================
