-------------------------------- MODULE Servers --------------------------------
(***************************************************************************)
(* The server handlers of the HTTP API (internal/transport/                *)
(* filesystem_server.go and media_server.go) and what the job handlers     *)
(* (transport/job.go) do with servers.  A request runs several statements  *)
(* on the database without a transaction, so that the requests of several  *)
(* callers interleave between any two of them.                             *)
(*                                                                         *)
(* SQLite keeps the indexes on name and uid unique and, its foreign keys   *)
(* being off, lets a job refer to a server that does not exist.            *)
(***************************************************************************)
EXTENDS Naturals, FiniteSets

CONSTANTS
  Callers,            \* goroutines that serve requests
  Kinds,              \* tables in use: a subset of {"data", "media"}
  Ids, Names,
  Configs,            \* what uid.go hashes: type, host, port, options, API key
  Jobs,               \* ids of jobs
  MaxCalls,           \* bound: requests made
  None

VARIABLES
  server,             \* server[k][i]: the row i of the table of kind k, or None
  ref,                \* ref[j]: the servers job j refers to, or None if there is no job j
  call,               \* call[c]: the request of c and how far it is
  answer,             \* answer[c]: what the last request of c was answered
  calls,
  ever,               \* history: ever[k]: the ids that the table of kind k has had
  raced               \* history: two requests have been under way at once that race, as
                      \* Racing says

vars == <<server, ref, call, answer, calls, ever, raced>>

Rows == [name: Names, config: Configs, uid: Configs, on: BOOLEAN]
Refs == [Kinds -> Ids \cup {None}]

\* No row, field of a row or list of servers is the null of the database.
ASSUME ServersAssumption ==
  /\ Kinds \subseteq {"data", "media"} /\ MaxCalls \in Nat
  /\ None \notin Ids \cup Configs \cup Names \cup BOOLEAN
  /\ None \notin Rows /\ None \notin Refs

Ops == {"create", "update", "delete", "createJob", "updateJob", "deleteJob"}
Points == {"idle", "name", "insert", "read", "save", "uses", "remove",
           "data", "media", "root", "saveJob", "readJob", "removeJob"}

(* A request on a server or on a job.  on = None: the field is not sent.   *)
ServerRequests ==
  [op: {"create", "update"}, kind: Kinds, id: Ids, name: Names, config: Configs,
   on: BOOLEAN \cup {None}]
  \cup [op: {"delete"}, kind: Kinds, id: Ids]
JobRequests ==
  [op: {"createJob", "updateJob"}, job: Jobs, refs: Refs, api: BOOLEAN]
  \cup [op: {"deleteJob"}, job: Jobs]
NoRequest == [op |-> "none"]
Idle == [at |-> "idle", req |-> NoRequest, row |-> None]

Rowed(k) == {i \in Ids : server[k][i] # None}
(* Mutant: DeleteDataServer counts the jobs by media_server_id. *)
Users_Bug(k, i) == {j \in Jobs : ref[j] # None /\ k = "media" /\ ref[j][k] = i}

Users(k, i) == {j \in Jobs : ref[j] # None /\ ref[j][k] = i}

Init ==
  /\ server = [k \in Kinds |-> [i \in Ids |-> None]]
  /\ ref = [j \in Jobs |-> None]
  /\ call = [c \in Callers |-> Idle]
  /\ answer = [c \in Callers |-> "none"]
  /\ calls = 0
  /\ ever = [k \in Kinds |-> {}] /\ raced = FALSE

(* A request goes on to its next statement, or is answered.                *)
Goto(c, point) ==
  /\ call' = [call EXCEPT ![c].at = point]
  /\ UNCHANGED answer

Answer(c, code) ==
  /\ call' = [call EXCEPT ![c] = Idle]
  /\ answer' = [answer EXCEPT ![c] = code]

Doing(c, op, k, point) ==
  /\ call[c].at = point
  /\ call[c].req.op = op
  /\ call[c].req.kind = k

(* A request passed validation: the first statement of its handler.  An    *)
(* api job must name a data server (validateJobRequest).                   *)
Begin(c) ==
  /\ calls < MaxCalls /\ call[c] = Idle
  /\ \E r \in ServerRequests \cup JobRequests :
       /\ (r.op \in {"createJob", "updateJob"} /\ r.api)
            => "data" \in Kinds /\ r.refs["data"] # None
       /\ call' = [call EXCEPT ![c] = [at  |-> CASE r.op = "create" -> "name"
                                                 [] r.op = "update" -> "read"
                                                 [] r.op = "delete" -> "uses"
                                                 [] r.op = "createJob" -> "data"
                                                 [] OTHER -> "readJob",
                                       req |-> r, row |-> None]]
  /\ answer' = [answer EXCEPT ![c] = "none"]
  /\ calls' = calls + 1
  /\ UNCHANGED <<server, ref, ever>>

(***************************************************************************)
(* Servers                                                                 *)
(***************************************************************************)
NameTaken(k, name, but) == \E i \in Rowed(k) \ {but} : server[k][i].name = name
UidTaken(k, uid, but) == \E i \in Rowed(k) \ {but} : server[k][i].uid = uid

(* What a handler answers when the database reports a UNIQUE violation: of *)
(* the data servers it tells the index, of the media servers it does not.  *)
Conflicts(k, row, but) ==
  LET onName == NameTaken(k, row.name, but)
      onUid  == UidTaken(k, row.uid, but)
  IN  IF k = "data"
      THEN {code \in {"duplicate_name", "duplicate_config"} :
              IF code = "duplicate_name" THEN onName ELSE onUid}
      ELSE IF onName \/ onUid THEN {"duplicate_name"} ELSE {}

(* Put row at i, unless an index refuses it.                               *)
Store(c, k, i, row) ==
  IF Conflicts(k, row, i) = {}
  THEN /\ server' = [server EXCEPT ![k][i] = row]
       /\ ever' = [ever EXCEPT ![k] = @ \cup {i}]
       /\ Answer(c, "ok")
  ELSE /\ \E code \in Conflicts(k, row, i) : Answer(c, code)
       /\ UNCHANGED <<server, ever>>

(* Create: is the name free?                                               *)
CountName(c, k) ==
  /\ Doing(c, "create", k, "name")
  /\ IF NameTaken(k, call[c].req.name, None)
     THEN Answer(c, "duplicate_name")
     ELSE Goto(c, "insert")
  /\ UNCHANGED <<server, ref, calls, ever>>

(* GORM's Create: BeforeCreate hashes the connection to the uid; enabled   *)
(* has a default, so that a false is left out of the statement and the row *)
(* gets the default.                                                       *)
Insert(c, k) ==
  /\ Doing(c, "create", k, "insert")
  /\ LET r == call[c].req IN
     \E i \in Ids \ Rowed(k) :
       Store(c, k, i, [name |-> r.name, config |-> r.config, uid |-> r.config, on |-> TRUE])
  /\ UNCHANGED <<ref, calls>>

CreateDataServer(c) == CountName(c, "data") \/ Insert(c, "data")
CreateMediaServer(c) == CountName(c, "media") \/ Insert(c, "media")

(* Mutant: The default of the creation is copied to the update. *)
Changed_Bug(row, r) ==
  [row EXCEPT !.name = r.name, !.config = r.config,
              !.on = IF r.on = None THEN TRUE ELSE r.on]

(* Update: the row as it is read now is the row that is saved later, but   *)
(* for the fields that the request names.  The uid stays what it was.      *)
Changed(row, r) ==
  [row EXCEPT !.name = r.name, !.config = r.config,
              !.on = IF r.on = None THEN @ ELSE r.on]

ReadServer(c, k) ==
  /\ Doing(c, "update", k, "read")
  /\ LET r == call[c].req
         row == server[k][r.id]
     IN  IF row = None
         THEN Answer(c, "not_found")
         ELSE /\ call' = [call EXCEPT ![c].row = row,
                                      ![c].at = IF r.name = row.name THEN "save" ELSE "name"]
              /\ UNCHANGED answer
  /\ UNCHANGED <<server, ref, calls, ever>>

(* Mutant: The check of the name forgets "id <> ?". *)
CountOtherName_Bug(c, k) ==
  /\ Doing(c, "update", k, "name")
  /\ IF NameTaken(k, call[c].req.name, None)
     THEN Answer(c, "duplicate_name")
     ELSE Goto(c, "save")
  /\ UNCHANGED <<server, ref, calls, ever>>

CountOtherName(c, k) ==
  /\ Doing(c, "update", k, "name")
  /\ IF NameTaken(k, call[c].req.name, call[c].req.id)
     THEN Answer(c, "duplicate_name")
     ELSE Goto(c, "save")
  /\ UNCHANGED <<server, ref, calls, ever>>

(* GORM's Save: update the row, and insert it when it is gone.             *)
SaveServer(c, k) ==
  /\ Doing(c, "update", k, "save")
  /\ LET r == call[c].req
         row == Changed(call[c].row, r)
     IN  Store(c, k, r.id, IF server[k][r.id] # None THEN row ELSE [row EXCEPT !.on = TRUE])
  /\ UNCHANGED <<ref, calls>>

UpdateDataServer(c) ==
  ReadServer(c, "data") \/ CountOtherName(c, "data") \/ SaveServer(c, "data")
UpdateMediaServer(c) ==
  ReadServer(c, "media") \/ CountOtherName(c, "media") \/ SaveServer(c, "media")

(* Delete: no job may use the server; find it; delete it.                  *)
CountUsers(c, k) ==
  /\ Doing(c, "delete", k, "uses")
  /\ IF Users(k, call[c].req.id) # {}
     THEN Answer(c, "in_use")
     ELSE Goto(c, "read")
  /\ UNCHANGED <<server, ref, calls, ever>>

FindServer(c, k) ==
  /\ Doing(c, "delete", k, "read")
  /\ IF server[k][call[c].req.id] = None
     THEN Answer(c, "not_found")
     ELSE Goto(c, "remove")
  /\ UNCHANGED <<server, ref, calls, ever>>

RemoveServer(c, k) ==
  /\ Doing(c, "delete", k, "remove")
  /\ LET i == call[c].req.id IN
     /\ Answer(c, IF server[k][i] = None THEN "not_found" ELSE "ok")
     /\ server' = [server EXCEPT ![k][i] = None]
  /\ UNCHANGED <<ref, calls, ever>>

DeleteDataServer(c) ==
  CountUsers(c, "data") \/ FindServer(c, "data") \/ RemoveServer(c, "data")
DeleteMediaServer(c) ==
  CountUsers(c, "media") \/ FindServer(c, "media") \/ RemoveServer(c, "media")

(***************************************************************************)
(* Jobs, as far as they refer to servers                                   *)
(***************************************************************************)
(* A job is read before it is updated or deleted.  DeleteJob's refusal     *)
(* while a run is executing is JobControl's.                               *)
ReadJob(c) ==
  /\ call[c].at = "readJob"
  /\ IF ref[call[c].req.job] = None
     THEN Answer(c, "not_found")
     ELSE Goto(c, IF call[c].req.op = "updateJob" THEN "data" ELSE "removeJob")
  /\ UNCHANGED <<server, ref, calls, ever>>

(* validateRelatedServers counts in one table, then in the other.  When    *)
(* the data server is missing it still counts the media servers, which     *)
(* does not matter to the refusal.                                         *)
Named(c, k) == IF k \in Kinds THEN call[c].req.refs[k] ELSE None
(* Mutant: Only the media server is validated. *)
Missing_Bug(c, k) == k = "media" /\ Named(c, k) # None /\ server[k][Named(c, k)] = None

Missing(c, k) == Named(c, k) # None /\ server[k][Named(c, k)] = None

ValidateRelatedServers(c) ==
  /\ \/ /\ call[c].at = "data"
        /\ IF Missing(c, "data") THEN Answer(c, "invalid") ELSE Goto(c, "media")
     \/ /\ call[c].at = "media"
        /\ IF Missing(c, "media")
           THEN Answer(c, "invalid")
           ELSE Goto(c, IF call[c].req.api THEN "root" ELSE "saveJob")
  /\ UNCHANGED <<server, ref, calls, ever>>

(* An api job reads its data server once more, whose type may ask for a    *)
(* remote root that the request does not give.                             *)
ValidateRemoteRoot(c) ==
  /\ call[c].at = "root"
  /\ \/ Answer(c, "invalid")
     \/ ~Missing(c, "data") /\ Goto(c, "saveJob")
  /\ UNCHANGED <<server, ref, calls, ever>>

(* The job's name is taken: counted before, or found by the index.         *)
JobNameTaken(c) ==
  /\ call[c].at = "saveJob"
  /\ Answer(c, "duplicate_name")
  /\ UNCHANGED <<server, ref, calls, ever>>

(* Create takes a new id; Save writes the row it read, and inserts it when *)
(* it is gone.                                                             *)
StoreJob(c, op) ==
  /\ call[c].at = "saveJob" /\ call[c].req.op = op
  /\ op = "createJob" => ref[call[c].req.job] = None
  /\ ref' = [ref EXCEPT ![call[c].req.job] = call[c].req.refs]
  /\ Answer(c, "ok")
  /\ UNCHANGED <<server, calls, ever>>

CreateJob(c) == StoreJob(c, "createJob")
UpdateJob(c) == StoreJob(c, "updateJob")

DeleteJob(c) ==
  /\ call[c].at = "removeJob"
  /\ Answer(c, IF ref[call[c].req.job] = None THEN "not_found" ELSE "ok")
  /\ ref' = [ref EXCEPT ![call[c].req.job] = None]
  /\ UNCHANGED <<server, calls, ever>>

(* Any statement may fail.                                                 *)
DbFails(c) ==
  /\ call[c] # Idle
  /\ Answer(c, "db_error")
  /\ UNCHANGED <<server, ref, calls, ever>>

Step ==
  \E c \in Callers :
    \/ Begin(c) \/ DbFails(c)
    \/ CreateDataServer(c) \/ UpdateDataServer(c) \/ DeleteDataServer(c)
    \/ CreateMediaServer(c) \/ UpdateMediaServer(c) \/ DeleteMediaServer(c)
    \/ ReadJob(c) \/ ValidateRelatedServers(c) \/ ValidateRemoteRoot(c)
    \/ JobNameTaken(c) \/ CreateJob(c) \/ UpdateJob(c) \/ DeleteJob(c)

(* A server is being deleted while a job is saved, or the server that is   *)
(* being updated is updated or deleted.                                    *)
Racing ==
  \E c, d \in Callers : LET r == call[c].req
                            q == call[d].req IN
    \/ r.op = "delete" /\ q.op \in {"createJob", "updateJob"}
    \/ /\ c # d /\ r.op = "update" /\ q.op \in {"update", "delete"}
       /\ q.kind = r.kind /\ q.id = r.id

Next == Step /\ raced' = (raced \/ Racing')

Spec == Init /\ [][Next]_vars

(***************************************************************************)
(* Properties                                                              *)
(***************************************************************************)
(* Type invariant; a request is at a point of its own handler.             *)
TypeOK ==
  /\ \A k \in Kinds : \A i \in Ids : server[k][i] \in Rows \cup {None}
  /\ \A j \in Jobs : ref[j] \in Refs \cup {None}
  /\ \A c \in Callers :
       /\ call[c].at \in Points
       /\ call[c].req \in ServerRequests \cup JobRequests \cup {NoRequest}
       /\ call[c].row \in Rows \cup {None}
       /\ call[c] # Idle => answer[c] = "none"
       /\ call[c].at = "save" => call[c].row # None
       /\ call[c].at = "root" => call[c].req.refs["data"] # None
  /\ calls \in 0..MaxCalls /\ raced \in BOOLEAN /\ ever \in [Kinds -> SUBSET Ids]

(* A job refers only to servers that exist: a server in use cannot be      *)
(* deleted (DeleteDataServer, DeleteMediaServer), and a job is only saved  *)
(* with servers that are there (validateRelatedServers).  It holds through *)
(* failures and whatever else overlaps, as long as no server is deleted    *)
(* while a job is being saved.                                             *)
NoDanglingReference ==
  ~raced => \A j \in Jobs : ref[j] # None =>
    \A k \in Kinds : ref[j][k] # None => server[k][ref[j][k]] # None

(* However the requests interleave, a job names no server that was never   *)
(* there: what validateRelatedServers is still worth without a             *)
(* transaction.                                                            *)
RefsExisted ==
  \A j \in Jobs : ref[j] # None =>
    \A k \in Kinds : ref[j][k] # None => ref[j][k] \in ever[k]

(* Every request is at a point of its own handler, with the row it read,   *)
(* and every job names servers that were there when it was validated.      *)
TablesOK == TypeOK /\ RefsExisted

Said(c, code) == answer[c] # code /\ answer'[c] = code

(* A refusal is true when it is given, however stale what the handler read *)
(* before: another server has the name, a job uses the server, the server  *)
(* is not there.  Of media servers, whose handler does not tell the two    *)
(* indexes apart (media_server.go:132), the name or the uid is taken.      *)
UidOf(c) == IF call[c].req.op = "create" THEN call[c].req.config ELSE call[c].row.uid
AnswersAreTrue ==
  [][\A c \in Callers : LET r == call[c].req IN
       /\ Said(c, "duplicate_name") /\ r.op \in {"create", "update"} =>
            \E i \in Rowed(r.kind) :
              /\ \/ server[r.kind][i].name = r.name
                 \/ r.kind = "media" /\ server[r.kind][i].uid = UidOf(c)
              /\ r.op = "update" => i # r.id
       /\ Said(c, "in_use") => Users(r.kind, r.id) # {}
       /\ Said(c, "not_found") /\ r.op \in {"update", "delete"} =>
            server[r.kind][r.id] = None]_vars

(* A request that does not send the field enabled leaves it as it is, and  *)
(* one that fails changes no server at all, as long as no two requests     *)
(* change one server at once.                                              *)
OnlyAskedIsChanged ==
  [][\A k \in Kinds : \A i \in Rowed(k) :
       (~raced /\ server'[k][i] # None /\ server'[k][i] # server[k][i]) =>
         \E c \in Callers :
           /\ call[c].req.op = "update" /\ call[c].req.id = i /\ Said(c, "ok")
           /\ call[c].req.on = None => server'[k][i].on = server[k][i].on]_vars

================================================================================
