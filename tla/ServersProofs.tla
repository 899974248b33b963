----------------------------- MODULE ServersProofs -----------------------------
(***************************************************************************)
(* Proofs about the server handlers, for every number of callers, servers  *)
(* and jobs and however their statements interleave:                       *)
(*                                                                         *)
(*   1. TablesInv: a request is at a point of its own handler, and a job   *)
(*      names only servers that once were there (THEOREM TablesOKHolds);   *)
(*   2. RaceFree: as long as no two requests race, what a request found    *)
(*      still is so when it writes.  Hence no job refers to a missing      *)
(*      server (THEOREM NoDanglingReferenceHolds) and an update changes    *)
(*      only what it was asked to (THEOREM OnlyAskedIsChangedHolds);       *)
(*   3. a refusal is true when it is given, race or no race (THEOREM       *)
(*      AnswersAreTrueHolds).                                              *)
(*                                                                         *)
(* NoDanglingReference alone is not inductive: that a job may be saved, or *)
(* a server removed, rests on a read that the request made before.         *)
(***************************************************************************)
EXTENDS Servers, TLAPS

--------------------------------------------------------------------------------
(* The invariants. *)
Requests == ServerRequests \cup JobRequests \cup {NoRequest}
Codes == {"none", "ok", "duplicate_name", "duplicate_config", "in_use", "not_found",
          "invalid", "db_error"}
Entry == [at: Points, req: Requests, row: Rows \cup {None}]
OnServer == {"create", "update", "delete"}
OnJob == {"createJob", "updateJob"}

\* A request has the fields of its kind.
ReqOK(r) ==
  /\ r.op \in Ops \cup {"none"}
  /\ r.op \in OnServer => r.kind \in Kinds /\ r.id \in Ids
  /\ r.op \in {"create", "update"} =>
       r.name \in Names /\ r.config \in Configs /\ r.on \in BOOLEAN \cup {None}
  /\ r.op \in OnJob \cup {"deleteJob"} => r.job \in Jobs
  /\ r.op \in OnJob => r.refs \in Refs /\ r.api \in BOOLEAN
  /\ (r.op \in OnJob /\ r.api) => ("data" \in Kinds /\ r.refs["data"] # None)

\* It is at a point of its own handler, with the row it read.
EntryOK(e) ==
  /\ e.at = "idle" => e = Idle
  /\ e.at = "name" => e.req.op \in {"create", "update"}
  /\ e.at = "insert" => e.req.op = "create"
  /\ e.at = "read" => e.req.op \in {"update", "delete"}
  /\ e.at = "save" => e.req.op = "update"
  /\ e.at \in {"name", "save"} /\ e.req.op = "update" => e.row # None
  /\ e.at \in {"uses", "remove"} => e.req.op = "delete"
  /\ e.at \in {"data", "media", "root", "saveJob"} => e.req.op \in OnJob
  /\ e.at = "root" => e.req.api
  /\ e.at = "readJob" => e.req.op \in {"updateJob", "deleteJob"}
  /\ e.at = "removeJob" => e.req.op = "deleteJob"
  /\ ReqOK(e.req)

CallsOK ==
  /\ call \in [Callers -> Entry] /\ answer \in [Callers -> Codes]
  /\ \A c \in Callers : EntryOK(call[c]) /\ (call[c] # Idle => answer[c] = "none")

StoreOK ==
  /\ server \in [Kinds -> [Ids -> Rows \cup {None}]]
  /\ ref \in [Jobs -> Refs \cup {None}]
  /\ ever \in [Kinds -> SUBSET Ids]
  /\ calls \in 0..MaxCalls /\ raced \in BOOLEAN

\* validateRelatedServers has counted the server of kind k.
Checked(e, k) ==
  \/ e.at = "media" /\ k = "data"
  \/ e.at \in {"root", "saveJob"}

\* What is there, what a job may be saved with and what a job names was once there.
EverOK ==
  /\ \A k \in Kinds : Rowed(k) \subseteq ever[k]
  /\ \A c \in Callers : \A k \in Kinds :
       Checked(call[c], k) /\ call[c].req.refs[k] # None => call[c].req.refs[k] \in ever[k]
  /\ RefsExisted

TablesInv == StoreOK /\ CallsOK /\ EverOK

\* What a request has found still is so: the servers it counted are there, the server
\* it deletes has no user, the row it updates is the row it read.
Sound(e) ==
  /\ \A k \in Kinds : Checked(e, k) /\ e.req.refs[k] # None => server[k][e.req.refs[k]] # None
  /\ e.req.op = "delete" /\ e.at \in {"read", "remove"} => Users(e.req.kind, e.req.id) = {}
  /\ e.req.op = "update" /\ e.at \in {"name", "save"} =>
       e.row = server[e.req.kind][e.req.id]

RaceFree == ~raced => (~Racing /\ (\A c \in Callers : Sound(call[c])) /\ NoDanglingReference)

LEMMA EntryTyped ==
  ASSUME CallsOK, NEW c \in Callers
  PROVE  call[c] \in Entry /\ EntryOK(call[c]) /\ (call[c] # Idle => answer[c] = "none")
BY DEF CallsOK

LEMMA IdleOK == Idle \in Entry /\ EntryOK(Idle)
<1>1. Idle \in Entry
  BY DEF Idle, Entry, Points, Requests
<1>2. EntryOK(Idle)
  BY DEF Idle, EntryOK, ReqOK, NoRequest, Ops, OnServer, OnJob
<1>3. QED
  BY <1>1, <1>2

LEMMA AnswerKeepsCalls ==
  ASSUME CallsOK, NEW c \in Callers, NEW code \in Codes, Answer(c, code)
  PROVE  CallsOK'
<1>1. /\ call' \in [Callers -> Entry] /\ answer' \in [Callers -> Codes]
      /\ \A d \in Callers : EntryOK(call'[d]) /\ (call'[d] # Idle => answer'[d] = "none")
  BY IdleOK DEF CallsOK, Answer
<1>2. QED
  BY <1>1 DEF CallsOK

LEMMA MoveKeepsCalls ==
  ASSUME CallsOK, NEW c \in Callers, NEW e \in Entry, EntryOK(e),
         call' = [call EXCEPT ![c] = e],
         \/ UNCHANGED answer /\ call[c] # Idle
         \/ answer' = [answer EXCEPT ![c] = "none"]
  PROVE  CallsOK'
<1>1. /\ call' \in [Callers -> Entry] /\ answer' \in [Callers -> Codes]
      /\ \A d \in Callers : EntryOK(call'[d]) /\ (call'[d] # Idle => answer'[d] = "none")
  BY DEF CallsOK, Codes
<1>2. QED
  BY <1>1 DEF CallsOK

LEMMA GotoIsMove ==
  ASSUME CallsOK, NEW c \in Callers, NEW point \in Points, Goto(c, point)
  PROVE  /\ [call[c] EXCEPT !.at = point] \in Entry
         /\ call' = [call EXCEPT ![c] = [call[c] EXCEPT !.at = point]]
         /\ UNCHANGED answer
BY EntryTyped DEF Goto, Entry

LEMMA GotoKeepsCalls ==
  ASSUME CallsOK, NEW c \in Callers, NEW point \in Points, Goto(c, point),
         EntryOK([call[c] EXCEPT !.at = point]), call[c].at # "idle"
  PROVE  CallsOK'
<1>1. call[c] # Idle
  BY DEF Idle
<1>2. QED
  BY <1>1, GotoIsMove, MoveKeepsCalls

LEMMA RequestsTyped == \A r \in ServerRequests \cup JobRequests :
  /\ r \in Requests /\ r.op \in Ops
  /\ ((r.op \in OnJob /\ r.api) => ("data" \in Kinds /\ r.refs["data"] # None)) => ReqOK(r)
<1>1. SUFFICES ASSUME NEW r \in ServerRequests \cup JobRequests
               PROVE  /\ r \in Requests /\ r.op \in Ops
                      /\ ((r.op \in OnJob /\ r.api) => ("data" \in Kinds /\ r.refs["data"] # None))
                           => ReqOK(r)
  OBVIOUS
<1>2. CASE r \in [op: {"create", "update"}, kind: Kinds, id: Ids, name: Names,
                  config: Configs, on: BOOLEAN \cup {None}]
  BY <1>2 DEF Requests, ServerRequests, Ops, ReqOK, OnServer, OnJob
<1>3. CASE r \in [op: {"delete"}, kind: Kinds, id: Ids]
  BY <1>3 DEF Requests, ServerRequests, Ops, ReqOK, OnServer, OnJob
<1>4. CASE r \in [op: OnJob, job: Jobs, refs: Refs, api: BOOLEAN]
  BY <1>4 DEF Requests, JobRequests, Ops, ReqOK, OnServer, OnJob
<1>5. CASE r \in [op: {"deleteJob"}, job: Jobs]
  BY <1>5 DEF Requests, JobRequests, Ops, ReqOK, OnServer, OnJob
<1>6. QED
  BY <1>1, <1>2, <1>3, <1>4, <1>5 DEF ServerRequests, JobRequests, OnJob

LEMMA RowNotNone == \A row \in Rows : row # None
BY ServersAssumption

--------------------------------------------------------------------------------
\* The statements of a request of c on the table of kind k.
OfServers(c, k) ==
  \/ CountName(c, k) \/ Insert(c, k)
  \/ ReadServer(c, k) \/ CountOtherName(c, k) \/ SaveServer(c, k)
  \/ CountUsers(c, k) \/ FindServer(c, k) \/ RemoveServer(c, k)

OfJobs(c) ==
  \/ ReadJob(c) \/ ValidateRelatedServers(c) \/ ValidateRemoteRoot(c)
  \/ JobNameTaken(c) \/ CreateJob(c) \/ UpdateJob(c) \/ DeleteJob(c)

LEMMA StepSplits ==
  ASSUME CallsOK, Step
  PROVE  \E c \in Callers :
           \/ Begin(c) \/ DbFails(c) \/ OfJobs(c)
           \/ \E k \in Kinds : OfServers(c, k)
<1>1. PICK c \in Callers :
        \/ Begin(c) \/ DbFails(c)
        \/ CreateDataServer(c) \/ UpdateDataServer(c) \/ DeleteDataServer(c)
        \/ CreateMediaServer(c) \/ UpdateMediaServer(c) \/ DeleteMediaServer(c)
        \/ OfJobs(c)
  BY DEF Step, OfJobs
<1>2. ReqOK(call[c].req)
  BY EntryTyped DEF EntryOK
<1>3. ASSUME CreateDataServer(c) \/ UpdateDataServer(c) \/ DeleteDataServer(c)
      PROVE  "data" \in Kinds /\ OfServers(c, "data")
  <2>1. OfServers(c, "data")
    BY <1>3 DEF CreateDataServer, UpdateDataServer, DeleteDataServer, OfServers
  <2>2. call[c].req.kind = "data" /\ call[c].req.op \in OnServer
    BY <2>1 DEF OfServers, CountName, Insert, ReadServer, CountOtherName, SaveServer,
         CountUsers, FindServer, RemoveServer, Doing, OnServer
  <2>3. QED
    BY <1>2, <2>1, <2>2 DEF ReqOK
<1>4. ASSUME CreateMediaServer(c) \/ UpdateMediaServer(c) \/ DeleteMediaServer(c)
      PROVE  "media" \in Kinds /\ OfServers(c, "media")
  <2>1. OfServers(c, "media")
    BY <1>4 DEF CreateMediaServer, UpdateMediaServer, DeleteMediaServer, OfServers
  <2>2. call[c].req.kind = "media" /\ call[c].req.op \in OnServer
    BY <2>1 DEF OfServers, CountName, Insert, ReadServer, CountOtherName, SaveServer,
         CountUsers, FindServer, RemoveServer, Doing, OnServer
  <2>3. QED
    BY <1>2, <2>1, <2>2 DEF ReqOK
<1>5. QED
  BY <1>1, <1>3, <1>4

--------------------------------------------------------------------------------
(* Every request is at a point of its own handler. *)
LEMMA BeginMoves ==
  ASSUME CallsOK, NEW c \in Callers, Begin(c)
  PROVE  \E r \in ServerRequests \cup JobRequests : \E e \in Entry :
           /\ EntryOK(e) /\ e.req = r /\ e.row = None
           /\ e.at \in {"name", "read", "uses", "data", "readJob"}
           /\ e.at = "name" => r.op = "create"
           /\ e.at = "read" => r.op = "update"
           /\ e.at = "data" => r.op = "createJob"
           /\ call' = [call EXCEPT ![c] = e]
<1>1. PICK r \in ServerRequests \cup JobRequests :
        /\ (r.op \in {"createJob", "updateJob"} /\ r.api)
             => "data" \in Kinds /\ r.refs["data"] # None
        /\ call' = [call EXCEPT ![c] = [at  |-> CASE r.op = "create" -> "name"
                                                  [] r.op = "update" -> "read"
                                                  [] r.op = "delete" -> "uses"
                                                  [] r.op = "createJob" -> "data"
                                                  [] OTHER -> "readJob",
                                        req |-> r, row |-> None]]
  BY DEF Begin
<1> DEFINE first == CASE r.op = "create" -> "name"
                      [] r.op = "update" -> "read"
                      [] r.op = "delete" -> "uses"
                      [] r.op = "createJob" -> "data"
                      [] OTHER -> "readJob"
           e == [at |-> first, req |-> r, row |-> None]
<1>2. r \in Requests /\ r.op \in Ops /\ ReqOK(r)
  BY <1>1, RequestsTyped DEF OnJob
<1>3. /\ first \in {"name", "read", "uses", "data", "readJob"}
      /\ first = "name" => r.op = "create"
      /\ first = "read" => r.op = "update"
      /\ first = "uses" => r.op = "delete"
      /\ first = "data" => r.op = "createJob"
      /\ first = "readJob" => r.op \in {"updateJob", "deleteJob"}
  BY <1>2 DEF Ops
<1>4. e \in Entry /\ EntryOK(e)
  BY <1>2, <1>3 DEF Entry, EntryOK, Points, OnJob
<1>5. call' = [call EXCEPT ![c] = e]
  BY <1>1
<1>6. e.req = r /\ e.row = None /\ e.at = first
  OBVIOUS
<1> HIDE DEF e, first
<1>7. QED
  BY <1>3, <1>4, <1>5, <1>6

LEMMA BeginKeepsCalls ==
  ASSUME CallsOK, NEW c \in Callers, Begin(c)
  PROVE  CallsOK'
BY BeginMoves, MoveKeepsCalls DEF Begin

\* What a statement on a table makes of the entry of its request.
LEMMA ServersKeepCalls ==
  ASSUME CallsOK, StoreOK, NEW c \in Callers, NEW k \in Kinds, OfServers(c, k)
  PROVE  CallsOK'
<1> DEFINE r == call[c].req
<1>1. /\ call[c] \in Entry /\ EntryOK(call[c]) /\ ReqOK(r) /\ call[c].at # "idle"
      /\ r.kind = k /\ r.op \in OnServer
  BY EntryTyped DEF EntryOK, OfServers, CountName, Insert, ReadServer, CountOtherName,
       SaveServer, CountUsers, FindServer, RemoveServer, Doing, OnServer
<1>2. CASE CountName(c, k)
  <2>1. EntryOK([call[c] EXCEPT !.at = "insert"])
    BY <1>1, <1>2 DEF CountName, Doing, EntryOK, Entry
  <2>2. "insert" \in Points /\ "duplicate_name" \in Codes
    BY DEF Points, Codes
  <2>3. QED
    BY <1>1, <1>2, <2>1, <2>2, GotoKeepsCalls, AnswerKeepsCalls DEF CountName
<1>3. ASSUME NEW i, NEW row, Store(c, k, i, row)
      PROVE  CallsOK'
  <2>1. Conflicts(k, row, i) \subseteq Codes /\ "ok" \in Codes
    BY DEF Conflicts, Codes
  <2>2. QED
    BY <1>3, <2>1, AnswerKeepsCalls DEF Store
<1>4. CASE Insert(c, k)
  BY <1>3, <1>4 DEF Insert
<1>5. CASE SaveServer(c, k)
  BY <1>3, <1>5 DEF SaveServer
<1>6. CASE ReadServer(c, k)
  <2> DEFINE row == server[k][r.id]
             at == IF r.name = row.name THEN "save" ELSE "name"
             e == [call[c] EXCEPT !.row = row, !.at = at]
  <2>1. call[c].at = "read" /\ r.op = "update"
    BY <1>6 DEF ReadServer, Doing
  <2>2. CASE row = None
    BY <1>6, <2>2, AnswerKeepsCalls DEF ReadServer, Codes
  <2>3. CASE row # None
    <3>1. row \in Rows
      BY <1>1, <2>1, <2>3 DEF StoreOK, ReqOK, OnServer
    <3>2. e \in Entry /\ EntryOK(e)
      BY <1>1, <2>1, <2>3, <3>1 DEF Entry, EntryOK, Points
    <3>3. call' = [call EXCEPT ![c] = e] /\ UNCHANGED answer
      BY <1>6, <2>3 DEF ReadServer, CallsOK
    <3>4. call[c] # Idle
      BY <1>1 DEF Idle
    <3> HIDE DEF e
    <3>5. QED
      BY <3>2, <3>3, <3>4, MoveKeepsCalls
  <2>4. QED
    BY <2>2, <2>3
<1>7. CASE CountOtherName(c, k)
  <2>1. EntryOK([call[c] EXCEPT !.at = "save"])
    BY <1>1, <1>7 DEF CountOtherName, Doing, EntryOK, Entry
  <2>2. "save" \in Points /\ "duplicate_name" \in Codes
    BY DEF Points, Codes
  <2>3. QED
    BY <1>1, <1>7, <2>1, <2>2, GotoKeepsCalls, AnswerKeepsCalls DEF CountOtherName
<1>8. CASE CountUsers(c, k)
  <2>1. EntryOK([call[c] EXCEPT !.at = "read"])
    BY <1>1, <1>8 DEF CountUsers, Doing, EntryOK, Entry
  <2>2. "read" \in Points /\ "in_use" \in Codes
    BY DEF Points, Codes
  <2>3. QED
    BY <1>1, <1>8, <2>1, <2>2, GotoKeepsCalls, AnswerKeepsCalls DEF CountUsers
<1>9. CASE FindServer(c, k)
  <2>1. EntryOK([call[c] EXCEPT !.at = "remove"])
    BY <1>1, <1>9 DEF FindServer, Doing, EntryOK, Entry
  <2>2. "remove" \in Points /\ "not_found" \in Codes
    BY DEF Points, Codes
  <2>3. QED
    BY <1>1, <1>9, <2>1, <2>2, GotoKeepsCalls, AnswerKeepsCalls DEF FindServer
<1>10. CASE RemoveServer(c, k)
  BY <1>10, AnswerKeepsCalls DEF RemoveServer, Codes
<1>11. QED
  BY <1>2, <1>4, <1>5, <1>6, <1>7, <1>8, <1>9, <1>10 DEF OfServers

LEMMA JobsKeepCalls ==
  ASSUME CallsOK, NEW c \in Callers, OfJobs(c)
  PROVE  CallsOK'
<1>1. call[c] \in Entry /\ EntryOK(call[c]) /\ ReqOK(call[c].req)
  BY EntryTyped DEF EntryOK
<1>2. {"invalid", "not_found", "duplicate_name", "ok"} \subseteq Codes
  BY DEF Codes
<1>3. CASE ReadJob(c)
  <2> DEFINE point == IF call[c].req.op = "updateJob" THEN "data" ELSE "removeJob"
  <2>1. EntryOK([call[c] EXCEPT !.at = point]) /\ point \in Points
    BY <1>1, <1>3 DEF ReadJob, EntryOK, Entry, Points, OnJob
  <2>2. QED
    BY <1>1, <1>2, <1>3, <2>1, GotoKeepsCalls, AnswerKeepsCalls DEF ReadJob
<1>4. CASE ValidateRelatedServers(c)
  <2>1. CASE call[c].at = "data"
    <3>1. EntryOK([call[c] EXCEPT !.at = "media"]) /\ "media" \in Points
      BY <1>1, <2>1 DEF EntryOK, Entry, Points
    <3>2. QED
      BY <1>1, <1>2, <1>4, <2>1, <3>1, GotoKeepsCalls, AnswerKeepsCalls
         DEF ValidateRelatedServers
  <2>2. CASE call[c].at = "media"
    <3> DEFINE point == IF call[c].req.api THEN "root" ELSE "saveJob"
    <3>1. EntryOK([call[c] EXCEPT !.at = point]) /\ point \in Points
      BY <1>1, <2>2 DEF EntryOK, Entry, Points
    <3>2. QED
      BY <1>1, <1>2, <1>4, <2>2, <3>1, GotoKeepsCalls, AnswerKeepsCalls
         DEF ValidateRelatedServers
  <2>3. QED
    BY <1>4, <2>1, <2>2 DEF ValidateRelatedServers
<1>5. CASE ValidateRemoteRoot(c)
  <2>1. EntryOK([call[c] EXCEPT !.at = "saveJob"]) /\ "saveJob" \in Points
    BY <1>1, <1>5 DEF EntryOK, Entry, Points, ValidateRemoteRoot
  <2>2. QED
    BY <1>1, <1>2, <1>5, <2>1, GotoKeepsCalls, AnswerKeepsCalls DEF ValidateRemoteRoot
<1>6. CASE JobNameTaken(c)
  BY <1>2, <1>6, AnswerKeepsCalls DEF JobNameTaken
<1>7. CASE CreateJob(c) \/ UpdateJob(c)
  BY <1>2, <1>7, AnswerKeepsCalls DEF CreateJob, UpdateJob, StoreJob
<1>8. CASE DeleteJob(c)
  BY <1>2, <1>8, AnswerKeepsCalls DEF DeleteJob
<1>9. QED
  BY <1>3, <1>4, <1>5, <1>6, <1>7, <1>8 DEF OfJobs

--------------------------------------------------------------------------------
(* What a step of c does to the tables and to the entries.                  *)
LEMMA RowTyped ==
  ASSUME StoreOK, NEW k \in Kinds, NEW i \in Ids
  PROVE  /\ server[k][i] \in Rows \cup {None}
         /\ \A row \in Rows \cup {None} :
              /\ [server EXCEPT ![k][i] = row] \in [Kinds -> [Ids -> Rows \cup {None}]]
              /\ [server EXCEPT ![k][i] = row][k][i] = row
              /\ \A l \in Kinds, j \in Ids :
                   (l # k \/ j # i) => [server EXCEPT ![k][i] = row][l][j] = server[l][j]
BY DEF StoreOK

\* A row is put where none was, or by the request that updates it.
Puts(c, k, i, row) ==
  /\ server' = [server EXCEPT ![k][i] = row]
  /\ ever' = [ever EXCEPT ![k] = @ \cup {i}]
  /\ call[c] # Idle /\ answer'[c] = "ok"
  /\ \/ server[k][i] = None
     \/ /\ call[c].req.op = "update" /\ call[c].req.kind = k /\ call[c].req.id = i
        /\ call[c].at = "save" /\ row = Changed(call[c].row, call[c].req)

Removes(c, k) ==
  /\ server' = [server EXCEPT ![k][call[c].req.id] = None]
  /\ call[c].req.op = "delete" /\ call[c].req.kind = k
  /\ call[c].at = "remove" /\ call[c].req.id \in Ids
  /\ UNCHANGED ever

LEMMA ServersWrite ==
  ASSUME CallsOK, StoreOK, NEW c \in Callers, NEW k \in Kinds, OfServers(c, k)
  PROVE  /\ \/ UNCHANGED <<server, ever>>
            \/ \E i \in Ids, row \in Rows : Puts(c, k, i, row)
            \/ Removes(c, k)
         /\ UNCHANGED <<ref, calls>>
<1> DEFINE r == call[c].req
<1>1. EntryOK(call[c]) /\ ReqOK(r) /\ call[c] \in Entry
  BY EntryTyped DEF EntryOK
<1>2. ASSUME NEW i \in Ids, NEW row \in Rows, Store(c, k, i, row), call[c].at # "idle",
             \/ server[k][i] = None
             \/ /\ r.op = "update" /\ r.kind = k /\ r.id = i
                /\ call[c].at = "save" /\ row = Changed(call[c].row, r)
      PROVE  UNCHANGED <<server, ever>> \/ Puts(c, k, i, row)
  <2>1. call[c] # Idle
    BY <1>2 DEF Idle
  <2>2. CASE Conflicts(k, row, i) = {}
    <3>1. answer'[c] = "ok"
      BY <1>2, <2>2 DEF Store, Answer, CallsOK
    <3>2. QED
      BY <1>2, <2>1, <2>2, <3>1 DEF Store, Puts
  <2>3. CASE Conflicts(k, row, i) # {}
    BY <1>2, <2>3 DEF Store
  <2>4. QED
    BY <2>2, <2>3
<1>3. CASE Insert(c, k)
  <2> DEFINE row == [name |-> r.name, config |-> r.config, uid |-> r.config, on |-> TRUE]
  <2>1. PICK i \in Ids \ Rowed(k) : Store(c, k, i, row)
    BY <1>3 DEF Insert
  <2>2. row \in Rows /\ server[k][i] = None /\ call[c].at # "idle"
    BY <1>1, <1>3 DEF Insert, Doing, ReqOK, Rows, Rowed
  <2> HIDE DEF row
  <2>3. UNCHANGED <<server, ever>> \/ Puts(c, k, i, row)
    BY <1>2, <2>1, <2>2
  <2>4. QED
    BY <1>3, <2>2, <2>3 DEF Insert
<1>4. CASE SaveServer(c, k)
  <2> DEFINE new == Changed(call[c].row, r)
             row == IF server[k][r.id] # None THEN new ELSE [new EXCEPT !.on = TRUE]
  <2>1. /\ r.op = "update" /\ r.kind = k /\ r.id \in Ids /\ call[c].at = "save"
        /\ call[c].row \in Rows /\ Store(c, k, r.id, row)
    BY <1>1, <1>4 DEF SaveServer, Doing, EntryOK, ReqOK, OnServer, Entry
  <2>2. new \in Rows
    BY <1>1, <2>1 DEF Changed, Rows, ReqOK
  <2>3. row \in Rows
    BY <2>2 DEF Rows
  <2>4. server[k][r.id] = None \/ row = Changed(call[c].row, r)
    OBVIOUS
  <2> HIDE DEF row, new
  <2>5. UNCHANGED <<server, ever>> \/ Puts(c, k, r.id, row)
    BY <1>2, <2>1, <2>3, <2>4
  <2>6. QED
    BY <1>4, <2>1, <2>3, <2>5 DEF SaveServer
<1>5. CASE RemoveServer(c, k)
  BY <1>1, <1>5 DEF RemoveServer, Doing, Removes, ReqOK, OnServer
<1>6. CASE \/ CountName(c, k) \/ ReadServer(c, k) \/ CountOtherName(c, k)
           \/ CountUsers(c, k) \/ FindServer(c, k)
  BY <1>6 DEF CountName, ReadServer, CountOtherName, CountUsers, FindServer
<1>7. QED
  BY <1>3, <1>4, <1>5, <1>6 DEF OfServers

\* A step of a request leaves the entries of the others.
LEMMA OthersStay ==
  ASSUME CallsOK, NEW c \in Callers,
         \/ Begin(c) \/ DbFails(c) \/ OfJobs(c)
         \/ \E k \in Kinds : OfServers(c, k)
  PROVE  \A d \in Callers \ {c} : call'[d] = call[d] /\ answer'[d] = answer[d]
<1>1. ASSUME NEW code, Answer(c, code)
      PROVE  \A d \in Callers \ {c} : call'[d] = call[d] /\ answer'[d] = answer[d]
  BY <1>1 DEF Answer, CallsOK
<1>2. ASSUME NEW point, Goto(c, point)
      PROVE  \A d \in Callers \ {c} : call'[d] = call[d] /\ answer'[d] = answer[d]
  BY <1>2 DEF Goto, CallsOK
<1>3. CASE Begin(c)
  BY <1>3, BeginMoves DEF Begin, CallsOK
<1>4. CASE DbFails(c)
  BY <1>1, <1>4 DEF DbFails
<1>5. CASE OfJobs(c)
  <2>1. (\E code : Answer(c, code)) \/ (\E point : Goto(c, point))
    BY <1>5 DEF OfJobs, ReadJob, ValidateRelatedServers, ValidateRemoteRoot,
         JobNameTaken, CreateJob, UpdateJob, StoreJob, DeleteJob
  <2>2. QED
    BY <1>1, <1>2, <2>1
<1>6. ASSUME NEW k \in Kinds, OfServers(c, k)
      PROVE  \A d \in Callers \ {c} : call'[d] = call[d] /\ answer'[d] = answer[d]
  <2>1. CASE ReadServer(c, k)
    BY <1>1, <2>1 DEF ReadServer, CallsOK
  <2>2. ASSUME NEW i, NEW row, Store(c, k, i, row)
        PROVE  \E code : Answer(c, code)
    BY <2>2 DEF Store
  <2>3. CASE Insert(c, k) \/ SaveServer(c, k)
    BY <1>1, <2>2, <2>3 DEF Insert, SaveServer
  <2>4. CASE \/ CountName(c, k) \/ CountOtherName(c, k) \/ CountUsers(c, k)
             \/ FindServer(c, k) \/ RemoveServer(c, k)
    <3>1. (\E code : Answer(c, code)) \/ (\E point : Goto(c, point))
      BY <2>4 DEF CountName, CountOtherName, CountUsers, FindServer, RemoveServer
    <3>2. QED
      BY <1>1, <1>2, <3>1
  <2>5. QED
    BY <1>6, <2>1, <2>3, <2>4 DEF OfServers
<1>7. QED
  BY <1>3, <1>4, <1>5, <1>6

\* What validateRelatedServers has counted is there.
LEMMA CountedIsThere ==
  ASSUME CallsOK, NEW c \in Callers, OfJobs(c), NEW k \in Kinds, Checked(call'[c], k)
  PROVE  /\ UNCHANGED <<server, ref, ever>> /\ call'[c].req = call[c].req
         /\ \/ Checked(call[c], k)
            \/ call[c].req.refs[k] = None
            \/ server[k][call[c].req.refs[k]] # None
<1>1. call[c] \in Entry
  BY EntryTyped
<1>2. ~ \E code : Answer(c, code)
  BY DEF Answer, CallsOK, Checked, Idle
<1>3. ASSUME NEW point, Goto(c, point)
      PROVE  call'[c].req = call[c].req /\ call'[c].at = point
  BY <1>1, <1>3 DEF Goto, CallsOK, Entry
<1>4. CASE ReadJob(c)
  <2>1. PICK point \in {"data", "removeJob"} : Goto(c, point)
    BY <1>2, <1>4 DEF ReadJob
  <2>2. QED
    BY <1>3, <2>1 DEF Checked
<1>5. CASE ValidateRelatedServers(c)
  <2>1. CASE call[c].at = "data"
    <3>1. ~Missing(c, "data") /\ Goto(c, "media")
      BY <1>2, <1>5, <2>1 DEF ValidateRelatedServers
    <3>2. k = "data"
      BY <1>3, <3>1 DEF Checked
    <3>3. QED
      BY <1>3, <1>5, <3>1, <3>2 DEF Missing, Named, ValidateRelatedServers
  <2>2. CASE call[c].at = "media"
    <3>1. ~Missing(c, "media")
          /\ Goto(c, IF call[c].req.api THEN "root" ELSE "saveJob")
      BY <1>2, <1>5, <2>2 DEF ValidateRelatedServers
    <3>2. CASE k = "data"
      BY <1>3, <1>5, <2>2, <3>1, <3>2 DEF Checked, ValidateRelatedServers
    <3>3. CASE k = "media"
      BY <1>3, <1>5, <3>1, <3>3 DEF Missing, Named, ValidateRelatedServers
    <3>4. QED
      BY <3>2, <3>3, ServersAssumption
  <2>3. QED
    BY <1>5, <2>1, <2>2 DEF ValidateRelatedServers
<1>6. CASE ValidateRemoteRoot(c)
  <2>1. Goto(c, "saveJob")
    BY <1>2, <1>6 DEF ValidateRemoteRoot
  <2>2. QED
    BY <1>3, <1>6, <2>1 DEF Checked, ValidateRemoteRoot
<1>7. CASE JobNameTaken(c) \/ CreateJob(c) \/ UpdateJob(c) \/ DeleteJob(c)
  BY <1>2, <1>7 DEF JobNameTaken, CreateJob, UpdateJob, StoreJob, DeleteJob
<1>8. QED
  BY <1>4, <1>5, <1>6, <1>7 DEF OfJobs

\* What a statement on the jobs does to the tables.
LEMMA JobsWrite ==
  ASSUME CallsOK, NEW c \in Callers, OfJobs(c)
  PROVE  /\ UNCHANGED <<server, ever, calls>>
         /\ \/ UNCHANGED ref
            \/ /\ call[c].at = "saveJob" /\ call[c].req.job \in Jobs
               /\ call[c].req.refs \in Refs /\ call[c].req.op \in OnJob
               /\ ref' = [ref EXCEPT ![call[c].req.job] = call[c].req.refs]
            \/ \E j \in Jobs : ref' = [ref EXCEPT ![j] = None]
<1>1. EntryOK(call[c]) /\ ReqOK(call[c].req)
  BY EntryTyped DEF EntryOK
<1>2. CASE \/ ReadJob(c) \/ ValidateRelatedServers(c) \/ ValidateRemoteRoot(c)
           \/ JobNameTaken(c)
  BY <1>2 DEF ReadJob, ValidateRelatedServers, ValidateRemoteRoot, JobNameTaken
<1>3. CASE CreateJob(c) \/ UpdateJob(c)
  BY <1>1, <1>3 DEF CreateJob, UpdateJob, StoreJob, EntryOK, ReqOK, OnJob
<1>4. CASE DeleteJob(c)
  BY <1>1, <1>4 DEF DeleteJob, EntryOK, ReqOK, OnJob
<1>5. QED
  BY <1>2, <1>3, <1>4 DEF OfJobs

\* A request on a server that is not answered goes on with what it read.
LEMMA ServersMove ==
  ASSUME CallsOK, NEW c \in Callers, NEW k \in Kinds, OfServers(c, k), call'[c] # Idle
  PROVE  /\ UNCHANGED <<server, ref, ever>>
         /\ call'[c].req = call[c].req /\ call[c].req.kind = k
         /\ call'[c].at \in {"insert", "name", "save", "read", "remove"}
         /\ call[c].req.op = "update" =>
              \/ call'[c].row = server[k][call[c].req.id]
              \/ call[c].at = "name" /\ call'[c].row = call[c].row
         /\ call[c].req.op = "delete" =>
              Users(k, call[c].req.id) = {} \/ call[c].at = "read"
<1>1. call[c] \in Entry
  BY EntryTyped
<1>2. ~ \E code : Answer(c, code)
  BY DEF Answer, CallsOK
<1>3. ASSUME NEW point, Goto(c, point)
      PROVE  /\ call'[c].req = call[c].req /\ call'[c].at = point
             /\ call'[c].row = call[c].row
  BY <1>1, <1>3 DEF Goto, CallsOK, Entry
<1>4. CASE CountName(c, k)
  <2>1. Goto(c, "insert")
    BY <1>2, <1>4 DEF CountName
  <2>2. QED
    BY <1>3, <1>4, <2>1 DEF CountName, Doing
<1>5. CASE ReadServer(c, k)
  <2>1. call' = [call EXCEPT ![c].row = server[k][call[c].req.id],
                             ![c].at = IF call[c].req.name = server[k][call[c].req.id].name
                                       THEN "save" ELSE "name"]
    BY <1>2, <1>5 DEF ReadServer
  <2>2. /\ call'[c].req = call[c].req /\ call'[c].at \in {"save", "name"}
        /\ call'[c].row = server[k][call[c].req.id]
    BY <1>1, <2>1 DEF CallsOK, Entry
  <2>3. QED
    BY <1>5, <2>2 DEF ReadServer, Doing
<1>6. CASE CountOtherName(c, k)
  <2>1. Goto(c, "save")
    BY <1>2, <1>6 DEF CountOtherName
  <2>2. QED
    BY <1>3, <1>6, <2>1 DEF CountOtherName, Doing
<1>7. CASE CountUsers(c, k)
  <2>1. Goto(c, "read") /\ Users(k, call[c].req.id) = {}
    BY <1>2, <1>7 DEF CountUsers
  <2>2. QED
    BY <1>3, <1>7, <2>1 DEF CountUsers, Doing
<1>8. CASE FindServer(c, k)
  <2>1. Goto(c, "remove")
    BY <1>2, <1>8 DEF FindServer
  <2>2. QED
    BY <1>3, <1>8, <2>1 DEF FindServer, Doing
<1>9. CASE Insert(c, k) \/ SaveServer(c, k) \/ RemoveServer(c, k)
  BY <1>2, <1>9 DEF Insert, SaveServer, RemoveServer, Store
<1>10. QED
  BY <1>4, <1>5, <1>6, <1>7, <1>8, <1>9 DEF OfServers

--------------------------------------------------------------------------------
(* The tables: every job names servers that were there when it was          *)
(* validated.                                                               *)
LEMMA IdleChecksNothing == \A k : ~Checked(Idle, k)
BY DEF Idle, Checked

LEMMA InitTables == Init => TablesInv /\ RaceFree
<1> SUFFICES ASSUME Init PROVE TablesInv /\ RaceFree
  OBVIOUS
<1>1. StoreOK
  <2>1. server \in [Kinds -> [Ids -> Rows \cup {None}]] /\ ref \in [Jobs -> Refs \cup {None}]
    BY DEF Init
  <2>2. ever \in [Kinds -> SUBSET Ids] /\ calls \in 0..MaxCalls
    BY ServersAssumption DEF Init
  <2>3. raced \in BOOLEAN
    BY DEF Init
  <2>4. QED
    BY <2>1, <2>2, <2>3 DEF StoreOK
<1>2. CallsOK
  BY IdleOK DEF Init, CallsOK, Codes
<1>3. \A c \in Callers : call[c] = Idle
  BY DEF Init
<1>4. EverOK
  BY <1>3, IdleChecksNothing DEF Init, EverOK, Rowed, RefsExisted
<1>5. ~Racing
  BY <1>3 DEF Racing, Idle, NoRequest
<1>6. \A c \in Callers : Sound(call[c])
  BY <1>3, IdleChecksNothing DEF Sound, Idle, NoRequest
<1>7. NoDanglingReference
  BY DEF Init, NoDanglingReference
<1>8. QED
  BY <1>1, <1>2, <1>4, <1>5, <1>6, <1>7 DEF TablesInv, RaceFree

LEMMA NextCalls ==
  ASSUME CallsOK, StoreOK, Step
  PROVE  CallsOK'
<1>1. PICK c \in Callers :
        \/ Begin(c) \/ DbFails(c) \/ OfJobs(c)
        \/ \E k \in Kinds : OfServers(c, k)
  BY StepSplits
<1>2. CASE DbFails(c)
  BY <1>2, AnswerKeepsCalls DEF DbFails, Codes
<1>3. QED
  BY <1>1, <1>2, BeginKeepsCalls, JobsKeepCalls, ServersKeepCalls

LEMMA NextStore ==
  ASSUME CallsOK, StoreOK, Next
  PROVE  StoreOK'
<1>1. PICK c \in Callers :
        \/ Begin(c) \/ DbFails(c) \/ OfJobs(c)
        \/ \E k \in Kinds : OfServers(c, k)
  BY StepSplits DEF Next
<1>2. raced' \in BOOLEAN
  BY DEF Next, StoreOK, Racing
<1>3. CASE Begin(c)
  BY <1>2, <1>3, ServersAssumption DEF Begin, StoreOK
<1>4. CASE DbFails(c)
  BY <1>2, <1>4 DEF DbFails, StoreOK
<1>5. CASE OfJobs(c)
  <2>1. ref' \in [Jobs -> Refs \cup {None}]
    BY <1>5, JobsWrite DEF StoreOK
  <2>2. QED
    BY <1>2, <1>5, <2>1, JobsWrite DEF StoreOK
<1>6. ASSUME NEW k \in Kinds, OfServers(c, k)
      PROVE  StoreOK'
  <2>1. UNCHANGED <<ref, calls>>
    BY <1>6, ServersWrite
  <2>2. CASE UNCHANGED <<server, ever>>
    BY <1>2, <2>1, <2>2 DEF StoreOK
  <2>3. CASE \E i \in Ids, row \in Rows : Puts(c, k, i, row)
    BY <1>2, <2>1, <2>3, RowTyped DEF StoreOK, Puts
  <2>4. CASE Removes(c, k)
    BY <1>2, <2>1, <2>4, RowTyped DEF StoreOK, Removes
  <2>5. QED
    BY <1>6, <2>2, <2>3, <2>4, ServersWrite
<1>7. QED
  BY <1>1, <1>3, <1>4, <1>5, <1>6

LEMMA EverGrows ==
  ASSUME CallsOK, StoreOK, Step, NEW k \in Kinds
  PROVE  /\ ever[k] \subseteq ever'[k]
         /\ Rowed(k) \subseteq ever[k] => Rowed(k)' \subseteq ever'[k]
<1>1. PICK c \in Callers :
        \/ Begin(c) \/ DbFails(c) \/ OfJobs(c)
        \/ \E l \in Kinds : OfServers(c, l)
  BY StepSplits
<1>2. CASE Begin(c) \/ DbFails(c) \/ OfJobs(c)
  BY <1>2, JobsWrite DEF Begin, DbFails, Rowed
<1>3. ASSUME NEW l \in Kinds, OfServers(c, l)
      PROVE  /\ ever[k] \subseteq ever'[k]
             /\ Rowed(k) \subseteq ever[k] => Rowed(k)' \subseteq ever'[k]
  <2>1. CASE UNCHANGED <<server, ever>>
    BY <2>1 DEF Rowed
  <2>2. ASSUME NEW i \in Ids, NEW row \in Rows, Puts(c, l, i, row)
        PROVE  /\ ever[k] \subseteq ever'[k]
               /\ Rowed(k) \subseteq ever[k] => Rowed(k)' \subseteq ever'[k]
    BY <2>2 DEF Puts, Rowed, StoreOK
  <2>3. CASE Removes(c, l)
    BY <2>3 DEF Removes, Rowed, StoreOK
  <2>4. QED
    BY <1>3, <2>1, <2>2, <2>3, ServersWrite
<1>4. QED
  BY <1>1, <1>2, <1>3

LEMMA NextEver ==
  ASSUME TablesInv, Step
  PROVE  EverOK'
<1> USE DEF TablesInv
<1>1. PICK c \in Callers :
        \/ Begin(c) \/ DbFails(c) \/ OfJobs(c)
        \/ \E k \in Kinds : OfServers(c, k)
  BY StepSplits
<1>2. \A k \in Kinds : Rowed(k)' \subseteq ever'[k]
  BY EverGrows DEF EverOK
<1>3. ASSUME NEW d \in Callers, NEW k \in Kinds, Checked(call'[d], k),
             call'[d].req.refs[k] # None
      PROVE  call'[d].req.refs[k] \in ever'[k]
  <2>1. CASE d # c
    BY <1>1, <1>3, <2>1, EverGrows, OthersStay DEF EverOK
  <2>2. CASE d = c
    <3>1. ~Begin(c)
      BY <1>3, <2>2, BeginMoves DEF CallsOK, Checked
    <3>2. ~DbFails(c)
      BY <1>3, <2>2, IdleChecksNothing DEF DbFails, Answer, CallsOK
    <3>3. ~ \E l \in Kinds : OfServers(c, l)
      BY <1>3, <2>2, ServersMove, IdleChecksNothing DEF Checked
    <3>4. OfJobs(c)
      BY <1>1, <3>1, <3>2, <3>3
    <3> DEFINE i == call[c].req.refs[k]
    <3>5. /\ UNCHANGED ever /\ call'[c].req = call[c].req
          /\ Checked(call[c], k) \/ i = None \/ server[k][i] # None
      BY <1>3, <2>2, <3>4, CountedIsThere
    <3>6. CASE Checked(call[c], k)
      BY <1>3, <2>2, <3>5, <3>6 DEF EverOK
    <3>7. CASE server[k][i] # None
      <4>1. i \in Ids
        <5>1. EntryOK(call'[c]) /\ ReqOK(call[c].req)
          BY EntryTyped, NextCalls, <3>5 DEF EntryOK, CallsOK
        <5>2. call[c].req.op \in OnJob
          BY <1>3, <2>2, <3>5, <5>1 DEF Checked, EntryOK
        <5>3. QED
          BY <1>3, <2>2, <3>5, <5>1, <5>2 DEF ReqOK, Refs
      <4>2. QED
        BY <2>2, <3>5, <3>7, <4>1 DEF EverOK, Rowed
    <3>8. QED
      BY <1>3, <2>2, <3>5, <3>6, <3>7
  <2>3. QED
    BY <2>1, <2>2
<1>4. RefsExisted'
  <2>1. SUFFICES ASSUME NEW j \in Jobs, ref'[j] # None, NEW k \in Kinds, ref'[j][k] # None
                 PROVE  ref'[j][k] \in ever'[k]
    BY DEF RefsExisted
  <2>2. CASE ref'[j] = ref[j]
    BY <2>1, <2>2, EverGrows DEF EverOK, RefsExisted
  <2>3. CASE ref'[j] # ref[j]
    <3>1. OfJobs(c)
      BY <1>1, <2>3, ServersWrite DEF Begin, DbFails
    <3>2. call[c].at = "saveJob" /\ ref'[j] = call[c].req.refs
      BY <2>1, <2>3, <3>1, JobsWrite DEF StoreOK
    <3>3. QED
      BY <2>1, <3>2, EverGrows DEF EverOK, Checked
  <2>4. QED
    BY <2>2, <2>3
<1>5. QED
  BY <1>2, <1>3, <1>4 DEF EverOK

LEMMA NextTables == TablesInv /\ [Next]_vars => TablesInv'
<1> SUFFICES ASSUME TablesInv, [Next]_vars PROVE TablesInv'
  OBVIOUS
<1>1. CASE Next
  BY <1>1, NextCalls, NextStore, NextEver DEF TablesInv, Next
<1>2. CASE UNCHANGED vars
  <2>1. CallsOK' = CallsOK
    BY <1>2 DEF vars, CallsOK
  <2>2. StoreOK' = StoreOK
    BY <1>2 DEF vars, StoreOK
  <2>3. EverOK' = EverOK
    BY <1>2 DEF vars, EverOK, Rowed, RefsExisted
  <2>4. QED
    BY <2>1, <2>2, <2>3 DEF TablesInv
<1>3. QED
  BY <1>1, <1>2

\* The inductive invariant of the tables and the requests.
THEOREM TablesInvariant == Spec => []TablesInv
<1>1. Init => TablesInv
  BY InitTables
<1>2. QED
  BY <1>1, NextTables, PTL DEF Spec

\* Every request is at a point of its own handler, with the row it read, and
\* every job names servers that were there when it was validated.
THEOREM TablesOKHolds == Spec => []TablesOK
<1>1. TablesInv => TablesOK
  <2> SUFFICES ASSUME TablesInv PROVE TablesOK
    OBVIOUS
  <2>1. ASSUME NEW c \in Callers
        PROVE  /\ call[c].at \in Points
               /\ call[c].req \in ServerRequests \cup JobRequests \cup {NoRequest}
               /\ call[c].row \in Rows \cup {None}
               /\ call[c] # Idle => answer[c] = "none"
               /\ call[c].at = "save" => call[c].row # None
               /\ call[c].at = "root" => call[c].req.refs["data"] # None
    <3>1. call[c] \in Entry /\ EntryOK(call[c]) /\ ReqOK(call[c].req)
          /\ (call[c] # Idle => answer[c] = "none")
      BY EntryTyped DEF TablesInv, EntryOK
    <3>2. QED
      BY <3>1 DEF Entry, Requests, EntryOK, ReqOK
  <2>2. TypeOK
    BY <2>1 DEF TablesInv, StoreOK, TypeOK
  <2>3. QED
    BY <2>2 DEF TablesInv, EverOK, TablesOK
<1>2. QED
  BY <1>1, TablesInvariant, PTL

--------------------------------------------------------------------------------
(* Without a race: what a request has found still is so.                    *)
LEMMA JobsMove ==
  ASSUME CallsOK, NEW c \in Callers, OfJobs(c)
  PROVE  \/ call'[c] = Idle
         \/ call'[c].req = call[c].req /\ call[c].req.op \in OnJob \cup {"deleteJob"}
<1>1. EntryOK(call[c]) /\ call[c] \in Entry
  BY EntryTyped
<1>2. (\E code : Answer(c, code)) \/ (\E point : Goto(c, point))
  BY DEF OfJobs, ReadJob, ValidateRelatedServers, ValidateRemoteRoot,
     JobNameTaken, CreateJob, UpdateJob, StoreJob, DeleteJob
<1>3. call[c].at \in {"readJob", "data", "media", "root", "saveJob", "removeJob"}
  BY DEF OfJobs, ReadJob, ValidateRelatedServers, ValidateRemoteRoot,
     JobNameTaken, CreateJob, UpdateJob, StoreJob, DeleteJob
<1>4. call[c].req.op \in OnJob \cup {"deleteJob"}
  BY <1>1, <1>3 DEF EntryOK, OnJob
<1>5. CASE \E code : Answer(c, code)
  BY <1>5 DEF Answer, CallsOK
<1>6. CASE \E point : Goto(c, point)
  BY <1>1, <1>4, <1>6 DEF Goto, CallsOK, Entry
<1>7. QED
  BY <1>2, <1>5, <1>6

LEMMA NoRace ==
  ASSUME ~Racing, NEW c \in Callers, NEW d \in Callers
  PROVE  /\ ~(call[c].req.op = "delete" /\ call[d].req.op \in OnJob)
         /\ ~(/\ c # d /\ call[c].req.op = "update" /\ call[d].req.op \in {"update", "delete"}
              /\ call[d].req.kind = call[c].req.kind /\ call[d].req.id = call[c].req.id)
BY DEF Racing, OnJob

\* A row that is there stays there, unless a request to delete it removes it.
LEMMA RowStays ==
  ASSUME TablesInv, NEW k \in Kinds, NEW i \in Ids, server[k][i] # None,
         NEW c \in Callers,
         \/ Begin(c) \/ DbFails(c) \/ OfJobs(c)
         \/ \E l \in Kinds : OfServers(c, l)
  PROVE  \/ server'[k][i] = server[k][i]
         \/ /\ server'[k][i] # None
            /\ call[c].req.op = "update" /\ call[c].req.kind = k /\ call[c].req.id = i
            /\ call[c].at = "save" /\ call[c] # Idle /\ answer'[c] = "ok"
            /\ server'[k][i] = Changed(call[c].row, call[c].req)
         \/ /\ server'[k][i] = None
            /\ call[c].req.op = "delete" /\ call[c].req.kind = k /\ call[c].req.id = i
            /\ call[c].at = "remove"
<1>1. CASE Begin(c) \/ DbFails(c) \/ OfJobs(c)
  BY <1>1, JobsWrite DEF TablesInv, Begin, DbFails
<1>2. ASSUME NEW l \in Kinds, OfServers(c, l)
      PROVE  \/ server'[k][i] = server[k][i]
             \/ /\ server'[k][i] # None
                /\ call[c].req.op = "update" /\ call[c].req.kind = k /\ call[c].req.id = i
                /\ call[c].at = "save" /\ call[c] # Idle /\ answer'[c] = "ok"
                /\ server'[k][i] = Changed(call[c].row, call[c].req)
             \/ /\ server'[k][i] = None
                /\ call[c].req.op = "delete" /\ call[c].req.kind = k /\ call[c].req.id = i
                /\ call[c].at = "remove"
  <2>1. ASSUME NEW j \in Ids, NEW row \in Rows, Puts(c, l, j, row), l # k \/ j # i
        PROVE  server'[k][i] = server[k][i]
    BY <2>1, RowTyped DEF TablesInv, Puts
  <2>2. ASSUME NEW row \in Rows, Puts(c, k, i, row)
        PROVE  /\ server'[k][i] # None
               /\ call[c].req.op = "update" /\ call[c].req.kind = k /\ call[c].req.id = i
               /\ call[c].at = "save" /\ call[c] # Idle /\ answer'[c] = "ok"
               /\ server'[k][i] = Changed(call[c].row, call[c].req)
    <3>1. server'[k][i] = row
      BY <2>2, RowTyped DEF TablesInv, Puts
    <3>2. QED
      BY <2>2, <3>1, ServersAssumption DEF Puts
  <2>3. CASE Removes(c, l)
    <3>1. CASE l # k \/ call[c].req.id # i
      BY <2>3, <3>1, RowTyped DEF TablesInv, Removes
    <3>2. CASE l = k /\ call[c].req.id = i
      BY <2>3, <3>2, RowTyped DEF TablesInv, Removes
    <3>3. QED
      BY <3>1, <3>2
  <2>4. CASE UNCHANGED <<server, ever>>
    BY <2>4
  <2>5. QED
    BY <1>2, <2>1, <2>2, <2>3, <2>4, ServersWrite DEF TablesInv
<1>3. QED
  BY <1>1, <1>2

LEMMA NextSoundRefs ==
  ASSUME TablesInv, RaceFree, ~raced, NEW c \in Callers,
         \/ Begin(c) \/ DbFails(c) \/ OfJobs(c)
         \/ \E l \in Kinds : OfServers(c, l),
         CallsOK', NEW d \in Callers, NEW k \in Kinds, Checked(call'[d], k),
         call'[d].req.refs[k] # None
  PROVE  server'[k][call'[d].req.refs[k]] # None
<1> DEFINE i == call'[d].req.refs[k]
<1>1. i \in Ids /\ call'[d].req.op \in OnJob
  <2>1. EntryOK(call'[d]) /\ ReqOK(call'[d].req)
    BY DEF CallsOK, EntryOK
  <2>2. call'[d].req.op \in OnJob
    BY <2>1 DEF Checked, EntryOK
  <2>3. QED
    BY <2>1, <2>2 DEF ReqOK, Refs
<1>2. CASE d # c
  <2>1. call'[d] = call[d]
    BY <1>2, OthersStay DEF TablesInv
  <2>2. server[k][i] # None
    BY <2>1 DEF RaceFree, Sound
  <2>3. call[c].req.op # "delete"
    BY <1>1, <2>1, NoRace DEF RaceFree
  <2>4. QED
    BY <1>1, <2>2, <2>3, RowStays
<1>3. CASE d = c
  <2>1. ~Begin(c)
    BY <1>3, BeginMoves DEF TablesInv, CallsOK, Checked
  <2>2. ~DbFails(c)
    BY <1>3, IdleChecksNothing DEF DbFails, Answer, TablesInv, CallsOK
  <2>3. ~ \E l \in Kinds : OfServers(c, l)
    BY <1>3, ServersMove, IdleChecksNothing DEF Checked, TablesInv
  <2>4. OfJobs(c)
    BY <2>1, <2>2, <2>3
  <2>5. /\ UNCHANGED server /\ call'[c].req = call[c].req
        /\ Checked(call[c], k) \/ call[c].req.refs[k] = None
             \/ server[k][call[c].req.refs[k]] # None
    BY <1>3, <2>4, CountedIsThere DEF TablesInv
  <2>6. QED
    BY <1>3, <2>5 DEF RaceFree, Sound
<1>4. QED
  BY <1>2, <1>3

LEMMA NextSoundUsers ==
  ASSUME TablesInv, RaceFree, ~raced, NEW c \in Callers,
         \/ Begin(c) \/ DbFails(c) \/ OfJobs(c)
         \/ \E l \in Kinds : OfServers(c, l),
         NEW d \in Callers, call'[d].req.op = "delete", call'[d].at \in {"read", "remove"}
  PROVE  Users(call[d].req.kind, call[d].req.id)' = {}
<1> USE DEF TablesInv
<1>1. CASE d # c
  <2>1. call'[d] = call[d] /\ Users(call[d].req.kind, call[d].req.id) = {}
    BY <1>1, OthersStay DEF RaceFree, Sound
  <2>2. CASE UNCHANGED ref
    BY <2>1, <2>2 DEF Users
  <2>3. CASE ~UNCHANGED ref
    <3>1. OfJobs(c)
      BY <2>3, ServersWrite DEF Begin, DbFails
    <3>2. call[c].req.op \notin OnJob
      BY <2>1, NoRace DEF RaceFree
    <3>3. PICK j \in Jobs : ref' = [ref EXCEPT ![j] = None]
      BY <2>3, <3>1, <3>2, JobsWrite
    <3>4. QED
      BY <2>1, <3>3 DEF Users, StoreOK
  <2>4. QED
    BY <2>2, <2>3
<1>2. CASE d = c
  <2>1. ~Begin(c)
    BY <1>2, BeginMoves DEF CallsOK
  <2>2. ~DbFails(c)
    BY <1>2 DEF DbFails, Answer, CallsOK, Idle
  <2>3. ~OfJobs(c)
    BY <1>2, JobsMove DEF Idle, OnJob
  <2>4. PICK l \in Kinds : OfServers(c, l)
    BY <2>1, <2>2, <2>3
  <2>5. call'[c] # Idle
    BY <1>2 DEF Idle
  <2>6. /\ UNCHANGED ref /\ call'[c].req = call[c].req /\ call[c].req.kind = l
        /\ Users(l, call[c].req.id) = {} \/ call[c].at = "read"
    BY <1>2, <2>4, <2>5, ServersMove
  <2>7. Users(l, call[c].req.id) = {}
    BY <1>2, <2>6 DEF RaceFree, Sound
  <2>8. QED
    BY <1>2, <2>6, <2>7 DEF Users
<1>3. QED
  BY <1>1, <1>2

LEMMA NextSoundRow ==
  ASSUME TablesInv, RaceFree, ~raced, NEW c \in Callers,
         \/ Begin(c) \/ DbFails(c) \/ OfJobs(c)
         \/ \E l \in Kinds : OfServers(c, l),
         NEW d \in Callers, call'[d].req.op = "update", call'[d].at \in {"name", "save"}
  PROVE  call'[d].row = server'[call'[d].req.kind][call'[d].req.id]
<1> USE DEF TablesInv
<1>1. CASE d # c
  <2> DEFINE k == call[d].req.kind
             i == call[d].req.id
  <2>1. call'[d] = call[d]
    BY <1>1, OthersStay
  <2>2. /\ call[d].row = server[k][i] /\ call[d].row # None
        /\ k \in Kinds /\ i \in Ids
    BY <2>1, EntryTyped DEF RaceFree, Sound, EntryOK, ReqOK, OnServer
  <2>3. ~(call[c].req.op \in {"update", "delete"} /\ call[c].req.kind = k /\ call[c].req.id = i)
    BY <1>1, <2>1, NoRace DEF RaceFree
  <2>4. server'[k][i] = server[k][i]
    BY <2>2, <2>3, RowStays
  <2>5. QED
    BY <2>1, <2>2, <2>4
<1>2. CASE d = c
  <2>1. ~Begin(c)
    BY <1>2, BeginMoves DEF CallsOK
  <2>2. ~DbFails(c)
    BY <1>2 DEF DbFails, Answer, CallsOK, Idle
  <2>3. ~OfJobs(c)
    BY <1>2, JobsMove DEF Idle, OnJob
  <2>4. PICK l \in Kinds : OfServers(c, l)
    BY <2>1, <2>2, <2>3
  <2>5. call'[c] # Idle
    BY <1>2 DEF Idle
  <2>6. /\ UNCHANGED server /\ call'[c].req = call[c].req /\ call[c].req.kind = l
        /\ \/ call'[c].row = server[l][call[c].req.id]
           \/ call[c].at = "name" /\ call'[c].row = call[c].row
    BY <1>2, <2>4, <2>5, ServersMove
  <2>7. QED
    BY <1>2, <2>6 DEF RaceFree, Sound
<1>3. QED
  BY <1>1, <1>2

LEMMA NextDangling ==
  ASSUME TablesInv, RaceFree, ~raced, NEW c \in Callers,
         \/ Begin(c) \/ DbFails(c) \/ OfJobs(c)
         \/ \E l \in Kinds : OfServers(c, l),
         NEW j \in Jobs, ref'[j] # None, NEW k \in Kinds, ref'[j][k] # None
  PROVE  server'[k][ref'[j][k]] # None
<1> USE DEF TablesInv
<1> DEFINE i == ref'[j][k]
<1>1. CASE ref'[j] = ref[j]
  <2>1. server[k][i] # None /\ i \in Ids
    BY <1>1 DEF RaceFree, NoDanglingReference, StoreOK, Refs
  <2>2. j \in Users(k, i)
    BY <1>1 DEF Users
  <2>3. ~(call[c].req.op = "delete" /\ call[c].req.kind = k /\ call[c].req.id = i
          /\ call[c].at = "remove")
    BY <2>2 DEF RaceFree, Sound
  <2>4. QED
    BY <2>1, <2>3, RowStays
<1>2. CASE ref'[j] # ref[j]
  <2>1. OfJobs(c)
    BY <1>2, ServersWrite DEF Begin, DbFails
  <2>2. call[c].at = "saveJob" /\ ref'[j] = call[c].req.refs /\ UNCHANGED server
    BY <1>2, <2>1, JobsWrite DEF StoreOK
  <2>3. QED
    BY <2>2 DEF RaceFree, Sound, Checked
<1>3. QED
  BY <1>1, <1>2

LEMMA NextRaceFree == TablesInv /\ RaceFree /\ [Next]_vars => RaceFree'
<1> SUFFICES ASSUME TablesInv, RaceFree, [Next]_vars PROVE RaceFree'
  OBVIOUS
<1>1. CASE Next
  <2>1. SUFFICES ASSUME ~raced'
                 PROVE  /\ ~Racing' /\ (\A d \in Callers : Sound(call[d])')
                        /\ NoDanglingReference'
    BY DEF RaceFree
  <2>2. ~raced /\ ~Racing'
    BY <1>1, <2>1 DEF Next
  <2>3. CallsOK'
    BY <1>1, NextTables DEF TablesInv
  <2>4. PICK c \in Callers :
          \/ Begin(c) \/ DbFails(c) \/ OfJobs(c)
          \/ \E k \in Kinds : OfServers(c, k)
    BY <1>1, StepSplits DEF Next, TablesInv
  <2>5. ASSUME NEW d \in Callers
        PROVE  Sound(call[d])'
    BY <2>2, <2>3, <2>4, NextSoundRefs, NextSoundUsers, NextSoundRow DEF Sound
  <2>6. NoDanglingReference'
    BY <2>2, <2>4, NextDangling DEF NoDanglingReference
  <2>7. QED
    BY <2>2, <2>5, <2>6
<1>2. CASE UNCHANGED vars
  <2>1. Racing' = Racing /\ NoDanglingReference' = NoDanglingReference
    BY <1>2 DEF vars, Racing, NoDanglingReference
  <2>2. \A d \in Callers : Sound(call[d])' = Sound(call[d])
    BY <1>2 DEF vars, Sound, Users
  <2>3. QED
    BY <1>2, <2>1, <2>2 DEF RaceFree, vars
<1>3. QED
  BY <1>1, <1>2

\* A job refers only to servers that exist, as long as no server is deleted
\* while a job is being saved: a delete that found no user then still has none
\* when it removes the row, and the servers a job was validated with are still
\* there when it is saved.
THEOREM NoDanglingReferenceHolds == Spec => []NoDanglingReference
<1>1. Init => TablesInv /\ RaceFree
  BY InitTables
<1>2. RaceFree => NoDanglingReference
  BY DEF RaceFree, NoDanglingReference
<1>3. QED
  BY <1>1, <1>2, NextTables, NextRaceFree, PTL DEF Spec

--------------------------------------------------------------------------------
(* What the callers are told.                                               *)
TrueAnswer(c) ==
  LET r == call[c].req IN
    /\ Said(c, "duplicate_name") /\ r.op \in {"create", "update"} =>
         \E i \in Rowed(r.kind) :
           /\ \/ server[r.kind][i].name = r.name
              \/ r.kind = "media" /\ server[r.kind][i].uid = UidOf(c)
           /\ r.op = "update" => i # r.id
    /\ Said(c, "in_use") => Users(r.kind, r.id) # {}
    /\ Said(c, "not_found") /\ r.op \in {"update", "delete"} =>
         server[r.kind][r.id] = None

LEMMA SaidIsAnswered ==
  ASSUME CallsOK, NEW c \in Callers, NEW code, NEW said, Answer(c, said), Said(c, code)
  PROVE  said = code
BY DEF Answer, Said, CallsOK

LEMMA NotSaid ==
  ASSUME CallsOK, NEW c \in Callers, NEW point, Goto(c, point), NEW code
  PROVE  ~Said(c, code)
BY DEF Goto, Said

\* A UNIQUE violation that is answered as a duplicate name is one of the name, or
\* of the uid of a media server, with another row.
LEMMA ConflictIsReal ==
  ASSUME NEW k \in Kinds, NEW row, NEW but, "duplicate_name" \in Conflicts(k, row, but)
  PROVE  \E i \in Rowed(k) \ {but} :
           server[k][i].name = row.name \/ (k = "media" /\ server[k][i].uid = row.uid)
<1>1. CASE k = "data"
  BY <1>1 DEF Conflicts, NameTaken
<1>2. CASE k # "data"
  <2>1. NameTaken(k, row.name, but) \/ UidTaken(k, row.uid, but)
    BY <1>2 DEF Conflicts
  <2>2. QED
    BY <1>2, <2>1, ServersAssumption DEF NameTaken, UidTaken
<1>3. QED
  BY <1>1, <1>2

LEMMA StoreAnswers ==
  ASSUME CallsOK, NEW c \in Callers, NEW k, NEW i, NEW row, Store(c, k, i, row),
         NEW code, Said(c, code)
  PROVE  code = "ok" \/ code \in Conflicts(k, row, i)
BY SaidIsAnswered DEF Store

LEMMA ServersAnswerTruly ==
  ASSUME TablesInv, NEW c \in Callers, NEW k \in Kinds, OfServers(c, k)
  PROVE  TrueAnswer(c)
<1> USE DEF TablesInv
<1> DEFINE r == call[c].req
<1>1. /\ EntryOK(call[c]) /\ ReqOK(r) /\ call[c] \in Entry
      /\ r.kind = k /\ r.op \in OnServer /\ r.id \in Ids
  BY EntryTyped DEF EntryOK, ReqOK, OfServers, CountName, Insert, ReadServer, CountOtherName,
       SaveServer, CountUsers, FindServer, RemoveServer, Doing, OnServer
<1>2. CASE CountName(c, k)
  <2>1. ASSUME NEW code, Said(c, code)
        PROVE  code = "duplicate_name" /\ NameTaken(k, r.name, None)
    BY <1>2, <2>1, SaidIsAnswered, NotSaid DEF CountName
  <2>2. r.op = "create"
    BY <1>2 DEF CountName, Doing
  <2>3. QED
    BY <1>1, <2>1, <2>2 DEF TrueAnswer, NameTaken
<1>3. CASE Insert(c, k)
  <2> DEFINE row == [name |-> r.name, config |-> r.config, uid |-> r.config, on |-> TRUE]
  <2>1. PICK i \in Ids \ Rowed(k) : Store(c, k, i, row)
    BY <1>3 DEF Insert
  <2>2. r.op = "create" /\ row.name = r.name /\ row.uid = UidOf(c)
    BY <1>3 DEF Insert, Doing, UidOf
  <2> HIDE DEF row
  <2>3. ASSUME NEW code, Said(c, code)
        PROVE  code = "ok" \/ code \in Conflicts(k, row, i)
    BY <2>1, <2>3, StoreAnswers
  <2>4. "in_use" \notin Conflicts(k, row, i) /\ "not_found" \notin Conflicts(k, row, i)
    BY DEF Conflicts
  <2>5. Said(c, "duplicate_name") => "duplicate_name" \in Conflicts(k, row, i)
    BY <2>3
  <2>6. ~Said(c, "in_use") /\ ~Said(c, "not_found")
    BY <2>3, <2>4
  <2>7. QED
    BY <1>1, <2>2, <2>5, <2>6, ConflictIsReal DEF TrueAnswer
<1>4. CASE SaveServer(c, k)
  <2> DEFINE new == Changed(call[c].row, r)
             row == IF server[k][r.id] # None THEN new ELSE [new EXCEPT !.on = TRUE]
  <2>1. r.op = "update" /\ call[c].row \in Rows /\ Store(c, k, r.id, row)
    BY <1>1, <1>4 DEF SaveServer, Doing, EntryOK, Entry
  <2>2. new.name = r.name /\ new.uid = UidOf(c) /\ new \in Rows
    BY <1>1, <2>1 DEF Changed, Rows, UidOf, ReqOK
  <2>3. row.name = r.name /\ row.uid = UidOf(c)
    BY <2>2 DEF Rows
  <2> HIDE DEF row, new
  <2>4. ASSUME NEW code, Said(c, code)
        PROVE  code = "ok" \/ code \in Conflicts(k, row, r.id)
    BY <2>1, <2>4, StoreAnswers
  <2>5. "in_use" \notin Conflicts(k, row, r.id) /\ "not_found" \notin Conflicts(k, row, r.id)
    BY DEF Conflicts
  <2>6. Said(c, "duplicate_name") => "duplicate_name" \in Conflicts(k, row, r.id)
    BY <2>4
  <2>7. ~Said(c, "in_use") /\ ~Said(c, "not_found")
    BY <2>4, <2>5
  <2>8. QED
    BY <1>1, <2>3, <2>6, <2>7, ConflictIsReal DEF TrueAnswer
<1>5. CASE ReadServer(c, k)
  <2>1. CASE server[k][r.id] = None
    <3>1. ASSUME NEW code, Said(c, code)
          PROVE  code = "not_found"
      BY <1>5, <2>1, <3>1, SaidIsAnswered DEF ReadServer
    <3>2. QED
      BY <1>1, <2>1, <3>1 DEF TrueAnswer
  <2>2. CASE server[k][r.id] # None
    BY <1>5, <2>2 DEF ReadServer, TrueAnswer, Said
  <2>3. QED
    BY <2>1, <2>2
<1>6. CASE CountOtherName(c, k)
  <2>1. ASSUME NEW code, Said(c, code)
        PROVE  code = "duplicate_name" /\ NameTaken(k, r.name, r.id)
    BY <1>6, <2>1, SaidIsAnswered, NotSaid DEF CountOtherName
  <2>2. QED
    BY <1>1, <2>1 DEF TrueAnswer, NameTaken
<1>7. CASE CountUsers(c, k)
  <2>1. ASSUME NEW code, Said(c, code)
        PROVE  code = "in_use" /\ Users(k, r.id) # {}
    BY <1>7, <2>1, SaidIsAnswered, NotSaid DEF CountUsers
  <2>2. QED
    BY <1>1, <2>1 DEF TrueAnswer
<1>8. CASE FindServer(c, k)
  <2>1. ASSUME NEW code, Said(c, code)
        PROVE  code = "not_found" /\ server[k][r.id] = None
    BY <1>8, <2>1, SaidIsAnswered, NotSaid DEF FindServer
  <2>2. QED
    BY <1>1, <2>1 DEF TrueAnswer
<1>9. CASE RemoveServer(c, k)
  <2>1. ASSUME NEW code, Said(c, code)
        PROVE  code = IF server[k][r.id] = None THEN "not_found" ELSE "ok"
    BY <1>9, <2>1, SaidIsAnswered DEF RemoveServer
  <2>2. QED
    BY <1>1, <2>1 DEF TrueAnswer
<1>10. QED
  BY <1>2, <1>3, <1>4, <1>5, <1>6, <1>7, <1>8, <1>9 DEF OfServers

LEMMA NextAnswersTruly ==
  ASSUME TablesInv, Next, NEW d \in Callers
  PROVE  TrueAnswer(d)
<1> USE DEF TablesInv
<1>1. PICK c \in Callers :
        \/ Begin(c) \/ DbFails(c) \/ OfJobs(c)
        \/ \E k \in Kinds : OfServers(c, k)
  BY StepSplits DEF Next
<1>2. CASE d # c
  BY <1>1, <1>2, OthersStay DEF TrueAnswer, Said
<1>3. CASE d = c /\ Begin(c)
  BY <1>3 DEF Begin, TrueAnswer, Said, CallsOK
<1>4. CASE d = c /\ DbFails(c)
  <2>1. ASSUME NEW code, Said(c, code)
        PROVE  code = "db_error"
    BY <1>4, <2>1, SaidIsAnswered DEF DbFails
  <2>2. QED
    BY <1>4, <2>1 DEF TrueAnswer
<1>5. CASE d = c /\ OfJobs(c)
  <2>1. call[c].req.op \in OnJob \cup {"deleteJob"}
    <3>1. EntryOK(call[c])
      BY EntryTyped
    <3>2. call[c].at \in {"readJob", "data", "media", "root", "saveJob", "removeJob"}
      BY <1>5 DEF OfJobs, ReadJob, ValidateRelatedServers, ValidateRemoteRoot,
         JobNameTaken, CreateJob, UpdateJob, StoreJob, DeleteJob
    <3>3. QED
      BY <3>1, <3>2 DEF EntryOK, OnJob
  <2>2. \/ \E code \in {"not_found", "invalid", "duplicate_name", "ok"} : Answer(c, code)
        \/ \E point : Goto(c, point)
    BY <1>5 DEF OfJobs, ReadJob, ValidateRelatedServers, ValidateRemoteRoot,
       JobNameTaken, CreateJob, UpdateJob, StoreJob, DeleteJob
  <2>3. ~Said(c, "in_use")
    BY <2>2, SaidIsAnswered, NotSaid
  <2>4. QED
    BY <1>5, <2>1, <2>3 DEF TrueAnswer, OnJob
<1>6. CASE d = c /\ \E k \in Kinds : OfServers(c, k)
  BY <1>6, ServersAnswerTruly
<1>7. QED
  BY <1>1, <1>2, <1>3, <1>4, <1>5, <1>6

\* A refusal is true when it is given, whatever other requests have done since
\* the handler read: the handlers refuse by their last read, and the indexes by the
\* row they protect.
THEOREM AnswersAreTrueHolds == Spec => AnswersAreTrue
<1>1. Init => TablesInv
  BY InitTables
<1>2. TablesInv /\ [Next]_vars => [\A c \in Callers : TrueAnswer(c)]_vars
  BY NextAnswersTruly
<1>3. QED
  BY <1>1, <1>2, NextTables, PTL DEF Spec, AnswersAreTrue, TrueAnswer

--------------------------------------------------------------------------------
(* What an update changes.                                                  *)
AsAsked(k, i) ==
  (~raced /\ server'[k][i] # None /\ server'[k][i] # server[k][i]) =>
    \E c \in Callers :
      /\ call[c].req.op = "update" /\ call[c].req.id = i /\ Said(c, "ok")
      /\ call[c].req.on = None => server'[k][i].on = server[k][i].on

LEMMA NextAsAsked ==
  ASSUME TablesInv, RaceFree, Next
  PROVE  \A k \in Kinds : \A i \in Rowed(k) : AsAsked(k, i)
<1> USE DEF TablesInv
<1>1. PICK c \in Callers :
        \/ Begin(c) \/ DbFails(c) \/ OfJobs(c)
        \/ \E k \in Kinds : OfServers(c, k)
  BY StepSplits DEF Next
<1>2. SUFFICES ASSUME NEW k \in Kinds, NEW i \in Rowed(k), ~raced,
                      server'[k][i] # None, server'[k][i] # server[k][i]
               PROVE  /\ call[c].req.op = "update" /\ call[c].req.id = i /\ Said(c, "ok")
                      /\ call[c].req.on = None => server'[k][i].on = server[k][i].on
  BY DEF AsAsked
<1>3. i \in Ids /\ server[k][i] # None
  BY DEF Rowed
<1>4. /\ call[c].req.op = "update" /\ call[c].req.kind = k /\ call[c].req.id = i
      /\ call[c].at = "save" /\ call[c] # Idle /\ answer'[c] = "ok"
      /\ server'[k][i] = Changed(call[c].row, call[c].req)
  BY <1>1, <1>2, <1>3, RowStays
<1>5. call[c].row = server[k][i]
  BY <1>2, <1>4 DEF RaceFree, Sound
<1>6. Said(c, "ok")
  BY <1>4, EntryTyped DEF Said
<1>7. ASSUME call[c].req.on = None
      PROVE  server'[k][i].on = server[k][i].on
  <2>1. server[k][i] \in Rows
    BY <1>3, RowTyped
  <2>2. QED
    BY <1>4, <1>5, <1>7, <2>1 DEF Changed, Rows
<1>8. QED
  BY <1>4, <1>6, <1>7

\* Without a race, an update writes the row as it still is, but for the fields it
\* names: a field that is not sent is not changed, nor is any other row.
THEOREM OnlyAskedIsChangedHolds == Spec => OnlyAskedIsChanged
<1>1. Init => TablesInv /\ RaceFree
  BY InitTables
<1>2. TablesInv /\ RaceFree /\ [Next]_vars
        => [\A k \in Kinds : \A i \in Rowed(k) : AsAsked(k, i)]_vars
  BY NextAsAsked
<1>3. QED
  BY <1>1, <1>2, NextTables, NextRaceFree, PTL DEF Spec, OnlyAskedIsChanged, AsAsked

================================================================================
