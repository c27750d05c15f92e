------------------------------ MODULE Sessions ------------------------------
(***************************************************************************)
(* Browser sessions: one encrypted record in Valkey, several web processes *)
(* serving its requests, and the two-level single flight that renews it: a *)
(* task shared inside a process, a Valkey lock between processes.          *)
(*                                                                         *)
(* Source: backend/session_auth.py.  The identity provider and Valkey are  *)
(* modelled from how that file uses them.  One session is modelled, since  *)
(* every key carries the session id.  Time is abstracted to whether the    *)
(* access token is within 60 seconds of its end; the lock's TTL (15 s) is  *)
(* longer than the owner's window (10 s plus the release), so the lock     *)
(* lapses only after its owner has died or failed to release it.           *)
(***************************************************************************)
EXTENDS Integers, FiniteSets

CONSTANTS
  Procs,      \* web processes
  Reqs,       \* requests that carry the session's cookie
  ProcOf,     \* the process that serves each request
  Logouts,    \* the requests that are POST /auth/session/logout
  Callbacks,  \* GET /auth/callback requests of one login flow
  Rotates,    \* whether the provider may rotate, or keep, the refresh token
  MaxSeals,   \* bound: records ever stored
  MaxFaults   \* bound: provider, Valkey and process failures

VARIABLES
  record,   \* SESSION_PREFIX + id: the stored record, if any
  lock,     \* LOCK_PREFIX + id: the process whose token it holds, or "free"
  flow,     \* FLOW_PREFIX + state: "stored" or "gone"
  cb,       \* per callback: where it stands
  task,     \* per process: _local_refresh_tasks[id]
  req,      \* per request: authenticate_session and what follows it
  closing,  \* processes with _session_closing set
  idp,      \* the refresh token the provider accepts
  seals,    \* records stored so far: each ciphertext is new
  spent,    \* refresh tokens presented to the provider after it replaced them
  ended,    \* logged out, or past session_ttl_seconds
  faults    \* failures so far

vars == <<record, lock, flow, cb, task, req, closing, idp, seals, spent,
          ended, faults>>

Toks == 0 .. MaxSeals + MaxFaults + 1

NoRecord == [tok |-> 0, seal |-> 0, fresh |-> FALSE]
Present == record.seal > 0

(* What the task of a process does next; "none" when there is no task.     *)
TaskPoints == {"none", "lock", "post", "store", "release", "look", "probe",
               "again"}
Results == {"record", "nothing", "error"}
NoTask == [pc |-> "none", tok |-> 0, result |-> "nothing"]

ReqPoints == {"idle", "got", "own", "wait", "reread", "delete", "consume",
              "logout", "ok", "401", "503", "500", "lost"}
Answered == {"ok", "401", "503", "500", "lost"}
NewReq == [pc |-> "idle", tok |-> 0, seal |-> 0]

(* A request that has its answer holds no record any more.                 *)
Reply(answer) == [NewReq EXCEPT !.pc = answer]

TypeOK ==
  /\ record \in [tok : Toks, seal : 0 .. MaxSeals, fresh : BOOLEAN]
  /\ lock \in Procs \cup {"free"}
  /\ flow \in {"stored", "gone"}
  /\ cb \in [Callbacks -> {"idle", "exchange", "store", "done", "refused"}]
  /\ task \in [Procs -> [pc : TaskPoints, tok : Toks, result : Results]]
  /\ req \in [Reqs -> [pc : ReqPoints, tok : Toks, seal : 0 .. MaxSeals]]
  /\ closing \subseteq Procs
  /\ idp \in Toks
  /\ seals \in 0 .. MaxSeals
  /\ spent \subseteq Toks
  /\ ended \in BOOLEAN
  /\ faults \in 0 .. MaxFaults

(* session_login has stored the PKCE flow; the browser comes back.         *)
Init ==
  /\ record = NoRecord
  /\ lock = "free"
  /\ flow = "stored"
  /\ cb = [c \in Callbacks |-> "idle"]
  /\ task = [p \in Procs |-> NoTask]
  /\ req = [r \in Reqs |-> NewReq]
  /\ closing = {}
  /\ idp = 0
  /\ seals = 0
  /\ spent = {}
  /\ ended = FALSE
  /\ faults = 0

storeVars == <<record, seals, ended>>
loginVars == <<flow, cb>>

(* A failure the code has to live with, of a bounded number.               *)
Fault == faults < MaxFaults /\ faults' = faults + 1
NoFault == UNCHANGED faults

-----------------------------------------------------------------------------
(* Login: the callback consumes the flow and stores a new session.         *)

TakeFlow(c) ==
  /\ cb[c] = "idle"
  /\ flow' = "gone"
  /\ cb' = [cb EXCEPT ![c] = IF flow = "stored" THEN "exchange" ELSE "refused"]
  /\ UNCHANGED <<storeVars, lock, task, req, closing, idp, spent, faults>>

(* The authorization-code exchange and the checks of both tokens.          *)
Exchange(c) ==
  /\ cb[c] = "exchange"
  /\ \/ /\ NoFault
        /\ idp' = idp + 1
        /\ cb' = [cb EXCEPT ![c] = "store"]
     \/ /\ Fault
        /\ cb' = [cb EXCEPT ![c] = "refused"]
        /\ UNCHANGED idp
  /\ UNCHANGED <<flow, storeVars, lock, task, req, closing, spent>>

StoreNew(c) ==
  /\ cb[c] = "store"
  /\ seals < MaxSeals
  /\ record' = [tok |-> idp, seal |-> seals + 1, fresh |-> TRUE]
  /\ seals' = seals + 1
  /\ cb' = [cb EXCEPT ![c] = "done"]
  /\ UNCHANGED <<flow, lock, task, req, closing, idp, spent, ended, faults>>

-----------------------------------------------------------------------------
(* authenticate_session, up to the refresh.                                *)

(* After authentication: the handler answers, or deletes the session.      *)
Granted(r) == IF r \in Logouts THEN [NewReq EXCEPT !.pc = "logout"]
                               ELSE Reply("ok")

(* client.get(session_key) and the expiry test.  The browser has a cookie  *)
(* only once a callback has answered.                                      *)
ReadSession(r) ==
  /\ req[r].pc = "idle"
  /\ \E c \in Callbacks : cb[c] = "done"
  /\ req' = [req EXCEPT ![r] =
       IF ~Present THEN Reply("401")
       ELSE IF record.fresh THEN Granted(r)
       ELSE [pc |-> "got", tok |-> record.tok, seal |-> record.seal]]
  /\ UNCHANGED <<loginVars, storeVars, lock, task, closing, idp, spent, faults>>

(* _refresh: refuse while closing, join the process's task, or create it   *)
(* with the record this request has read.                                  *)
JoinRefresh(r) ==
  LET p == ProcOf[r] IN
  /\ req[r].pc = "got"
  /\ \/ /\ p \in closing
        /\ req' = [req EXCEPT ![r] = Reply("503")]
        /\ UNCHANGED task
     \/ /\ p \notin closing /\ task[p].pc # "none"
        /\ req' = [req EXCEPT ![r].pc = "wait"]
        /\ UNCHANGED task
     \/ /\ p \notin closing /\ task[p].pc = "none"
        /\ req' = [req EXCEPT ![r].pc = "own"]
        /\ task' = [task EXCEPT ![p] = [NoTask EXCEPT !.pc = "lock",
                                                      !.tok = req[r].tok]]
  /\ UNCHANGED <<loginVars, storeVars, lock, closing, idp, spent, faults>>

(* asyncio.timeout(REFRESH_WAIT_SECONDS) of a request that joined.         *)
WaiterTimeout(r) ==
  /\ req[r].pc = "wait"
  /\ req' = [req EXCEPT ![r] = Reply("503")]
  /\ UNCHANGED <<loginVars, storeVars, lock, task, closing, idp, spent, faults>>

-----------------------------------------------------------------------------
(* _refresh_distributed.                                                   *)

Awaiting(p) == {r \in Reqs : ProcOf[r] = p /\ req[r].pc \in {"own", "wait"}}

(* The task ends: forget() drops it and every request awaiting it resumes. *)
Resume(r, result) ==
  CASE result = "record" -> Granted(r)
    [] result = "nothing" -> [req[r] EXCEPT !.pc = "reread"]
    [] result = "unavailable" -> Reply("503")
    [] OTHER -> Reply("500")

Finish(p, result) ==
  /\ task' = [task EXCEPT ![p] = NoTask]
  /\ req' = [r \in Reqs |-> IF r \in Awaiting(p) THEN Resume(r, result)
                                                 ELSE req[r]]

Step(p, pc) == task' = [task EXCEPT ![p].pc = pc] /\ UNCHANGED req

(* What the owner will return once it has released the lock.               *)
Conclude(p, result) ==
  /\ task' = [task EXCEPT ![p] = [pc |-> "release", tok |-> 0,
                                  result |-> result]]
  /\ UNCHANGED req

TakeLock(p) ==
  /\ task[p].pc = "lock"
  /\ \/ /\ lock = "free"
        /\ lock' = p
        /\ Step(p, "post")
     \/ /\ lock # "free"
        /\ Step(p, "look")
        /\ UNCHANGED lock
  /\ UNCHANGED <<loginVars, storeVars, closing, idp, spent, faults>>

(* The provider honours the token it accepts and may replace it; an older  *)
(* one is refused.                                                         *)
Honoured(p) == task[p].tok = idp

Exchanged(p) ==
  \E rotate \in Rotates :
    /\ idp' = IF rotate THEN idp + 1 ELSE idp
    /\ idp' \in Toks

PostRefresh(p) ==
  /\ task[p].pc = "post"
  /\ spent' = IF Honoured(p) THEN spent ELSE spent \cup {task[p].tok}
  /\ \/ /\ Honoured(p)               \* 200 with continuous identity
        /\ Exchanged(p)
        /\ task' = [task EXCEPT ![p].pc = "store", ![p].tok = idp']
        /\ NoFault
        /\ UNCHANGED req
     \/ /\ ~Honoured(p)              \* any other status
        /\ Conclude(p, "nothing")
        /\ NoFault
        /\ UNCHANGED idp
     \/ /\ Fault                     \* unreachable, malformed or mismatched
        /\ Conclude(p, "nothing")
        /\ UNCHANGED idp
     \/ /\ Honoured(p)               \* exchanged, but too late for the owner
        /\ Fault
        /\ Exchanged(p)
        /\ Conclude(p, "nothing")
  /\ UNCHANGED <<loginVars, storeVars, lock, closing>>

Stored(p) ==
  /\ seals < MaxSeals
  /\ record' = [tok |-> task[p].tok, seal |-> seals + 1, fresh |-> TRUE]
  /\ seals' = seals + 1
  /\ UNCHANGED ended

(* _store_session, an unconditional SET: it answers, times out or fails.   *)
StoreRefreshed(p) ==
  /\ task[p].pc = "store"
  /\ \/ /\ Stored(p)
        /\ Conclude(p, "record")
        /\ NoFault
     \/ /\ Fault
        /\ Stored(p) \/ UNCHANGED storeVars
        /\ Conclude(p, "nothing") \/ Conclude(p, "error")
  /\ UNCHANGED <<loginVars, lock, closing, idp, spent>>

(* _release_refresh_lock compares the token; a failure is only logged.     *)
ReleaseLock(p) ==
  /\ task[p].pc = "release"
  /\ \/ /\ lock' = IF lock = p THEN "free" ELSE lock
        /\ NoFault
     \/ /\ Fault
        /\ UNCHANGED lock
  /\ Finish(p, task[p].result)
  /\ UNCHANGED <<loginVars, storeVars, closing, idp, spent>>

(* _wait_for_distributed_refresh: read the session, probe the lock, and    *)
(* read once more when the lock has gone.                                  *)
LookAtSession(p) ==
  /\ task[p].pc = "look"
  /\ IF Present /\ record.fresh THEN Finish(p, "record") ELSE Step(p, "probe")
  /\ UNCHANGED <<loginVars, storeVars, lock, closing, idp, spent, faults>>

ProbeLock(p) ==
  /\ task[p].pc = "probe"
  /\ Step(p, IF lock = "free" THEN "again" ELSE "look")
  /\ UNCHANGED <<loginVars, storeVars, lock, closing, idp, spent, faults>>

LookAgain(p) ==
  /\ task[p].pc = "again"
  /\ Finish(p, IF Present /\ record.fresh THEN "record" ELSE "unavailable")
  /\ UNCHANGED <<loginVars, storeVars, lock, closing, idp, spent, faults>>

(* Fault: a waiter that gives up reports a failed refresh.                 *)
LookDeadlineFailed(p) ==
  /\ task[p].pc = "look"
  /\ Finish(p, "nothing")
  /\ UNCHANGED <<loginVars, storeVars, lock, closing, idp, spent, faults>>

LookDeadline(p) ==
  /\ task[p].pc = "look"
  /\ Finish(p, "unavailable")
  /\ UNCHANGED <<loginVars, storeVars, lock, closing, idp, spent, faults>>

-----------------------------------------------------------------------------
(* authenticate_session after a refresh that returned nothing.             *)

Reread(r) ==
  /\ req[r].pc = "reread"
  /\ req' = [req EXCEPT ![r] = IF Present /\ record.fresh THEN Granted(r)
                               ELSE [req[r] EXCEPT !.pc = "delete"]]
  /\ UNCHANGED <<loginVars, storeVars, lock, task, closing, idp, spent, faults>>

(* Fault: DEL without comparing the ciphertext.                            *)
DeleteAnyway(r) ==
  /\ req[r].pc = "delete"
  /\ record' = NoRecord
  /\ req' = [req EXCEPT ![r] = Reply("401")]
  /\ UNCHANGED <<loginVars, seals, ended, lock, task, closing, idp, spent, faults>>

(* _delete_session_if_unchanged.                                           *)
DeleteIfUnchanged(r) ==
  /\ req[r].pc = "delete"
  /\ \/ /\ record.seal = req[r].seal
        /\ record' = NoRecord
        /\ req' = [req EXCEPT ![r] = Reply("401")]
     \/ /\ record.seal # req[r].seal
        /\ req' = [req EXCEPT ![r].pc = "consume"]
        /\ UNCHANGED record
  /\ UNCHANGED <<loginVars, seals, ended, lock, task, closing, idp, spent, faults>>

Consume(r) ==
  /\ req[r].pc = "consume"
  /\ req' = [req EXCEPT ![r] = IF Present /\ record.fresh THEN Granted(r)
                                                          ELSE Reply("503")]
  /\ UNCHANGED <<loginVars, storeVars, lock, task, closing, idp, spent, faults>>

(* session_logout after authenticate_session.                              *)
Logout(r) ==
  /\ req[r].pc = "logout"
  /\ record' = NoRecord
  /\ ended' = TRUE
  /\ req' = [req EXCEPT ![r] = Reply("ok")]
  /\ UNCHANGED <<loginVars, seals, lock, task, closing, idp, spent, faults>>

-----------------------------------------------------------------------------
(* Time, shutdown and crashes.                                             *)

(* The access token comes within 60 seconds of its end.  Its lifetime less *)
(* those 60 seconds is longer than a request takes, so no request that has *)
(* read an earlier record is still running.                                *)
NearExpiry ==
  /\ record.fresh
  /\ seals < MaxSeals
  /\ \A r \in Reqs : req[r].seal \in {0, record.seal}
  /\ record' = [record EXCEPT !.fresh = FALSE]
  /\ UNCHANGED <<loginVars, seals, ended, lock, task, req, closing, idp, spent,
                 faults>>

(* session_ttl_seconds (30 days unless configured) after the last SET.     *)
SessionLapses ==
  /\ Present /\ ~record.fresh
  /\ record' = NoRecord
  /\ ended' = TRUE
  /\ UNCHANGED <<loginVars, seals, lock, task, req, closing, idp, spent, faults>>

(* REFRESH_LOCK_TTL_SECONDS after a SET whose owner is no more.            *)
LockLapses ==
  /\ lock # "free"
  /\ task[lock].pc \notin {"post", "store", "release"}
  /\ lock' = "free"
  /\ UNCHANGED <<loginVars, storeVars, task, req, closing, idp, spent, faults>>

(* close_session_runtime: no new owner; drain_tasks; then a new process.   *)
BeginClose(p) ==
  /\ p \notin closing
  /\ Fault
  /\ closing' = closing \cup {p}
  /\ UNCHANGED <<loginVars, storeVars, lock, task, req, idp, spent>>

Drained(p) ==
  /\ p \in closing
  /\ task[p].pc = "none"
  /\ \A r \in Reqs : ProcOf[r] = p => req[r].pc \in {"idle"} \cup Answered
  /\ closing' = closing \ {p}
  /\ UNCHANGED <<loginVars, storeVars, lock, task, req, idp, spent, faults>>

(* The process dies with its task and its requests, and is restarted.      *)
Crash(p) ==
  /\ Fault
  /\ task' = [task EXCEPT ![p] = NoTask]
  /\ req' = [r \in Reqs |->
               IF ProcOf[r] = p /\ req[r].pc \notin {"idle"} \cup Answered
               THEN Reply("lost") ELSE req[r]]
  /\ closing' = closing \ {p}
  /\ UNCHANGED <<loginVars, storeVars, lock, idp, spent>>

-----------------------------------------------------------------------------
Login(c) == TakeFlow(c) \/ Exchange(c) \/ StoreNew(c)

Request(r) == JoinRefresh(r) \/ Reread(r) \/ DeleteIfUnchanged(r)
              \/ Consume(r) \/ Logout(r)

Task(p) == TakeLock(p) \/ PostRefresh(p) \/ StoreRefreshed(p)
           \/ ReleaseLock(p) \/ LookAtSession(p) \/ ProbeLock(p)
           \/ LookAgain(p)

Next ==
  \/ \E c \in Callbacks : Login(c)
  \/ \E r \in Reqs : ReadSession(r) \/ Request(r) \/ WaiterTimeout(r)
  \/ \E p \in Procs : Task(p) \/ LookDeadline(p) \/ BeginClose(p)
                      \/ Drained(p) \/ Crash(p)
  \/ NearExpiry \/ SessionLapses \/ LockLapses

Spec == Init /\ [][Next]_vars

-----------------------------------------------------------------------------
InFlight(p) == task[p].pc \in {"post", "store"}

(* Across all processes at most one refresh is between taking the Valkey   *)
(* lock and storing its record (_refresh_distributed).                     *)
SingleFlight == \A p, q \in Procs : InFlight(p) /\ InFlight(q) => p = q

(* docs/releases/v2.0.1.md: concurrent requests cannot delete a            *)
(* successfully rotated session.  A failed refresh, its owner's or its     *)
(* waiters', never removes a record whose access token is good             *)
(* (_delete_session_if_unchanged); only a logout does.                     *)
RotatedSessionKept ==
  record.fresh /\ ~Present'
    => \E r \in Logouts : req[r].pc = "logout" /\ req'[r].pc = "ok"

(* While nothing fails, no interleaving of requests, processes, expiries   *)
(* and refreshes signs a browser out: a 401 means that the session was     *)
(* logged out or lapsed (authenticate_session and its waiters).            *)
SignOutJustified ==
  \A r \in Reqs : req[r].pc = "401" => ended \/ faults > 0

(* While nothing fails, the stored refresh token is the one the provider   *)
(* will accept next, unless the owner is about to store its successor.     *)
StoredTokenCurrent ==
  Present /\ faults = 0 /\ (\A p \in Procs : task[p].pc # "store")
    => record.tok = idp

(* What a browser relies on: one refresh at a time across processes and,   *)
(* while nothing fails, no sign-out without a cause and a stored token     *)
(* that the provider accepts (session_auth.py as a whole).                 *)
SessionsHold == SingleFlight /\ SignOutJustified /\ StoredTokenCurrent

=============================================================================
