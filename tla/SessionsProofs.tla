--------------------------- MODULE SessionsProofs ---------------------------
(***************************************************************************)
(* Proofs about the browser sessions, for every number of processes,       *)
(* requests and callbacks, any placement of the requests and any number of *)
(* failures.                                                               *)
(***************************************************************************)
EXTENDS Sessions, TLAPS

(* What the proofs assume of the constants: the value of a free lock is no *)
(* process, and every request is served by a process.                      *)
SessionConstants ==
  /\ "free" \notin Procs
  /\ ProcOf \in [Reqs -> Procs]
  /\ MaxSeals \in Nat /\ MaxFaults \in Nat

ReqState == [pc : ReqPoints, tok : Toks, seal : 0 .. MaxSeals]
TaskState == [pc : TaskPoints, tok : Toks, result : Results]

(* Where a request holds the record it has read, where a task holds the    *)
(* Valkey lock and where it still holds the token of its creator.          *)
Holders == {"got", "own", "wait", "reread", "delete", "consume"}
Owning == {"post", "store", "release"}
Before == {"lock", "look", "probe", "again", "post"}

LoggedIn == \E c \in Callbacks : cb[c] = "done"

(* Nothing has failed and nobody has ended the session.                    *)
Undisturbed == faults = 0 /\ ~ended

(* One callback gets the flow, and the provider issues nothing before it.  *)
LoginOK ==
  /\ flow = "stored" => \A c \in Callbacks : cb[c] = "idle"
  /\ \A c, d \in Callbacks :
       cb[c] \in {"exchange", "store", "done"} /\ cb[d] \in {"exchange", "store", "done"}
         => c = d
  /\ (\A c \in Callbacks : cb[c] \notin {"store", "done"}) => idp = 0

(* The record is one of those stored, and while nothing fails it has the   *)
(* token the provider accepts.                                             *)
RecordOK ==
  /\ record.seal <= seals
  /\ record.fresh => Present
  /\ seals > 0 => LoggedIn
  /\ Undisturbed /\ LoggedIn => Present
  /\ StoredTokenCurrent

(* A request holds a record it found near its end.  While nothing fails,   *)
(* that record is still stored or a renewed one has replaced it, which     *)
(* stays good as long as the request runs; so it is never about to delete. *)
RequestOK(r) ==
  /\ req[r] # NewReq => LoggedIn
  /\ req[r].pc = "logout" => r \in Logouts
  /\ req[r].pc \in Holders <=> req[r].seal > 0
  /\ req[r].seal <= seals
  /\ record.fresh => req[r].seal # record.seal
  /\ req[r].seal > 0 /\ req[r].seal = record.seal => req[r].tok = record.tok
  /\ Undisturbed =>
       /\ req[r].seal > 0 => req[r].seal = record.seal \/ record.fresh
       /\ req[r].pc \notin {"delete", "consume", "401"}
       /\ req[r].pc = "reread" => record.fresh

(* The request that created the process's task awaits it.                  *)
Owner(r, p) ==
  /\ ProcOf[r] = p /\ req[r].pc = "own"
  /\ task[p].pc \in Before => task[p].tok = req[r].tok

(* A task between the lock and its release is the lock's holder.  While    *)
(* nothing fails, it comes back with nothing only if a renewed record has  *)
(* taken the place of the one its owner had read.                          *)
TaskOK(p) ==
  /\ task[p].pc \in Owning => lock = p
  /\ task[p].pc # "none" => \E r \in Reqs : Owner(r, p)
  /\ faults = 0 /\ task[p].pc = "store" => task[p].tok = idp
  /\ Undisturbed /\ task[p].pc = "release" /\ task[p].result = "nothing"
       => record.fresh

IndInv ==
  /\ TypeOK /\ LoginOK /\ RecordOK
  /\ \A r \in Reqs : RequestOK(r)
  /\ \A p \in Procs : TaskOK(p)

-----------------------------------------------------------------------------
(* The values requests and tasks are given.                                *)

LEMMA Zeros == SessionConstants => 0 \in Toks /\ 0 \in 0 .. MaxSeals
BY DEF SessionConstants, Toks

(* An answer holds no record.                                              *)
LEMMA ReplyValue ==
  ASSUME SessionConstants, NEW a \in ReqPoints
  PROVE  Reply(a) \in ReqState /\ Reply(a).pc = a /\ Reply(a).seal = 0
BY Zeros DEF Reply, NewReq, ReqState

LEMMA GrantedValue ==
  ASSUME SessionConstants, NEW r
  PROVE  /\ Granted(r) \in ReqState
         /\ Granted(r).pc \in {"logout", "ok"} /\ Granted(r).seal = 0
         /\ Granted(r).pc = "logout" => r \in Logouts
BY Zeros DEF Granted, Reply, NewReq, ReqState, ReqPoints

(* A request resumed without a result goes on holding its record; any      *)
(* other one has its answer.                                               *)
LEMMA ResumeValue ==
  ASSUME SessionConstants, NEW r, req[r] \in ReqState,
         NEW result \in Results \cup {"unavailable"}
  PROVE  /\ Resume(r, result) \in ReqState
         /\ IF result = "nothing"
            THEN Resume(r, result) = [req[r] EXCEPT !.pc = "reread"]
            ELSE /\ Resume(r, result).pc \in {"logout", "ok", "503", "500"}
                 /\ Resume(r, result).pc = "logout" => r \in Logouts
                 /\ Resume(r, result).seal = 0
<1>1. CASE result = "record"
  <2>1. Resume(r, result) = Granted(r)
    BY <1>1 DEF Resume
  <2> QED
    BY <1>1, <2>1, GrantedValue
<1>2. CASE result = "nothing"
  <2>1. Resume(r, result) = [req[r] EXCEPT !.pc = "reread"]
    BY <1>2 DEF Resume
  <2>2. [req[r] EXCEPT !.pc = "reread"] \in ReqState
    BY DEF ReqState, ReqPoints
  <2> QED
    BY <1>2, <2>1, <2>2
<1>3. CASE result = "unavailable"
  <2>1. Resume(r, result) = Reply("503")
    BY <1>3 DEF Resume
  <2> QED
    BY <1>3, <2>1, ReplyValue DEF ReqPoints
<1>4. CASE result = "error"
  <2>1. Resume(r, result) = Reply("500")
    BY <1>4, Zenon DEF Resume
  <2> QED
    BY <1>4, <2>1, ReplyValue DEF ReqPoints
<1> QED
  BY <1>1, <1>2, <1>3, <1>4 DEF Results

-----------------------------------------------------------------------------
(* Frames.                                                                 *)

(* A request that a step leaves alone, with the record it may hold.        *)
LEMMA RequestFrame ==
  ASSUME NEW r \in Reqs, RequestOK(r), req'[r] = req[r],
         UNCHANGED <<record, seals>>,
         LoggedIn => LoggedIn', Undisturbed' => Undisturbed
  PROVE  RequestOK(r)'
BY DEF RequestOK, Undisturbed, LoggedIn

(* A task that a step leaves alone, with its owner and its lock.           *)
LEMMA TaskFrame ==
  ASSUME NEW p \in Procs, TaskOK(p), task'[p] = task[p],
         task[p].pc \in Owning => lock' = lock,
         \A r \in Reqs : ProcOf[r] = p /\ req[r].pc = "own" => req'[r] = req[r],
         faults' = 0 => faults = 0 /\ (task[p].pc = "store" => idp' = idp),
         Undisturbed' => Undisturbed,
         record.fresh => record'.fresh
  PROVE  TaskOK(p)'
<1>1. \A r \in Reqs : Owner(r, p) => Owner(r, p)'
  BY DEF Owner
<1> QED
  BY <1>1 DEF TaskOK

(* The owner stays while the task moves on past its token.                 *)
LEMMA OwnerStays ==
  ASSUME NEW p \in Procs, UNCHANGED req, task'[p].pc \notin Before,
         \E r \in Reqs : Owner(r, p)
  PROVE  \E r \in Reqs : Owner(r, p)'
BY DEF Owner

(* A task that concludes: it has the lock, its owner stays, and with       *)
(* nothing in hand the record is a renewed one.                            *)
LEMMA ConcludedOK ==
  ASSUME NEW p \in Procs, TaskOK(p), task[p].pc \in {"post", "store"},
         lock' = lock, UNCHANGED req, task'[p].pc = "release",
         Undisturbed' /\ task'[p].result = "nothing" => record'.fresh
  PROVE  TaskOK(p)'
<1>1. (\E r \in Reqs : Owner(r, p)) /\ lock = p
  BY DEF TaskOK, Owning
<1>2. \E r \in Reqs : Owner(r, p)'
  BY <1>1, OwnerStays DEF Before
<1> QED
  BY <1>1, <1>2 DEF TaskOK

(* One lock holder, hence one task that posts or stores.                   *)
LEMMA OneOwner ==
  ASSUME IndInv, NEW p \in Procs, NEW q \in Procs,
         task[p].pc \in Owning, task[q].pc \in Owning
  PROVE  p = q
BY DEF IndInv, TaskOK

-----------------------------------------------------------------------------
(* Steps of a request.                                                     *)

(* A step that changes one request only, and not one whose task runs.      *)
LEMMA RequestStep ==
  ASSUME SessionConstants, IndInv, NEW r \in Reqs, NEW s \in ReqState,
         req' = [req EXCEPT ![r] = s], RequestOK(r)', req[r].pc # "own",
         UNCHANGED <<loginVars, storeVars, lock, task, closing, idp, spent, faults>>
  PROVE  IndInv'
<1>1. TypeOK /\ LoginOK /\ RecordOK
  BY DEF IndInv
<1>2. /\ UNCHANGED <<flow, cb, record, seals, ended, lock, task, idp, faults>>
      /\ \A x \in Reqs : x # r => req'[x] = req[x]
  BY <1>1 DEF loginVars, storeVars, TypeOK
<1>3. TypeOK'
  BY <1>1, <1>2 DEF TypeOK, ReqState
<1>4. LoginOK' /\ RecordOK'
  BY <1>1, <1>2 DEF LoginOK, RecordOK, LoggedIn, Undisturbed, Present,
     StoredTokenCurrent
<1>5. ASSUME NEW x \in Reqs PROVE RequestOK(x)'
  BY <1>2, RequestFrame DEF IndInv, LoggedIn, Undisturbed
<1>6. ASSUME NEW p \in Procs PROVE TaskOK(p)'
  BY <1>2, TaskFrame DEF IndInv, Undisturbed
<1> QED
  BY <1>3, <1>4, <1>5, <1>6 DEF IndInv

(* Reading: a browser whose callback has answered finds its record unless  *)
(* the session was ended or something failed.                              *)
LEMMA ReadSessionKeeps ==
  ASSUME SessionConstants, IndInv, NEW r \in Reqs, ReadSession(r)
  PROVE  IndInv'
<1>1. TypeOK /\ RecordOK /\ RequestOK(r) /\ LoggedIn
  BY DEF IndInv, ReadSession, LoggedIn
<1>2. UNCHANGED <<loginVars, storeVars, lock, task, closing, idp, spent, faults>>
  BY DEF ReadSession
<1>3. UNCHANGED <<cb, record, seals, ended, faults>>
  BY <1>2 DEF loginVars, storeVars
<1>4. CASE ~Present
  <2>1. req' = [req EXCEPT ![r] = Reply("401")]
    BY <1>4 DEF ReadSession
  <2>2. Reply("401") \in ReqState /\ Reply("401").pc = "401" /\ Reply("401").seal = 0
    BY ReplyValue DEF ReqPoints
  <2>3. ~Undisturbed
    BY <1>1, <1>4 DEF RecordOK
  <2>4. RequestOK(r)'
    BY <1>1, <1>3, <2>1, <2>2, <2>3
       DEF RequestOK, RecordOK, TypeOK, Present, Undisturbed, LoggedIn, Holders
  <2> QED
    BY <1>2, <2>1, <2>2, <2>4, RequestStep, Zenon DEF ReadSession
<1>5. CASE Present /\ record.fresh
  <2>1. req' = [req EXCEPT ![r] = Granted(r)]
    BY <1>5 DEF ReadSession
  <2>2. RequestOK(r)'
    BY <1>1, <1>3, <2>1, GrantedValue
       DEF RequestOK, RecordOK, TypeOK, Present, Undisturbed, LoggedIn, Holders
  <2> QED
    BY <1>2, <2>1, <2>2, GrantedValue, RequestStep, Zenon DEF ReadSession
<1>6. CASE Present /\ ~record.fresh
  <2> DEFINE s == [pc |-> "got", tok |-> record.tok, seal |-> record.seal]
  <2>1. req' = [req EXCEPT ![r] = s]
    BY <1>6 DEF ReadSession
  <2>2. s \in ReqState
    BY <1>1 DEF TypeOK, ReqState, ReqPoints
  <2>3. RequestOK(r)'
    BY SMTT(60), <1>1, <1>3, <1>6, <2>1
       DEF RequestOK, RecordOK, TypeOK, Present, Undisturbed, LoggedIn, Holders
  <2> HIDE DEF s
  <2> QED
    BY <1>2, <2>1, <2>2, <2>3, RequestStep, Zenon DEF ReadSession
<1> QED
  BY <1>4, <1>5, <1>6

(* An answered request satisfies its part of the invariant, unless it was  *)
(* signed out.                                                             *)
LEMMA AnsweredOK ==
  ASSUME TypeOK, RecordOK, LoggedIn, NEW r \in Reqs,
         UNCHANGED <<cb, record, seals>>,
         req'[r].pc \in {"logout", "ok", "503", "500", "lost"}, req'[r].seal = 0,
         req'[r].pc = "logout" => r \in Logouts
  PROVE  RequestOK(r)'
BY DEF RequestOK, RecordOK, TypeOK, Present, LoggedIn, Holders

(* A record stored after the request read its own is newer and good.       *)
LEMMA ReplacedOK ==
  ASSUME NEW r \in Reqs, RequestOK(r), req'[r] = req[r],
         req[r].seal \in Nat, seals \in Nat, seals' = seals + 1, LoggedIn',
         record'.seal = seals + 1, record'.fresh, Undisturbed' => Undisturbed
  PROVE  RequestOK(r)'
BY DEF RequestOK

LEMMA WaiterTimeoutKeeps ==
  ASSUME SessionConstants, IndInv, NEW r \in Reqs, WaiterTimeout(r)
  PROVE  IndInv'
<1>1. TypeOK /\ RecordOK /\ RequestOK(r) /\ req[r].pc = "wait"
  BY DEF IndInv, WaiterTimeout
<1>2. LoggedIn
  BY <1>1 DEF RequestOK, NewReq
<1>3. UNCHANGED <<loginVars, storeVars, lock, task, closing, idp, spent, faults>>
  BY DEF WaiterTimeout
<1>4. req' = [req EXCEPT ![r] = Reply("503")] /\ Reply("503") \in ReqState
      /\ Reply("503").pc = "503" /\ Reply("503").seal = 0
  BY ReplyValue DEF ReqPoints, WaiterTimeout
<1>5. RequestOK(r)'
  BY <1>1, <1>2, <1>3, <1>4, AnsweredOK DEF TypeOK, loginVars, storeVars
<1> QED
  BY <1>1, <1>3, <1>4, <1>5, RequestStep, Zenon

(* The second look: while nothing fails it finds the renewed record.       *)
LEMMA RereadKeeps ==
  ASSUME SessionConstants, IndInv, NEW r \in Reqs, Reread(r)
  PROVE  IndInv'
<1>1. TypeOK /\ RecordOK /\ RequestOK(r) /\ req[r].pc = "reread"
  BY DEF IndInv, Reread
<1>2. LoggedIn
  BY <1>1 DEF RequestOK, NewReq
<1>3. UNCHANGED <<loginVars, storeVars, lock, task, closing, idp, spent, faults>>
  BY DEF Reread
<1>4. UNCHANGED <<cb, record, seals, ended, faults>>
  BY <1>3 DEF loginVars, storeVars
<1>5. CASE Present /\ record.fresh
  <2>1. req' = [req EXCEPT ![r] = Granted(r)] /\ Granted(r) \in ReqState
        /\ Granted(r).pc \in {"logout", "ok"} /\ Granted(r).seal = 0
        /\ (Granted(r).pc = "logout" => r \in Logouts)
    BY <1>5, GrantedValue DEF Reread
  <2>2. RequestOK(r)'
    BY <1>1, <1>2, <1>4, <2>1, AnsweredOK DEF TypeOK
  <2> QED
    BY <1>1, <1>3, <2>1, <2>2, RequestStep, Zenon
<1>6. CASE ~(Present /\ record.fresh)
  <2> DEFINE s == [req[r] EXCEPT !.pc = "delete"]
  <2>1. req' = [req EXCEPT ![r] = s]
    BY <1>6, Zenon DEF Reread
  <2>2. s \in ReqState
    BY <1>1 DEF TypeOK, ReqState, ReqPoints
  <2>3. ~Undisturbed
    BY <1>1, <1>6 DEF RequestOK, RecordOK
  <2>4. RequestOK(r)'
    BY <1>1, <1>2, <1>4, <2>1, <2>3
       DEF RequestOK, TypeOK, Undisturbed, LoggedIn, Holders
  <2> HIDE DEF s
  <2> QED
    BY <1>1, <1>3, <2>1, <2>2, <2>4, RequestStep, Zenon
<1> QED
  BY <1>5, <1>6

LEMMA ConsumeKeeps ==
  ASSUME SessionConstants, IndInv, NEW r \in Reqs, Consume(r)
  PROVE  IndInv'
<1>1. TypeOK /\ RecordOK /\ RequestOK(r) /\ req[r].pc = "consume"
  BY DEF IndInv, Consume
<1>2. LoggedIn
  BY <1>1 DEF RequestOK, NewReq
<1>3. UNCHANGED <<loginVars, storeVars, lock, task, closing, idp, spent, faults>>
  BY DEF Consume
<1> DEFINE s == IF Present /\ record.fresh THEN Granted(r) ELSE Reply("503")
<1>4. req' = [req EXCEPT ![r] = s]
  BY DEF Consume
<1>5. s \in ReqState /\ s.pc \in {"logout", "ok", "503"} /\ s.seal = 0
      /\ (s.pc = "logout" => r \in Logouts)
  BY GrantedValue, ReplyValue, SMTT(60) DEF ReqPoints
<1> HIDE DEF s
<1>6. RequestOK(r)'
  BY <1>1, <1>2, <1>3, <1>4, <1>5, AnsweredOK DEF TypeOK, loginVars, storeVars
<1> QED
  BY <1>1, <1>3, <1>4, <1>5, <1>6, RequestStep, Zenon

(* Joining the process's task, or creating it with the token just read.    *)
LEMMA JoinRefreshKeeps ==
  ASSUME SessionConstants, IndInv, NEW r \in Reqs, JoinRefresh(r)
  PROVE  IndInv'
<1> DEFINE p == ProcOf[r]
<1>1. TypeOK /\ LoginOK /\ RecordOK /\ RequestOK(r) /\ req[r].pc = "got"
  BY DEF IndInv, JoinRefresh
<1>2. LoggedIn
  BY <1>1 DEF RequestOK, NewReq
<1>3. UNCHANGED <<loginVars, storeVars, lock, closing, idp, spent, faults>>
  BY DEF JoinRefresh
<1>4. UNCHANGED <<flow, cb, record, seals, ended, lock, idp, faults>>
  BY <1>3 DEF loginVars, storeVars
<1>5. CASE req' = [req EXCEPT ![r] = Reply("503")] /\ UNCHANGED task
  <2>1. Reply("503") \in ReqState /\ Reply("503").pc = "503" /\ Reply("503").seal = 0
    BY ReplyValue DEF ReqPoints
  <2>2. RequestOK(r)'
    BY <1>1, <1>2, <1>4, <1>5, <2>1, AnsweredOK DEF TypeOK
  <2> QED
    BY <1>1, <1>3, <1>5, <2>1, <2>2, RequestStep, Zenon
<1>6. CASE req' = [req EXCEPT ![r].pc = "wait"] /\ UNCHANGED task
  <2> DEFINE s == [req[r] EXCEPT !.pc = "wait"]
  <2>1. req' = [req EXCEPT ![r] = s]
    BY <1>6
  <2>2. s \in ReqState
    BY <1>1 DEF TypeOK, ReqState, ReqPoints
  <2>3. RequestOK(r)'
    BY <1>1, <1>2, <1>4, <2>1 DEF RequestOK, TypeOK, Undisturbed, LoggedIn,
       Holders
  <2> HIDE DEF s
  <2> QED
    BY <1>1, <1>3, <1>6, <2>1, <2>2, <2>3, RequestStep, Zenon
<1>7. CASE /\ task[p].pc = "none"
           /\ req' = [req EXCEPT ![r].pc = "own"]
           /\ task' = [task EXCEPT ![p] = [NoTask EXCEPT !.pc = "lock",
                                                         !.tok = req[r].tok]]
  <2>1. p \in Procs
    BY DEF SessionConstants
  <2> HIDE DEF p
  <2>2. /\ req'[r] = [req[r] EXCEPT !.pc = "own"]
        /\ task'[p] = [pc |-> "lock", tok |-> req[r].tok, result |-> "nothing"]
        /\ \A x \in Reqs : x # r => req'[x] = req[x]
        /\ \A q \in Procs : q # p => task'[q] = task[q]
    BY <1>1, <1>7, <2>1, Zenon DEF TypeOK, NoTask
  <2>3. [req[r] EXCEPT !.pc = "own"] \in ReqState
        /\ [pc |-> "lock", tok |-> req[r].tok, result |-> "nothing"] \in TaskState
    BY <1>1 DEF TypeOK, ReqState, ReqPoints, TaskState, TaskPoints, Results
  <2>4. TypeOK'
    BY <1>1, <1>3, <1>4, <1>7, <2>1, <2>2, <2>3, ZenonT(60) DEF TypeOK,
       ReqState, TaskState
  <2>5. LoginOK' /\ RecordOK'
    BY <1>1, <1>4, <1>7, <2>1, <2>2 DEF LoginOK, RecordOK, LoggedIn,
       Undisturbed, Present, StoredTokenCurrent
  <2>6. ASSUME NEW x \in Reqs PROVE RequestOK(x)'
    <3>1. CASE x = r
      BY <1>1, <1>2, <1>4, <2>2, <3>1
         DEF RequestOK, TypeOK, Undisturbed, LoggedIn, Holders
    <3>2. CASE x # r
      BY <1>4, <2>2, <3>2, RequestFrame DEF IndInv, LoggedIn, Undisturbed
    <3> QED
      BY <3>1, <3>2
  <2>7. ASSUME NEW q \in Procs PROVE TaskOK(q)'
    <3>1. CASE q = p
      <4>1. Owner(r, p)'
        BY <1>1, <2>2 DEF Owner, p, TypeOK
      <4> QED
        BY <2>2, <3>1, <4>1 DEF TaskOK, Owning
    <3>2. CASE q # p
      BY <1>1, <1>4, <2>2, <3>2, TaskFrame DEF IndInv, Undisturbed
    <3> QED
      BY <3>1, <3>2
  <2> QED
    BY <2>4, <2>5, <2>6, <2>7 DEF IndInv
<1> QED
  BY <1>5, <1>6, <1>7 DEF JoinRefresh

(* What a request does to the record when it removes it or leaves it: no   *)
(* record is put in its place.                                             *)
LEMMA RemovalStep ==
  ASSUME SessionConstants, IndInv, NEW r \in Reqs, NEW s \in ReqState,
         req' = [req EXCEPT ![r] = s], RequestOK(r)', req[r].pc # "own",
         record' = NoRecord, ~Undisturbed', ended' \in BOOLEAN,
         UNCHANGED <<loginVars, seals, lock, task, closing, idp, spent, faults>>
  PROVE  IndInv'
<1>1. TypeOK /\ LoginOK /\ RecordOK
  BY DEF IndInv
<1>2. /\ UNCHANGED <<flow, cb>>
      /\ \A x \in Reqs : x # r => req'[x] = req[x]
      /\ record'.seal = 0 /\ record'.fresh = FALSE /\ seals \in Nat
  BY <1>1 DEF loginVars, TypeOK, NoRecord, SessionConstants
<1>3. NoRecord \in [tok : Toks, seal : 0 .. MaxSeals, fresh : BOOLEAN]
  BY Zeros DEF NoRecord
<1>4. TypeOK'
  BY <1>1, <1>2, <1>3, SMTT(60) DEF TypeOK, ReqState
<1>5. LoginOK' /\ RecordOK'
  BY <1>1, <1>2, SMTT(60) DEF LoginOK, RecordOK, LoggedIn, Present,
     StoredTokenCurrent
<1>6. ASSUME NEW x \in Reqs, x # r PROVE RequestOK(x)'
  <2>1. RequestOK(x) /\ req'[x] = req[x]
    BY <1>2, <1>6, SMTT(60) DEF IndInv
  <2> QED
    BY <1>1, <1>2, <2>1 DEF RequestOK, LoggedIn, Holders, TypeOK
<1>7. ASSUME NEW p \in Procs PROVE TaskOK(p)'
  <2>1. TaskOK(p)
    BY DEF IndInv
  <2>2. \A x \in Reqs : Owner(x, p) => Owner(x, p)'
    BY <1>2 DEF Owner
  <2> QED
    BY <2>1, <2>2 DEF TaskOK
<1> QED
  BY <1>4, <1>5, <1>6, <1>7 DEF IndInv

(* The compare-and-delete of a failed refresh; while nothing fails no      *)
(* request gets here.                                                      *)
LEMMA DeleteIfUnchangedKeeps ==
  ASSUME SessionConstants, IndInv, NEW r \in Reqs, DeleteIfUnchanged(r)
  PROVE  IndInv'
<1>1. TypeOK /\ RecordOK /\ RequestOK(r) /\ req[r].pc = "delete"
  BY DEF IndInv, DeleteIfUnchanged
<1>2. LoggedIn /\ ~Undisturbed
  BY <1>1 DEF RequestOK, NewReq
<1>3. UNCHANGED <<loginVars, seals, ended, lock, task, closing, idp, spent, faults>>
  BY DEF DeleteIfUnchanged
<1>4. UNCHANGED cb /\ ~Undisturbed'
  BY <1>2, <1>3 DEF loginVars, Undisturbed
<1>5. CASE record' = NoRecord /\ req' = [req EXCEPT ![r] = Reply("401")]
  <2>1. Reply("401") \in ReqState /\ Reply("401").pc = "401" /\ Reply("401").seal = 0
    BY ReplyValue DEF ReqPoints
  <2>2. RequestOK(r)'
    BY <1>1, <1>2, <1>3, <1>4, <1>5, <2>1
       DEF RequestOK, TypeOK, NoRecord, LoggedIn, Holders
  <2> QED
    BY <1>1, <1>3, <1>4, <1>5, <2>1, <2>2, RemovalStep, ZenonT(60) DEF TypeOK
<1>6. CASE req' = [req EXCEPT ![r].pc = "consume"] /\ UNCHANGED record
  <2> DEFINE s == [req[r] EXCEPT !.pc = "consume"]
  <2>1. req' = [req EXCEPT ![r] = s]
    BY <1>6
  <2>2. s \in ReqState
    BY <1>1 DEF TypeOK, ReqState, ReqPoints
  <2>3. RequestOK(r)'
    BY <1>1, <1>2, <1>3, <1>4, <1>6, <2>1
       DEF RequestOK, TypeOK, LoggedIn, Holders
  <2>4. UNCHANGED <<loginVars, storeVars, lock, task, closing, idp, spent, faults>>
    BY <1>3, <1>6 DEF storeVars
  <2> HIDE DEF s
  <2> QED
    BY <1>1, <2>1, <2>2, <2>3, <2>4, RequestStep, Zenon
<1> QED
  BY <1>5, <1>6 DEF DeleteIfUnchanged

LEMMA LogoutKeeps ==
  ASSUME SessionConstants, IndInv, NEW r \in Reqs, Logout(r)
  PROVE  IndInv'
<1>1. TypeOK /\ RequestOK(r) /\ req[r].pc = "logout"
  BY DEF IndInv, Logout
<1>2. LoggedIn
  BY <1>1 DEF RequestOK, NewReq
<1>3. /\ record' = NoRecord /\ ended' = TRUE
      /\ req' = [req EXCEPT ![r] = Reply("ok")]
      /\ UNCHANGED <<loginVars, seals, lock, task, closing, idp, spent, faults>>
  BY DEF Logout
<1>4. UNCHANGED cb /\ ~Undisturbed' /\ ended' \in BOOLEAN
  BY <1>3 DEF loginVars, Undisturbed
<1>5. Reply("ok") \in ReqState /\ Reply("ok").pc = "ok" /\ Reply("ok").seal = 0
  BY ReplyValue, SMTT(60) DEF ReqPoints
<1>6. RequestOK(r)'
  BY <1>1, <1>2, <1>3, <1>4, <1>5 DEF RequestOK, TypeOK, NoRecord, LoggedIn,
     Holders
<1> QED
  BY <1>1, <1>3, <1>4, <1>5, <1>6, RemovalStep, Zenon

(* The session's own end.                                                  *)
LEMMA SessionLapsesKeeps ==
  ASSUME SessionConstants, IndInv, SessionLapses
  PROVE  IndInv'
<1>1. TypeOK /\ LoginOK /\ RecordOK
  BY DEF IndInv
<1>2. /\ UNCHANGED <<flow, cb, req, seals, lock, task, closing, idp, spent, faults>>
      /\ record' = NoRecord /\ record'.seal = 0 /\ record'.fresh = FALSE
      /\ ended' = TRUE /\ ~Undisturbed'
  BY DEF SessionLapses, loginVars, NoRecord, Undisturbed
<1>3. NoRecord \in [tok : Toks, seal : 0 .. MaxSeals, fresh : BOOLEAN]
  BY Zeros DEF NoRecord
<1>4. TypeOK'
  BY <1>1, <1>2, <1>3, SMTT(60) DEF TypeOK
<1>5. LoginOK' /\ RecordOK'
  BY <1>1, <1>2, SMTT(60) DEF LoginOK, RecordOK, LoggedIn, Present,
     StoredTokenCurrent, TypeOK, SessionConstants
<1>6. ASSUME NEW x \in Reqs PROVE RequestOK(x)'
  <2>1. RequestOK(x)
    BY SMTT(60) DEF IndInv
  <2> QED
    BY <1>1, <1>2, <2>1 DEF RequestOK, LoggedIn, Holders, TypeOK
<1>7. ASSUME NEW p \in Procs PROVE TaskOK(p)'
  <2>1. TaskOK(p)
    BY DEF IndInv
  <2> QED
    BY <1>2, <2>1 DEF TaskOK, Owner
<1> QED
  BY <1>4, <1>5, <1>6, <1>7 DEF IndInv

(* The access token nears its end only when no request holds an earlier    *)
(* record: so a task that came back with nothing, whose owner does, is     *)
(* over by then.                                                           *)
LEMMA NearExpiryKeeps ==
  ASSUME SessionConstants, IndInv, NearExpiry
  PROVE  IndInv'
<1>1. TypeOK /\ LoginOK /\ RecordOK
  BY DEF IndInv
<1>2. /\ UNCHANGED <<flow, cb, req, seals, ended, lock, task, closing, idp, spent, faults>>
      /\ record.fresh /\ record' = [record EXCEPT !.fresh = FALSE]
      /\ \A r \in Reqs : req[r].seal \in {0, record.seal}
  BY DEF NearExpiry, loginVars
<1>3. record'.seal = record.seal /\ record'.tok = record.tok /\ record'.fresh = FALSE
      /\ record' \in [tok : Toks, seal : 0 .. MaxSeals, fresh : BOOLEAN]
  BY <1>1, <1>2, Zenon DEF TypeOK
<1>4. TypeOK'
  BY <1>1, <1>2, <1>3 DEF TypeOK
<1>5. LoginOK' /\ RecordOK'
  BY <1>1, <1>2, <1>3
     DEF LoginOK, RecordOK, LoggedIn, Undisturbed, Present, StoredTokenCurrent
<1>6. \A r \in Reqs : req[r].seal = 0
  BY <1>2 DEF IndInv, RequestOK
<1>7. ASSUME NEW x \in Reqs PROVE RequestOK(x)'
  <2>1. RequestOK(x)
    BY DEF IndInv
  <2> QED
    BY <1>1, <1>2, <1>3, <1>6, <2>1 DEF RequestOK, Undisturbed, LoggedIn,
       Holders
<1>8. ASSUME NEW p \in Procs PROVE TaskOK(p)'
  <2>1. TaskOK(p)
    BY DEF IndInv
  <2>2. \A r \in Reqs : ~Owner(r, p)
    BY <1>6 DEF Owner, IndInv, RequestOK, Holders
  <2> QED
    BY <1>2, <2>1, <2>2, SMTT(60) DEF TaskOK, Owning
<1> QED
  BY <1>4, <1>5, <1>7, <1>8 DEF IndInv

-----------------------------------------------------------------------------
(* The login.                                                              *)

LEMMA TakeFlowKeeps ==
  ASSUME SessionConstants, IndInv, NEW c \in Callbacks, TakeFlow(c)
  PROVE  IndInv'
<1>1. TypeOK /\ LoginOK /\ RecordOK
  BY DEF IndInv
<1>2. /\ UNCHANGED <<record, seals, ended, req, lock, task, closing, idp, spent, faults>>
      /\ cb[c] = "idle" /\ flow' = "gone"
      /\ cb' = [cb EXCEPT ![c] = IF flow = "stored" THEN "exchange" ELSE "refused"]
  BY SMTT(60) DEF TakeFlow, storeVars
<1>3. TypeOK'
  BY <1>1, <1>2 DEF TypeOK
<1>4. LoggedIn' <=> LoggedIn
  BY <1>1, <1>2 DEF LoggedIn, TypeOK
<1>5. LoginOK'
  BY <1>1, <1>2, SMTT(60) DEF LoginOK, TypeOK
<1>6. RecordOK'
  BY <1>1, <1>2, <1>4 DEF RecordOK, Undisturbed, Present, StoredTokenCurrent
<1>7. ASSUME NEW x \in Reqs PROVE RequestOK(x)'
  BY <1>2, <1>4, RequestFrame DEF IndInv, Undisturbed
<1>8. ASSUME NEW p \in Procs PROVE TaskOK(p)'
  BY <1>2, TaskFrame DEF IndInv, Undisturbed
<1> QED
  BY <1>3, <1>5, <1>6, <1>7, <1>8 DEF IndInv

(* Before the callback has answered there is no record, no request and no  *)
(* task.                                                                   *)
LEMMA NothingBeforeLogin ==
  ASSUME IndInv, ~LoggedIn
  PROVE  /\ seals = 0 /\ record.seal = 0 /\ ~record.fresh
         /\ \A r \in Reqs : req[r] = NewReq
         /\ \A p \in Procs : task[p].pc = "none"
<1>1. seals = 0 /\ record.seal = 0 /\ ~record.fresh
  BY SMTT(60) DEF IndInv, RecordOK, TypeOK, Present
<1>2. \A r \in Reqs : req[r] = NewReq
  BY DEF IndInv, RequestOK
<1>3. \A p \in Procs : task[p].pc = "none"
  BY <1>2 DEF IndInv, TaskOK, Owner, NewReq
<1> QED
  BY <1>1, <1>2, <1>3

(* The callback that has the flow is the only one under way.               *)
LEMMA AloneInLogin ==
  ASSUME IndInv, NEW c \in Callbacks, cb[c] \in {"exchange", "store"}
  PROVE  /\ ~LoggedIn /\ flow # "stored"
         /\ \A d \in Callbacks : d # c => cb[d] \notin {"exchange", "store", "done"}
BY DEF IndInv, LoginOK, LoggedIn

LEMMA ExchangeKeeps ==
  ASSUME SessionConstants, IndInv, NEW c \in Callbacks, Exchange(c)
  PROVE  IndInv'
<1>1. TypeOK /\ LoginOK /\ RecordOK
  BY DEF IndInv
<1>2. /\ UNCHANGED <<flow, record, seals, ended, req, lock, task, closing, spent>>
      /\ cb[c] = "exchange"
      /\ \/ /\ faults' = faults /\ idp' = idp + 1
            /\ cb' = [cb EXCEPT ![c] = "store"]
         \/ /\ faults' = faults + 1 /\ faults < MaxFaults /\ idp' = idp
            /\ cb' = [cb EXCEPT ![c] = "refused"]
  BY DEF Exchange, storeVars, Fault, NoFault
<1>3. ~LoggedIn /\ flow # "stored"
      /\ \A d \in Callbacks : d # c => cb[d] \notin {"exchange", "store", "done"}
  BY <1>2, AloneInLogin
<1>4. idp = 0
  BY <1>1, <1>2, <1>3 DEF LoginOK
<1>5. idp' \in Toks /\ faults' \in 0 .. MaxFaults
  BY <1>1, <1>2, <1>4 DEF TypeOK, Toks, SessionConstants
<1>6. TypeOK'
  BY <1>1, <1>2, <1>5 DEF TypeOK
<1>7. LoginOK' /\ ~LoggedIn'
  BY <1>1, <1>2, <1>3, <1>4 DEF LoginOK, LoggedIn, TypeOK
<1>8. /\ seals = 0 /\ record.seal = 0 /\ ~record.fresh
      /\ \A r \in Reqs : req[r] = NewReq
      /\ \A p \in Procs : task[p].pc = "none"
  BY SMTT(60), <1>3, NothingBeforeLogin
<1>9. RecordOK'
  BY <1>2, <1>7, <1>8, SMTT(60) DEF RecordOK, Present, StoredTokenCurrent
<1>10. \A x \in Reqs : RequestOK(x)'
  BY <1>2, <1>8, SMTT(60) DEF RequestOK, NewReq, Holders
<1>11. \A p \in Procs : TaskOK(p)'
  BY <1>2, <1>8 DEF TaskOK, Owning
<1> QED
  BY <1>6, <1>7, <1>9, <1>10, <1>11 DEF IndInv

LEMMA StoreNewKeeps ==
  ASSUME SessionConstants, IndInv, NEW c \in Callbacks, StoreNew(c)
  PROVE  IndInv'
<1>1. TypeOK /\ LoginOK /\ RecordOK
  BY DEF IndInv
<1>2. /\ UNCHANGED <<flow, ended, req, lock, task, closing, idp, spent, faults>>
      /\ cb[c] = "store" /\ seals < MaxSeals /\ seals' = seals + 1
      /\ record' = [tok |-> idp, seal |-> seals + 1, fresh |-> TRUE]
      /\ cb' = [cb EXCEPT ![c] = "done"]
  BY DEF StoreNew
<1>3. ~LoggedIn /\ flow # "stored"
      /\ \A d \in Callbacks : d # c => cb[d] \notin {"exchange", "store", "done"}
  BY SMTT(60), <1>2, AloneInLogin
<1>4. /\ seals = 0 /\ record.seal = 0 /\ ~record.fresh
      /\ \A r \in Reqs : req[r] = NewReq
      /\ \A p \in Procs : task[p].pc = "none"
  BY <1>3, NothingBeforeLogin
<1>5. TypeOK'
  BY <1>1, <1>2, <1>4, SMTT(60) DEF TypeOK, SessionConstants
<1>6. LoginOK' /\ LoggedIn'
  BY <1>1, <1>2, <1>3, SMTT(60) DEF LoginOK, LoggedIn, TypeOK
<1>7. RecordOK'
  BY <1>2, <1>4, <1>6, SMTT(60) DEF RecordOK, Present, StoredTokenCurrent
<1>8. \A x \in Reqs : RequestOK(x)'
  BY <1>2, <1>4, <1>6, SMTT(60) DEF RequestOK, NewReq, Holders
<1>9. \A p \in Procs : TaskOK(p)'
  BY <1>2, <1>4 DEF TaskOK, Owning
<1> QED
  BY <1>5, <1>6, <1>7, <1>8, <1>9 DEF IndInv

-----------------------------------------------------------------------------
(* Steps of a process's task.                                              *)

(* A step of the task that leaves the token, the record and the requests   *)
(* alone.                                                                  *)
LEMMA TaskStep ==
  ASSUME SessionConstants, IndInv, NEW p \in Procs, NEW t \in TaskState,
         task' = [task EXCEPT ![p] = t], TaskOK(p)',
         task[p].pc # "store", t.pc # "store",
         lock' = lock \/ (lock = "free" /\ lock' = p),
         UNCHANGED <<loginVars, storeVars, req, closing, idp, faults>>,
         spent' \subseteq Toks
  PROVE  IndInv'
<1>1. TypeOK /\ LoginOK /\ RecordOK
  BY SMTT(60) DEF IndInv
<1>2. /\ UNCHANGED <<flow, cb, record, seals, ended, req, idp, faults>>
      /\ task'[p] = t
      /\ \A q \in Procs : q # p => task'[q] = task[q]
  BY <1>1, SMTT(60) DEF loginVars, storeVars, TypeOK
<1>3. TypeOK'
  BY <1>1, <1>2, SMTT(60) DEF TypeOK, TaskState
<1>4. LoginOK' /\ RecordOK'
  BY <1>1, <1>2 DEF LoginOK, RecordOK, LoggedIn, Undisturbed, Present,
     StoredTokenCurrent
<1>5. ASSUME NEW x \in Reqs PROVE RequestOK(x)'
  BY <1>2, RequestFrame, SMTT(60) DEF IndInv, LoggedIn, Undisturbed
<1>6. ASSUME NEW q \in Procs, q # p PROVE TaskOK(q)'
  <2>1. task[q].pc \in Owning => lock' = lock
    BY DEF IndInv, TaskOK, SessionConstants
  <2> QED
    BY <1>2, <1>6, <2>1, TaskFrame, SMTT(60) DEF IndInv, Undisturbed
<1> QED
  BY <1>3, <1>4, <1>5, <1>6 DEF IndInv

(* Moving on keeps the owner, who still has the token of the task.         *)
LEMMA StepsOn ==
  ASSUME SessionConstants, IndInv, NEW p \in Procs,
         NEW pc \in {"post", "look", "probe", "again"},
         task[p].pc \in Before, Step(p, pc),
         pc = "post" => lock' = p,
         lock' = lock \/ (lock = "free" /\ lock' = p),
         UNCHANGED <<loginVars, storeVars, closing, idp, spent, faults>>
  PROVE  IndInv'
<1> DEFINE t == [task[p] EXCEPT !.pc = pc]
<1>1. TypeOK /\ TaskOK(p)
  BY DEF IndInv
<1>2. task' = [task EXCEPT ![p] = t] /\ UNCHANGED req
  BY DEF Step
<1>3. t \in TaskState /\ t.pc = pc /\ t.tok = task[p].tok /\ task'[p] = t
  BY <1>1, <1>2 DEF TypeOK, TaskState, TaskPoints
<1>4. spent' \subseteq Toks
  BY <1>1, SMTT(60) DEF TypeOK
<1> HIDE DEF t
<1>5. \A r \in Reqs : Owner(r, p) => Owner(r, p)'
  BY <1>2, <1>3, SMTT(60) DEF Owner
<1>6. TaskOK(p)'
  BY <1>1, <1>3, <1>5 DEF TaskOK, Owning, Before
<1> QED
  BY <1>2, <1>3, <1>4, <1>6, TaskStep, Zenon DEF Before

LEMMA TakeLockKeeps ==
  ASSUME SessionConstants, IndInv, NEW p \in Procs, TakeLock(p)
  PROVE  IndInv'
<1>1. CASE lock = "free" /\ lock' = p /\ Step(p, "post")
  BY <1>1, StepsOn DEF TakeLock, Before
<1>2. CASE lock' = lock /\ Step(p, "look")
  BY <1>2, StepsOn DEF TakeLock, Before
<1> QED
  BY <1>1, <1>2, SMTT(60) DEF TakeLock

LEMMA ProbeLockKeeps ==
  ASSUME SessionConstants, IndInv, NEW p \in Procs, ProbeLock(p)
  PROVE  IndInv'
<1>1. CASE Step(p, "again")
  BY <1>1, StepsOn DEF ProbeLock, Before
<1>2. CASE Step(p, "look")
  BY <1>2, StepsOn, SMTT(60) DEF ProbeLock, Before
<1> QED
  BY <1>1, <1>2 DEF ProbeLock

(* While nothing fails, the provider refuses the owner's token only if the *)
(* record the owner had read has been replaced by a renewed one.           *)
LEMMA RefusedIsReplaced ==
  ASSUME IndInv, NEW p \in Procs, task[p].pc = "post", ~Honoured(p), Undisturbed
  PROVE  record.fresh
<1>1. PICK r \in Reqs : Owner(r, p)
  BY SMTT(60) DEF IndInv, TaskOK
<1>2. RequestOK(r) /\ req[r].tok = task[p].tok /\ req[r].seal > 0
  BY <1>1, SMTT(60) DEF IndInv, Owner, Before, RequestOK, Holders
<1>3. \A q \in Procs : task[q].pc # "store"
  BY OneOwner, SMTT(60) DEF Owning
<1>4. CASE req[r].seal = record.seal
  <2>1. record.tok = idp
    BY <1>2, <1>3, <1>4, SMTT(60) DEF IndInv, RecordOK, StoredTokenCurrent,
       Undisturbed, Present
  <2> QED
    BY <1>2, <1>4, <2>1, SMTT(60) DEF RequestOK, Honoured
<1> QED
  BY <1>2, <1>4, SMTT(60) DEF RequestOK

(* After a failure only the lock, the owners and the seals matter.         *)
LEMMA FailedTaskStep ==
  ASSUME SessionConstants, IndInv, NEW p \in Procs, NEW result \in Results,
         task[p].pc \in {"post", "store"}, Conclude(p, result), Fault,
         idp' \in Toks, spent' \subseteq Toks,
         idp' = idp \/ LoggedIn,
         UNCHANGED <<loginVars, storeVars, lock, closing>>
  PROVE  IndInv'
<1> DEFINE t == [pc |-> "release", tok |-> 0, result |-> result]
<1>1. TypeOK /\ LoginOK /\ RecordOK
  BY SMTT(60) DEF IndInv
<1>2. /\ UNCHANGED <<flow, cb, record, seals, ended, req, lock, closing>>
      /\ task'[p] = t /\ task' = [task EXCEPT ![p] = t]
      /\ \A q \in Procs : q # p => task'[q] = task[q]
      /\ faults' \in 0 .. MaxFaults /\ faults' # 0 /\ ~Undisturbed'
  BY <1>1, SMTT(60) DEF loginVars, storeVars, TypeOK, Conclude, Fault,
     Undisturbed, SessionConstants
<1>3. t \in TaskState
  BY Zeros, SMTT(60) DEF TaskState, TaskPoints
<1>4. TypeOK'
  BY <1>1, <1>2, <1>3, SMTT(60) DEF TypeOK, TaskState
<1>5. LoginOK' /\ RecordOK'
  BY <1>1, <1>2, SMTT(60) DEF LoginOK, RecordOK, LoggedIn, Present,
     StoredTokenCurrent
<1>6. ASSUME NEW x \in Reqs PROVE RequestOK(x)'
  BY <1>2, RequestFrame DEF IndInv, LoggedIn
<1>7. ASSUME NEW q \in Procs PROVE TaskOK(q)'
  <2>1. TaskOK(q)
    BY DEF IndInv
  <2>2. CASE q = p
    <3>1. task'[p].pc = "release"
      BY SMTT(60), <1>2
    <3> QED
      BY <1>2, <2>1, <2>2, <3>1, ConcludedOK, ZenonT(60)
  <2>3. CASE q # p
    BY <1>2, <2>1, <2>3, TaskFrame
  <2> QED
    BY <2>2, <2>3
<1> QED
  BY <1>4, <1>5, <1>6, <1>7, SMTT(60) DEF IndInv

(* The owner of a task read a record, so a callback has answered.          *)
LEMMA TaskAfterLogin ==
  ASSUME IndInv, NEW p \in Procs, task[p].pc # "none"
  PROVE  LoggedIn
BY NothingBeforeLogin

LEMMA PostRefreshKeeps ==
  ASSUME SessionConstants, IndInv, NEW p \in Procs, PostRefresh(p)
  PROVE  IndInv'
<1>1. TypeOK /\ LoginOK /\ RecordOK /\ TaskOK(p) /\ LoggedIn /\ task[p].pc = "post"
  BY TaskAfterLogin DEF IndInv, PostRefresh
<1>2. UNCHANGED <<loginVars, storeVars, lock, closing>> /\ spent' \subseteq Toks
  BY <1>1 DEF PostRefresh, TypeOK
<1>3. CASE /\ Exchanged(p) /\ faults' = faults /\ UNCHANGED req
           /\ task' = [task EXCEPT ![p].pc = "store", ![p].tok = idp']
  <2>1. idp' \in Toks
    BY <1>3 DEF Exchanged
  <2>2. /\ UNCHANGED <<flow, cb, record, seals, ended, req, lock, closing, faults>>
        /\ task'[p] = [task[p] EXCEPT !.pc = "store", !.tok = idp']
        /\ \A q \in Procs : q # p => task'[q] = task[q]
    BY <1>1, <1>2, <1>3 DEF loginVars, storeVars, TypeOK
  <2>3. [task[p] EXCEPT !.pc = "store", !.tok = idp'] \in TaskState
    BY <1>1, <2>1, ZenonT(60) DEF TypeOK, TaskState, TaskPoints
  <2>4. TypeOK'
    <3>1. task' \in [Procs -> TaskState]
      BY <1>1, <1>3, <2>3 DEF TypeOK, TaskState
    <3> QED
      BY <1>1, <1>2, <2>1, <2>2, <3>1 DEF TypeOK, TaskState
  <2>5. task'[p].pc = "store" /\ task'[p].tok = idp'
    BY <1>1, <2>2 DEF TypeOK
  <2>6. LoginOK' /\ RecordOK'
    BY <1>1, <2>2, <2>5, Zenon DEF LoginOK, RecordOK, LoggedIn, Undisturbed,
       Present, StoredTokenCurrent
  <2>7. ASSUME NEW x \in Reqs PROVE RequestOK(x)'
    BY <2>2, RequestFrame DEF IndInv, LoggedIn, Undisturbed
  <2>8. ASSUME NEW q \in Procs PROVE TaskOK(q)'
    <3>1. TaskOK(q)
      BY DEF IndInv
    <3>2. CASE q = p
      <4>1. \A r \in Reqs : Owner(r, p) => Owner(r, p)'
        BY <2>2, <2>5 DEF Owner, Before
      <4> QED
        BY <1>1, <2>2, <2>5, <3>2, <4>1, Zenon DEF TaskOK, Owning
    <3>3. CASE q # p
      <4>1. task[q].pc # "store"
        BY <1>1, <3>3, OneOwner DEF Owning
      <4> QED
        BY <2>2, <3>1, <3>3, <4>1, TaskFrame, SMTT(60) DEF Undisturbed
    <3> QED
      BY <3>2, <3>3
  <2> QED
    BY <2>4, <2>6, <2>7, <2>8 DEF IndInv
<1>4. CASE ~Honoured(p) /\ Conclude(p, "nothing") /\ faults' = faults /\ UNCHANGED idp
  <2> DEFINE t == [pc |-> "release", tok |-> 0, result |-> "nothing"]
  <2>1. task' = [task EXCEPT ![p] = t] /\ UNCHANGED req /\ task'[p] = t
    BY <1>1, <1>4 DEF Conclude, TypeOK
  <2>2. t \in TaskState /\ t.pc = "release"
    BY Zeros DEF TaskState, TaskPoints, Results
  <2>3. TaskOK(p)'
    <3>1. task'[p].pc = "release"
      BY SMTT(60), <2>1
    <3>2. Undisturbed' => record'.fresh
      BY <1>1, <1>2, <1>4, RefusedIsReplaced, SMTT(60) DEF storeVars,
         Undisturbed
    <3> QED
      BY <1>1, <1>2, <2>1, <3>1, <3>2, ConcludedOK, ZenonT(60)
  <2> HIDE DEF t
  <2> QED
    BY <1>1, <1>2, <1>4, <2>1, <2>2, <2>3, TaskStep, ZenonT(60)
<1>5. CASE Fault /\ Conclude(p, "nothing") /\ UNCHANGED idp
  BY <1>1, <1>2, <1>5, FailedTaskStep, SMTT(60) DEF Results, TypeOK
<1>6. CASE Fault /\ Conclude(p, "nothing") /\ Exchanged(p)
  <2>1. idp' \in Toks
    BY <1>6, SMTT(60) DEF Exchanged
  <2> QED
    BY <1>1, <1>2, <1>6, <2>1, FailedTaskStep DEF Results
<1> QED
  BY <1>3, <1>4, <1>5, <1>6 DEF PostRefresh, NoFault

(* A stored record is newer than any a request holds, and while nothing    *)
(* fails it has the token the provider accepts.                            *)
LEMMA StoreRefreshedKeeps ==
  ASSUME SessionConstants, IndInv, NEW p \in Procs, StoreRefreshed(p)
  PROVE  IndInv'
<1>1. TypeOK /\ LoginOK /\ RecordOK /\ TaskOK(p) /\ LoggedIn /\ task[p].pc = "store"
  BY TaskAfterLogin DEF IndInv, StoreRefreshed
<1>2. UNCHANGED <<loginVars, lock, closing, idp, spent>>
  BY DEF StoreRefreshed
<1>3. ASSUME Stored(p), NEW result \in Results, Conclude(p, result),
             result # "nothing" \/ faults' # 0,
             faults' \in 0 .. MaxFaults, faults' = 0 => faults = 0
      PROVE  IndInv'
  <2> DEFINE t == [pc |-> "release", tok |-> 0, result |-> result]
  <2>1. /\ UNCHANGED <<flow, cb, ended, req, lock, closing, idp, spent>>
        /\ task' = [task EXCEPT ![p] = t] /\ task'[p] = t
        /\ \A q \in Procs : q # p => task'[q] = task[q]
        /\ seals < MaxSeals /\ seals' = seals + 1
        /\ record' = [tok |-> task[p].tok, seal |-> seals + 1, fresh |-> TRUE]
    BY <1>1, <1>2, <1>3 DEF loginVars, Stored, Conclude, TypeOK
  <2>2. t \in TaskState
    BY Zeros, ZenonT(60) DEF TaskState, TaskPoints
  <2>3. record' \in [tok : Toks, seal : 0 .. MaxSeals, fresh : BOOLEAN]
        /\ seals' \in 0 .. MaxSeals
    <3>1. seals + 1 \in 0 .. MaxSeals
      BY <1>1, <2>1, SMTT(60) DEF TypeOK, SessionConstants
    <3>2. task[p].tok \in Toks
      BY <1>1, ZenonT(60) DEF TypeOK, TaskState
    <3> QED
      BY <2>1, <3>1, <3>2, ZenonT(60)
  <2>4. TypeOK'
    BY <1>1, <1>3, <2>1, <2>2, <2>3, ZenonT(60) DEF TypeOK, TaskState
  <2>5. LoginOK'
    BY <1>1, <2>1, SMTT(60) DEF LoginOK
  <2>6. faults' = 0 => record'.tok = idp'
    BY <1>1, <1>3, <2>1 DEF TaskOK
  <2>7. RecordOK'
    <3>1. LoggedIn' /\ record'.seal = seals' /\ record'.seal > 0 /\ record'.seal <= seals'
      BY <1>1, <2>1 DEF LoggedIn, TypeOK, SessionConstants
    <3> QED
      BY <2>6, <3>1, ZenonT(60) DEF RecordOK, Present, StoredTokenCurrent
  <2>8. ASSUME NEW x \in Reqs PROVE RequestOK(x)'
    <3>1. RequestOK(x) /\ req[x].seal \in Nat /\ seals \in Nat
      BY <1>1, SMTT(60) DEF IndInv, TypeOK, SessionConstants
    <3>2. Undisturbed' => Undisturbed
      BY <1>3, <2>1, SMTT(60) DEF Undisturbed
    <3>3. LoggedIn' /\ record'.fresh /\ record'.seal = seals + 1
      BY <1>1, <2>1 DEF LoggedIn
    <3> QED
      BY <2>1, <3>1, <3>2, <3>3, ReplacedOK, ZenonT(60)
  <2>9. ASSUME NEW q \in Procs PROVE TaskOK(q)'
    <3>1. TaskOK(q)
      BY DEF IndInv
    <3>2. CASE q = p
      <4>1. task'[p].pc = "release" /\ record'.fresh
        BY SMTT(60), <2>1
      <4> QED
        BY <1>1, <2>1, <3>2, <4>1, ConcludedOK, ZenonT(60)
    <3>3. CASE q # p
      BY <1>3, <2>1, <3>1, <3>3, TaskFrame, SMTT(60) DEF Undisturbed
    <3> QED
      BY <3>2, <3>3
  <2> QED
    BY <2>4, <2>5, <2>7, <2>8, <2>9, SMTT(60) DEF IndInv
<1>4. CASE Stored(p) /\ Conclude(p, "record") /\ NoFault
  BY <1>1, <1>3, <1>4 DEF Results, NoFault, TypeOK
<1>5. CASE Fault /\ Stored(p) /\ (Conclude(p, "nothing") \/ Conclude(p, "error"))
  <2>1. faults' \in 0 .. MaxFaults /\ faults' # 0
    BY <1>1, <1>5 DEF Fault, TypeOK, SessionConstants
  <2> QED
    BY <1>3, <1>5, <2>1, SMTT(60) DEF Results
<1>6. CASE /\ Fault /\ UNCHANGED storeVars
           /\ Conclude(p, "nothing") \/ Conclude(p, "error")
  BY <1>1, <1>2, <1>6, FailedTaskStep, Zenon DEF Results, TypeOK
<1> QED
  BY <1>4, <1>5, <1>6, SMTT(60) DEF StoreRefreshed

(* The task ends: it is dropped and every request awaiting it resumes.     *)
LEMMA FinishStep ==
  ASSUME SessionConstants, IndInv, NEW p \in Procs,
         NEW result \in Results \cup {"unavailable"}, Finish(p, result),
         task[p].pc \notin {"none", "store"},
         Undisturbed' /\ result = "nothing" => record.fresh,
         lock' = lock \/ (lock = p /\ lock' = "free"),
         faults' \in 0 .. MaxFaults, faults' = 0 => faults = 0,
         UNCHANGED <<loginVars, storeVars, closing, idp, spent>>
  PROVE  IndInv'
<1>1. TypeOK /\ LoginOK /\ RecordOK /\ LoggedIn
  BY TaskAfterLogin, SMTT(60) DEF IndInv
<1>2. /\ UNCHANGED <<flow, cb, record, seals, ended, closing, idp, spent>>
      /\ task' = [task EXCEPT ![p] = NoTask] /\ task'[p] = NoTask
      /\ \A q \in Procs : q # p => task'[q] = task[q]
      /\ req' = [r \in Reqs |-> IF r \in Awaiting(p) THEN Resume(r, result) ELSE req[r]]
      /\ Undisturbed' => Undisturbed
  BY <1>1, SMTT(60) DEF loginVars, storeVars, Finish, TypeOK, Undisturbed
<1>3. NoTask \in TaskState
  BY Zeros DEF NoTask, TaskState, TaskPoints, Results
<1>4. ASSUME NEW r \in Reqs
      PROVE  /\ Resume(r, result) \in ReqState
             /\ IF result = "nothing"
                THEN Resume(r, result) = [req[r] EXCEPT !.pc = "reread"]
                ELSE /\ Resume(r, result).pc \in {"logout", "ok", "503", "500"}
                     /\ Resume(r, result).pc = "logout" => r \in Logouts
                     /\ Resume(r, result).seal = 0
  BY <1>1, ResumeValue, SMTT(60) DEF TypeOK, ReqState
<1>5. TypeOK'
  <2>1. req' \in [Reqs -> ReqState]
    BY <1>1, <1>2, <1>4, SMTT(60) DEF TypeOK, ReqState
  <2> QED
    BY <1>1, <1>2, <1>3, <2>1 DEF TypeOK, TaskState, ReqState
<1>6. LoginOK' /\ RecordOK'
  BY <1>1, <1>2, SMTT(60) DEF LoginOK, RecordOK, LoggedIn, Undisturbed,
     Present, StoredTokenCurrent, NoTask
<1>7. ASSUME NEW r \in Reqs PROVE RequestOK(r)'
  <2>1. RequestOK(r) /\ req[r] \in ReqState
    BY <1>1, SMTT(60) DEF IndInv, TypeOK, ReqState
  <2>2. CASE r \notin Awaiting(p)
    BY <1>2, <2>1, <2>2, RequestFrame DEF LoggedIn
  <2>3. CASE r \in Awaiting(p) /\ result = "nothing"
    <3>1. req'[r] = [req[r] EXCEPT !.pc = "reread"] /\ req[r].pc \in Holders
      BY <1>2, <1>4, <2>3 DEF Awaiting, Holders
    <3> QED
      BY <1>1, <1>2, <2>1, <2>3, <3>1 DEF RequestOK, LoggedIn, Holders,
         ReqState
  <2>4. CASE r \in Awaiting(p) /\ result # "nothing"
    <3>1. req'[r].pc \in {"logout", "ok", "503", "500"} /\ req'[r].seal = 0
          /\ (req'[r].pc = "logout" => r \in Logouts)
      BY SMTT(60), <1>2, <1>4, <2>4
    <3> QED
      BY <1>1, <1>2, <3>1, AnsweredOK, Zenon
  <2> QED
    BY SMTT(60), <2>2, <2>3, <2>4
<1>8. ASSUME NEW q \in Procs PROVE TaskOK(q)'
  <2>1. CASE q = p
    BY <1>2, <2>1 DEF TaskOK, NoTask, Owning
  <2>2. CASE q # p
    <3>1. task[q].pc \in Owning => lock' = lock
      BY <2>2, Zenon DEF IndInv, TaskOK
    <3>2. \A r \in Reqs : ProcOf[r] = q => req'[r] = req[r]
      BY <1>2, <2>2, ZenonT(60) DEF Awaiting
    <3> QED
      BY <1>2, <2>2, <3>1, <3>2, TaskFrame, Zenon DEF IndInv
  <2> QED
    BY SMTT(60), <2>1, <2>2
<1> QED
  BY <1>5, <1>6, <1>7, <1>8, ZenonT(60) DEF IndInv

LEMMA ReleaseLockKeeps ==
  ASSUME SessionConstants, IndInv, NEW p \in Procs, ReleaseLock(p)
  PROVE  IndInv'
<1>1. TypeOK /\ TaskOK(p) /\ task[p].pc = "release" /\ task[p].result \in Results
  BY SMTT(60) DEF IndInv, ReleaseLock, TypeOK
<1>2. /\ Finish(p, task[p].result)
      /\ lock' = lock \/ (lock = p /\ lock' = "free")
      /\ UNCHANGED <<loginVars, storeVars, closing, idp, spent>>
      /\ faults' = faults \/ (faults < MaxFaults /\ faults' = faults + 1)
  BY SMTT(60) DEF ReleaseLock, NoFault, Fault
<1>3. faults' \in 0 .. MaxFaults /\ (faults' = 0 => faults = 0)
  BY <1>1, <1>2, SMTT(60) DEF TypeOK, SessionConstants
<1>4. Undisturbed' /\ task[p].result = "nothing" => record.fresh
  BY <1>1, <1>2, <1>3, ZenonT(60) DEF TaskOK, Undisturbed, storeVars
<1> QED
  BY SMTT(60), <1>1, <1>2, <1>3, <1>4, FinishStep

LEMMA LookAtSessionKeeps ==
  ASSUME SessionConstants, IndInv, NEW p \in Procs, LookAtSession(p)
  PROVE  IndInv'
<1>1. faults \in 0 .. MaxFaults
  BY SMTT(60) DEF IndInv, TypeOK
<1>2. CASE Finish(p, "record")
  BY <1>1, <1>2, FinishStep, ZenonT(60) DEF LookAtSession, Results
<1>3. CASE Step(p, "probe")
  BY <1>3, StepsOn, SMTT(60) DEF LookAtSession, Before
<1> QED
  BY <1>2, <1>3 DEF LookAtSession

LEMMA LookAgainKeeps ==
  ASSUME SessionConstants, IndInv, NEW p \in Procs, LookAgain(p)
  PROVE  IndInv'
<1>1. faults \in 0 .. MaxFaults
  BY DEF IndInv, TypeOK
<1>2. CASE Finish(p, "record")
  BY <1>1, <1>2, FinishStep, SMTT(60) DEF LookAgain, Results
<1>3. CASE Finish(p, "unavailable")
  BY <1>1, <1>3, FinishStep, SMTT(60) DEF LookAgain, Results
<1> QED
  BY <1>2, <1>3, SMTT(60) DEF LookAgain

LEMMA LookDeadlineKeeps ==
  ASSUME SessionConstants, IndInv, NEW p \in Procs, LookDeadline(p)
  PROVE  IndInv'
<1>1. faults \in 0 .. MaxFaults
  BY DEF IndInv, TypeOK
<1> QED
  BY <1>1, FinishStep, SMTT(60) DEF LookDeadline, Results

-----------------------------------------------------------------------------
(* Time, shutdown and crashes.                                             *)

(* The lock lapses only when the task of its holder is past it.            *)
LEMMA LockLapsesKeeps ==
  ASSUME SessionConstants, IndInv, LockLapses
  PROVE  IndInv'
<1>1. TypeOK /\ LoginOK /\ RecordOK
  BY DEF IndInv
<1>2. /\ UNCHANGED <<flow, cb, record, seals, ended, task, req, closing, idp, spent, faults>>
      /\ lock' = "free" /\ task[lock].pc \notin Owning
  BY DEF LockLapses, loginVars, storeVars, Owning
<1>3. TypeOK'
  BY <1>1, <1>2, ZenonT(60) DEF TypeOK
<1>4. LoginOK' /\ RecordOK'
  BY <1>1, <1>2 DEF LoginOK, RecordOK, LoggedIn, Undisturbed, Present,
     StoredTokenCurrent
<1>5. ASSUME NEW x \in Reqs PROVE RequestOK(x)'
  BY <1>2, RequestFrame, SMTT(60) DEF IndInv, LoggedIn, Undisturbed
<1>6. ASSUME NEW q \in Procs PROVE TaskOK(q)'
  <2>1. TaskOK(q)
    BY DEF IndInv
  <2>2. task[q].pc \notin Owning
    BY <1>2, <2>1 DEF TaskOK
  <2> QED
    BY <1>2, <2>1, <2>2, TaskFrame, SMTT(60) DEF Undisturbed
<1> QED
  BY <1>3, <1>4, <1>5, <1>6 DEF IndInv

LEMMA ClosingKeeps ==
  ASSUME SessionConstants, IndInv, NEW p \in Procs, BeginClose(p) \/ Drained(p)
  PROVE  IndInv'
<1>1. TypeOK /\ LoginOK /\ RecordOK
  BY SMTT(60) DEF IndInv
<1>2. /\ UNCHANGED <<flow, cb, record, seals, ended, lock, task, req, idp, spent>>
      /\ closing' \subseteq closing \cup {p}
      /\ faults' = faults \/ (faults < MaxFaults /\ faults' = faults + 1)
  BY SMTT(60) DEF BeginClose, Drained, loginVars, storeVars, Fault
<1>3. faults' \in 0 .. MaxFaults /\ (faults' = 0 => faults = 0)
  BY <1>1, <1>2, SMTT(60) DEF TypeOK, SessionConstants
<1>4. Undisturbed' => Undisturbed
  BY <1>2, <1>3 DEF Undisturbed
<1>5. TypeOK'
  BY <1>1, <1>2, <1>3, ZenonT(60) DEF TypeOK
<1>6. LoginOK' /\ RecordOK'
  BY <1>1, <1>2, <1>3, <1>4, SMTT(60) DEF LoginOK, RecordOK, LoggedIn, Present,
     StoredTokenCurrent
<1>7. ASSUME NEW x \in Reqs PROVE RequestOK(x)'
  BY <1>2, <1>4, RequestFrame, SMTT(60) DEF IndInv, LoggedIn
<1>8. ASSUME NEW q \in Procs PROVE TaskOK(q)'
  BY <1>2, <1>3, <1>4, TaskFrame, SMTT(60) DEF IndInv
<1> QED
  BY <1>5, <1>6, <1>7, <1>8 DEF IndInv

(* A crash takes the task together with its owner.                         *)
LEMMA CrashKeeps ==
  ASSUME SessionConstants, IndInv, NEW p \in Procs, Crash(p)
  PROVE  IndInv'
<1>1. TypeOK /\ LoginOK /\ RecordOK
  BY SMTT(60) DEF IndInv
<1>2. /\ UNCHANGED <<flow, cb, record, seals, ended, lock, idp, spent>>
      /\ task' = [task EXCEPT ![p] = NoTask] /\ task'[p] = NoTask
      /\ \A q \in Procs : q # p => task'[q] = task[q]
      /\ closing' \subseteq closing
      /\ faults' \in 0 .. MaxFaults /\ faults' # 0 /\ ~Undisturbed'
  BY <1>1 DEF Crash, loginVars, storeVars, TypeOK, Fault, Undisturbed,
     SessionConstants
<1>3. NoTask \in TaskState
  BY Zeros DEF NoTask, TaskState, TaskPoints, Results
<1>4. Reply("lost") \in ReqState /\ Reply("lost").pc = "lost" /\ Reply("lost").seal = 0
  BY ReplyValue, SMTT(60) DEF ReqPoints
<1>5. ASSUME NEW r \in Reqs
      PROVE  IF ProcOf[r] = p /\ req[r].pc \notin {"idle"} \cup Answered
             THEN req'[r] = Reply("lost") ELSE req'[r] = req[r]
  BY SMTT(60) DEF Crash
<1>6. TypeOK'
  <2>1. req' \in [Reqs -> ReqState]
    BY <1>1, <1>4, SMTT(60) DEF TypeOK, ReqState, Crash
  <2> QED
    BY <1>1, <1>2, <1>3, <2>1, SMTT(60) DEF TypeOK, TaskState, ReqState
<1>7. LoginOK' /\ RecordOK'
  BY <1>1, <1>2, SMTT(60) DEF LoginOK, RecordOK, LoggedIn, Present,
     StoredTokenCurrent
<1>8. ASSUME NEW r \in Reqs PROVE RequestOK(r)'
  <2>1. RequestOK(r) /\ req[r] \in ReqState
    BY <1>1, ZenonT(60) DEF IndInv, TypeOK, ReqState
  <2>2. CASE req'[r] = req[r]
    BY <1>2, <2>1, <2>2, RequestFrame DEF LoggedIn
  <2>3. CASE req'[r] = Reply("lost") /\ req[r].pc # "idle"
    <3>1. LoggedIn
      BY <2>1, <2>3, SMTT(60) DEF RequestOK, NewReq
    <3> QED
      BY <1>1, <1>2, <1>4, <2>3, <3>1, AnsweredOK, ZenonT(60)
  <2> QED
    BY <1>5, <2>2, <2>3
<1>9. ASSUME NEW q \in Procs PROVE TaskOK(q)'
  <2>1. CASE q = p
    BY <1>2, <2>1, SMTT(60) DEF TaskOK, NoTask, Owning
  <2>2. CASE q # p
    BY <1>2, <1>5, <2>2, TaskFrame DEF IndInv
  <2> QED
    BY <2>1, <2>2
<1> QED
  BY <1>6, <1>7, <1>8, <1>9 DEF IndInv

-----------------------------------------------------------------------------
(* The theorems.                                                           *)

LEMMA InitInv == SessionConstants /\ Init => IndInv
<1> SUFFICES ASSUME SessionConstants, Init PROVE IndInv
  BY SMTT(60)
<1>1. NoRecord \in [tok : Toks, seal : 0 .. MaxSeals, fresh : BOOLEAN]
      /\ NewReq \in ReqState /\ NoTask \in TaskState
  BY Zeros DEF NoRecord, NewReq, ReqState, ReqPoints, NoTask, TaskState,
     TaskPoints, Results
<1>2. TypeOK
  <2>1. 0 \in 0 .. MaxFaults
    BY DEF SessionConstants
  <2>2. req \in [Reqs -> ReqState] /\ task \in [Procs -> TaskState]
    BY <1>1, SMTT(60) DEF Init
  <2> QED
    BY <1>1, <2>1, <2>2, Zeros, Zenon DEF Init, TypeOK, ReqState, TaskState
<1>3. record.seal = 0 /\ ~record.fresh /\ seals = 0 /\ ~LoggedIn
  BY SMTT(60) DEF Init, NoRecord, LoggedIn
<1>4. LoginOK /\ RecordOK
  BY <1>3, SMTT(60) DEF Init, LoginOK, RecordOK, Present, StoredTokenCurrent
<1>5. ASSUME NEW r \in Reqs PROVE RequestOK(r)
  BY <1>3, SMTT(60) DEF Init, RequestOK, NewReq, Holders
<1>6. ASSUME NEW p \in Procs PROVE TaskOK(p)
  BY DEF Init, TaskOK, NoTask, Owning
<1> QED
  BY <1>2, <1>4, <1>5, <1>6 DEF IndInv

LEMMA NextInv == SessionConstants /\ IndInv /\ [Next]_vars => IndInv'
<1> SUFFICES ASSUME SessionConstants, IndInv, [Next]_vars PROVE IndInv'
  OBVIOUS
<1>1. ASSUME NEW c \in Callbacks, Login(c) PROVE IndInv'
  BY <1>1, TakeFlowKeeps, ExchangeKeeps, StoreNewKeeps, SMTT(60) DEF Login
<1>2. ASSUME NEW r \in Reqs, ReadSession(r) \/ Request(r) \/ WaiterTimeout(r)
      PROVE  IndInv'
  BY SMTT(60), <1>2, ReadSessionKeeps, JoinRefreshKeeps, RereadKeeps,
     DeleteIfUnchangedKeeps, ConsumeKeeps, LogoutKeeps, WaiterTimeoutKeeps DEF
     Request
<1>3. ASSUME NEW p \in Procs, Task(p) PROVE IndInv'
  BY SMTT(60), <1>3, TakeLockKeeps, PostRefreshKeeps, StoreRefreshedKeeps,
     ReleaseLockKeeps, LookAtSessionKeeps, ProbeLockKeeps, LookAgainKeeps DEF
     Task
<1>4. ASSUME NEW p \in Procs,
             LookDeadline(p) \/ BeginClose(p) \/ Drained(p) \/ Crash(p)
      PROVE  IndInv'
  BY <1>4, LookDeadlineKeeps, ClosingKeeps, CrashKeeps
<1>5. CASE NearExpiry \/ SessionLapses \/ LockLapses
  BY <1>5, NearExpiryKeeps, SessionLapsesKeeps, LockLapsesKeeps, Zenon
<1>6. CASE UNCHANGED vars
  <2>1. TypeOK' /\ LoginOK' /\ RecordOK'
    BY <1>6, ZenonT(60) DEF vars, IndInv, TypeOK, LoginOK, RecordOK, LoggedIn,
       Undisturbed, Present, StoredTokenCurrent
  <2>2. ASSUME NEW r \in Reqs PROVE RequestOK(r)'
    BY <1>6, RequestFrame DEF vars, IndInv, LoggedIn, Undisturbed
  <2>3. ASSUME NEW p \in Procs PROVE TaskOK(p)'
    BY <1>6, TaskFrame DEF vars, IndInv, Undisturbed
  <2> QED
    BY <2>1, <2>2, <2>3 DEF IndInv
<1> QED
  BY <1>1, <1>2, <1>3, <1>4, <1>5, <1>6 DEF Next

(* The inductive invariant holds throughout.                               *)
THEOREM SessionInvariant == SessionConstants => (Spec => []IndInv)
<1> SUFFICES ASSUME SessionConstants PROVE Spec => []IndInv
  OBVIOUS
<1>1. Init => IndInv
  BY InitInv
<1>2. IndInv /\ [Next]_vars => IndInv'
  BY NextInv
<1> QED
  BY <1>1, <1>2, PTL DEF Spec

(* What the invariant says of the properties.                              *)
LEMMA InvSafe == SessionConstants /\ IndInv => TypeOK /\ SessionsHold
<1> SUFFICES ASSUME SessionConstants, IndInv PROVE TypeOK /\ SessionsHold
  OBVIOUS
<1>1. SingleFlight
  BY OneOwner, SMTT(60) DEF SingleFlight, InFlight, Owning
<1>2. StoredTokenCurrent
  BY SMTT(60) DEF IndInv, RecordOK
<1>3. SignOutJustified
  BY SMTT(60) DEF IndInv, RequestOK, SignOutJustified, Undisturbed, TypeOK,
     SessionConstants
<1> QED
  BY <1>1, <1>2, <1>3 DEF SessionsHold, IndInv

(* Every variable keeps its type: in particular the provider's tokens stay *)
(* within the bound, because one callback gets the flow.                   *)
THEOREM SessionTypes == SessionConstants => (Spec => []TypeOK)
<1> SUFFICES ASSUME SessionConstants PROVE Spec => []TypeOK
  OBVIOUS
<1>1. IndInv => TypeOK
  BY DEF IndInv
<1> QED
  BY <1>1, SessionInvariant, PTL

(* Across any number of processes at most one refresh is between taking    *)
(* the Valkey lock and storing its record (_refresh_distributed).          *)
THEOREM RefreshIsSingleFlight == SessionConstants => (Spec => []SingleFlight)
<1> SUFFICES ASSUME SessionConstants PROVE Spec => []SingleFlight
  BY SMTT(60)
<1>1. IndInv => SingleFlight
  BY InvSafe DEF SessionsHold
<1> QED
  BY <1>1, SessionInvariant, PTL

(* While nothing fails, the stored refresh token is the one the provider   *)
(* accepts next, unless the owner is about to store its successor.         *)
THEOREM TokenStaysCurrent == SessionConstants => (Spec => []StoredTokenCurrent)
<1> SUFFICES ASSUME SessionConstants PROVE Spec => []StoredTokenCurrent
  OBVIOUS
<1>1. IndInv => StoredTokenCurrent
  BY InvSafe DEF SessionsHold
<1> QED
  BY <1>1, SessionInvariant, PTL

(* While nothing fails, no interleaving of requests, processes, expiries   *)
(* and refreshes signs a browser out (authenticate_session).               *)
THEOREM SignOutNeedsCause == SessionConstants => (Spec => []SignOutJustified)
<1> SUFFICES ASSUME SessionConstants PROVE Spec => []SignOutJustified
  OBVIOUS
<1>1. IndInv => SignOutJustified
  BY InvSafe DEF SessionsHold
<1> QED
  BY <1>1, SessionInvariant, PTL

(* The three together, which is what the operations run checks on a small  *)
(* instance: any number of processes, requests and browsers (Reqs).        *)
THEOREM SessionsAreSafe == SessionConstants => (Spec => []SessionsHold)
<1> SUFFICES ASSUME SessionConstants PROVE Spec => []SessionsHold
  OBVIOUS
<1>1. SingleFlight /\ SignOutJustified /\ StoredTokenCurrent => SessionsHold
  BY SMTT(60) DEF SessionsHold
<1> QED
  BY <1>1, RefreshIsSingleFlight, SignOutNeedsCause, TokenStaysCurrent, PTL

(* A step that removes a good record is a logout.                          *)
LEMMA KeptByStep ==
  SessionConstants /\ IndInv /\ [Next]_vars => RotatedSessionKept
<1> SUFFICES ASSUME SessionConstants, IndInv, [Next]_vars, record.fresh, ~Present'
             PROVE  \E r \in Logouts : req[r].pc = "logout" /\ req'[r].pc = "ok"
  BY SMTT(60) DEF RotatedSessionKept
<1>1. record.seal > 0 /\ record.seal \in Nat /\ seals \in Nat /\ TypeOK
  BY DEF IndInv, RecordOK, Present, TypeOK, SessionConstants
<1>2. record' # record
  BY <1>1, SMTT(60) DEF Present
<1>3. ASSUME NEW c \in Callbacks, Login(c) PROVE FALSE
  BY <1>1, <1>2, <1>3, SMTT(60) DEF Login, TakeFlow, Exchange, StoreNew,
     storeVars, Present
<1>4. ASSUME NEW r \in Reqs,
             ReadSession(r) \/ WaiterTimeout(r) \/ JoinRefresh(r) \/ Reread(r) \/ Consume(r)
      PROVE  FALSE
  BY <1>2, <1>4, SMTT(60) DEF ReadSession, WaiterTimeout, JoinRefresh, Reread,
     Consume, storeVars
<1>5. ASSUME NEW r \in Reqs, DeleteIfUnchanged(r) PROVE FALSE
  BY <1>2, <1>5, SMTT(60) DEF DeleteIfUnchanged, IndInv, RequestOK
<1>6. ASSUME NEW p \in Procs,
             TakeLock(p) \/ PostRefresh(p) \/ ReleaseLock(p) \/ LookAtSession(p)
               \/ ProbeLock(p) \/ LookAgain(p) \/ LookDeadline(p)
               \/ BeginClose(p) \/ Drained(p) \/ Crash(p)
      PROVE  FALSE
  BY <1>2, <1>6, Zenon DEF TakeLock, PostRefresh, ReleaseLock, LookAtSession,
     ProbeLock, LookAgain, LookDeadline, BeginClose, Drained, Crash, storeVars
<1>7. ASSUME NEW p \in Procs, StoreRefreshed(p) PROVE FALSE
  <2>1. Stored(p) \/ UNCHANGED storeVars
    BY <1>7, ZenonT(60) DEF StoreRefreshed
  <2>2. record'.seal = seals + 1 \/ UNCHANGED record
    BY <2>1 DEF Stored, storeVars
  <2> QED
    BY <1>1, <1>2, <2>2 DEF Present
<1>8. ~NearExpiry /\ ~SessionLapses /\ ~LockLapses /\ ~UNCHANGED vars
  BY <1>1, <1>2 DEF NearExpiry, SessionLapses, LockLapses, storeVars, vars,
     Present, TypeOK
<1>9. PICK r \in Reqs : Logout(r)
  BY <1>3, <1>4, <1>5, <1>6, <1>7, <1>8, ZenonT(60) DEF Next, Request, Task
<1>10. req[r].pc = "logout" /\ r \in Logouts /\ req'[r] = Reply("ok")
  BY <1>1, <1>9 DEF Logout, IndInv, RequestOK, TypeOK
<1> QED
  BY <1>10, ReplyValue, SMTT(60) DEF ReqPoints

(* docs/releases/v2.0.1.md: concurrent requests cannot delete a            *)
(* successfully rotated session; only a logout removes a good record.      *)
THEOREM RotatedSessionIsKept ==
  SessionConstants => (Spec => [][RotatedSessionKept]_vars)
<1> SUFFICES ASSUME SessionConstants PROVE Spec => [][RotatedSessionKept]_vars
  OBVIOUS
<1>1. IndInv /\ [Next]_vars => RotatedSessionKept
  BY KeptByStep
<1> QED
  BY <1>1, SessionInvariant, PTL DEF Spec
=============================================================================
