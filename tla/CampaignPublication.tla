------------------------ MODULE CampaignPublication -------------------------
(***************************************************************************)
(* The campaign and contest read models of one month: how a promoted sales *)
(* generation, or a new promo generation, reaches the two published heads. *)
(*                                                                         *)
(*   services/grile_outbox_delivery.py      delivery of the sales event    *)
(*   services/job_publication.py            the job's identity in ARQ      *)
(*   services/campaign_reporting_worker.py  the publication job            *)
(*   services/sales_generation_lineage_guard.py  the lock on the sales head*)
(*   services/campaign_reporting.py         CampaignReportingPublisher     *)
(*   services/contest_reporting.py          ContestReportingPublisher      *)
(*   services/imports.py                    the trigger after a promo import*)
(*                                                                         *)
(* A sales generation is its revision and a promo generation its number in *)
(* the order of the pointers.  The outbox keeps the events of the month in *)
(* order (module Outbox); the pointer is moved by module PromoGenerations. *)
(***************************************************************************)
EXTENDS Integers, Sequences

CONSTANTS Stores,     \* stores the publication evaluates one by one
          MaxSales,   \* sales generations of the month
          MaxPromos,  \* promo generations
          MaxFaults   \* failures, cancellations, timeouts and crashes

VARIABLES sales,     \* revision of the sales head
          pointer,   \* the active promo generation
          campaigns, \* the campaign generations in the order of their revisions
          contests,  \* the contest generations in the order of their revisions
          arq,       \* the job of each sales revision: its key in Valkey
          job,       \* the publication that runs for each sales revision
          event,     \* the outbox event of each sales revision, with its receipt
          delivery,  \* its delivery in the outbox worker
          trigger,   \* promo imports that have yet to trigger a publication
          budget

vars == <<sales, pointer, campaigns, contests, arq, job, event, delivery, trigger, budget>>

Revisions == 1 .. MaxSales
Promos == 0 .. MaxPromos
Published == [sales : Revisions, promo : Promos, rows : [Stores -> SUBSET Promos]]
NoRows == [s \in Stores |-> {}]
NoRun == [pc |-> "idle", promo |-> 0, config |-> 0, rows |-> NoRows, left |-> {}, contest |-> 0]
NoKey == [status |-> "none", outcome |-> "none", campaign |-> 0, contest |-> 0]
Open(state) == [state |-> state, campaign |-> 0, contest |-> 0]

TypeOK ==
    /\ sales \in 0 .. MaxSales
    /\ pointer \in Promos
    /\ campaigns \in Seq(Published)
    /\ contests \in Seq([sales : Revisions, promo : Promos])
    /\ arq \in [Revisions -> [status : {"none", "queued", "running", "complete"},
                              outcome : {"none", "published", "superseded", "error"},
                              campaign : Nat, contest : Nat]]
    /\ job \in [Revisions -> [pc : {"idle", "read", "config", "stores", "checked", "contests",
                                    "commit"},
                              promo : Promos, config : Promos, rows : [Stores -> SUBSET Promos],
                              left : SUBSET Stores, contest : Promos]]
    /\ event \in [Revisions -> [state : {"none", "pending", "published", "superseded"},
                                campaign : Nat, contest : Nat]]
    /\ delivery \in [Revisions -> {"idle", "enqueue", "wait"}]
    /\ trigger \in Promos
    /\ budget \in 0 .. MaxFaults

Init ==
    /\ sales = 0 /\ pointer = 0
    /\ campaigns = <<>> /\ contests = <<>>
    /\ arq = [r \in Revisions |-> NoKey]
    /\ job = [r \in Revisions |-> NoRun]
    /\ event = [r \in Revisions |-> Open("none")]
    /\ delivery = [r \in Revisions |-> "idle"]
    /\ trigger = 0
    /\ budget = MaxFaults

Spend == budget > 0 /\ budget' = budget - 1

-----------------------------------------------------------------------------
(* The sources move *)

\* No publication holds the share lock on the sales head of the month.
HeadUnshared == \A r \in Revisions : job[r].pc = "idle"

\* A sales generation is promoted: the head moves and its event is emitted.
PromoteSales ==
    /\ sales < MaxSales
    /\ HeadUnshared
    /\ sales' = sales + 1
    /\ event' = [event EXCEPT ![sales'] = Open("pending")]
    /\ UNCHANGED <<pointer, campaigns, contests, arq, job, delivery, trigger, budget>>

\* A promo import moves the pointer and goes on to trigger a publication.
PromotePromo ==
    /\ pointer < MaxPromos
    /\ pointer' = pointer + 1
    /\ trigger' = trigger + 1
    /\ UNCHANGED <<sales, campaigns, contests, arq, job, event, delivery, budget>>

-----------------------------------------------------------------------------
(* The job in the queue *)

\* enqueue_campaign_reporting_publication: one job for each sales generation.  A job
\* that waits or runs is reused, the result of a finished one is deleted and the job
\* queued again.
Enqueue(r) ==
    IF arq[r].status \in {"queued", "running"} THEN UNCHANGED arq
    ELSE arq' = [arq EXCEPT ![r] = [NoKey EXCEPT !.status = "queued"]]

\* trigger_campaign_reporting_publication: best effort for the sales head of the moment.
Trigger ==
    /\ trigger > 0
    /\ trigger' = trigger - 1
    /\ IF sales = 0 THEN UNCHANGED arq ELSE Enqueue(sales)
    /\ UNCHANGED <<sales, pointer, campaigns, contests, job, event, delivery, budget>>

\* The lineage cannot be read or the job cannot be published: logged and forgotten.
TriggerLost ==
    /\ trigger > 0
    /\ trigger' = trigger - 1
    /\ Spend
    /\ UNCHANGED <<sales, pointer, campaigns, contests, arq, job, event, delivery>>

-----------------------------------------------------------------------------
(* The publication job *)

Result(r, outcome, c, k) ==
    arq' = [arq EXCEPT ![r] = [status |-> "complete", outcome |-> outcome,
                               campaign |-> c, contest |-> k]]

Superseded(r) == sales > r

\* guard_sales_generation_lineage_bound: lock the sales head and compare it.
Start(r) ==
    /\ arq[r].status = "queued"
    /\ IF Superseded(r)
       THEN Result(r, "superseded", 0, 0) /\ UNCHANGED job
       ELSE /\ arq' = [arq EXCEPT ![r].status = "running"]
            /\ job' = [job EXCEPT ![r] = [NoRun EXCEPT !.pc = "read"]]
    /\ UNCHANGED <<sales, pointer, campaigns, contests, event, delivery, trigger, budget>>

\* CampaignReportingPublisher.publish_month reads the metadata of the promo pointer.
ReadPromo(r) ==
    /\ job[r].pc = "read"
    /\ job' = [job EXCEPT ![r].pc = "config", ![r].promo = pointer]
    /\ UNCHANGED <<sales, pointer, campaigns, contests, arq, event, delivery, trigger, budget>>

\* It loads the configuration the pointer names by then.
LoadConfig(r) ==
    /\ job[r].pc = "config"
    /\ job' = [job EXCEPT ![r].pc = "stores", ![r].config = pointer, ![r].left = Stores]
    /\ UNCHANGED <<sales, pointer, campaigns, contests, arq, event, delivery, trigger, budget>>

\* The promotions of a store are evaluated with the configuration loaded at the start.
PromotionSource(r) == job[r].config

\* Its incentives load the configuration again.
IncentiveSource(r) == pointer

EvaluateStore(r) ==
    /\ job[r].pc = "stores"
    /\ \E s \in job[r].left :
         job' = [job EXCEPT ![r].rows[s] = {PromotionSource(r), IncentiveSource(r)}, ![r].left = @ \ {s}]
    /\ UNCHANGED <<sales, pointer, campaigns, contests, arq, event, delivery, trigger, budget>>

PromoUnchanged(r) == pointer = job[r].promo

\* _sales_source, read again: the locked head has not moved.
SalesUnchanged(r) == sales = r

\* Both sources are read again; a moved one ends the publication with an error.
FinalCheck(r) ==
    /\ job[r].pc = "stores" /\ job[r].left = {}
    /\ IF SalesUnchanged(r) /\ PromoUnchanged(r)
       THEN job' = [job EXCEPT ![r].pc = "checked"] /\ UNCHANGED arq
       ELSE job' = [job EXCEPT ![r] = NoRun] /\ Result(r, "error", 0, 0)
    /\ UNCHANGED <<sales, pointer, campaigns, contests, event, delivery, trigger, budget>>

\* publish_campaign_reporting_generation: an input that is the head already keeps its
\* revision, another one takes the next.
WithCampaign(r) ==
    LET new == [sales |-> r, promo |-> job[r].promo, rows |-> job[r].rows]
    IN IF campaigns # <<>> /\ campaigns[Len(campaigns)] = new THEN campaigns
       ELSE Append(campaigns, new)

\* The same for the contests, whose rows follow the promo generation they loaded.
WithContest(r) ==
    LET new == [sales |-> r, promo |-> job[r].contest]
    IN IF contests # <<>> /\ contests[Len(contests)] = new THEN contests
       ELSE Append(contests, new)

\* The campaign rows are written inside the transaction that holds the sales head.
PublishCampaign(r) ==
    /\ job[r].pc = "checked"
    /\ job' = [job EXCEPT ![r].pc = "contests"]
    /\ UNCHANGED <<sales, pointer, campaigns, contests, arq, event, delivery, trigger, budget>>

\* ContestReportingPublisher.publish_month, in the same transaction: the contests load the
\* promo configuration of that moment.
EvaluateContests(r) ==
    /\ job[r].pc = "contests"
    /\ job' = [job EXCEPT ![r].pc = "commit", ![r].contest = pointer]
    /\ UNCHANGED <<sales, pointer, campaigns, contests, arq, event, delivery, trigger, budget>>

Committed(r) ==
    /\ job[r].pc = "commit"
    /\ campaigns' = WithCampaign(r)
    /\ contests' = WithContest(r)
    /\ job' = [job EXCEPT ![r] = NoRun]

\* The transaction commits both heads and frees the sales head; the job returns the two
\* revisions.
Commit(r) ==
    /\ Committed(r)
    /\ Result(r, "published", Len(campaigns'), Len(contests'))
    /\ UNCHANGED <<sales, pointer, event, delivery, trigger, budget>>

\* The worker dies after the commit and before the result: ARQ runs the job again.
CommitUnseen(r) ==
    /\ Committed(r)
    /\ Spend
    /\ arq' = [arq EXCEPT ![r].status = "queued"]
    /\ UNCHANGED <<sales, pointer, event, delivery, trigger>>

\* An exception or the job timeout rolls the transaction back; a dead worker also does,
\* but its job is run again.
JobFails(r) ==
    /\ job[r].pc # "idle"
    /\ Spend
    /\ job' = [job EXCEPT ![r] = NoRun]
    /\ \/ Result(r, "error", 0, 0)
       \/ arq' = [arq EXCEPT ![r].status = "queued"]
    /\ UNCHANGED <<sales, pointer, campaigns, contests, event, delivery, trigger>>

\* ARQ forgets a result after its time to live, which is longer than a delivery's poll.
ResultExpires(r) ==
    /\ arq[r].status = "complete"
    /\ delivery[r] # "wait"
    /\ arq' = [arq EXCEPT ![r] = NoKey]
    /\ UNCHANGED <<sales, pointer, campaigns, contests, job, event, delivery, trigger, budget>>

-----------------------------------------------------------------------------
(* The delivery of the event *)

\* The outbox claims the events of the month in the order of their revisions.
Claim(r) ==
    /\ event[r].state = "pending"
    /\ \A q \in 1 .. r - 1 : event[q].state \in {"published", "superseded"}
    /\ delivery[r] = "idle"
    /\ delivery' = [delivery EXCEPT ![r] = "enqueue"]
    /\ UNCHANGED <<sales, pointer, campaigns, contests, arq, job, event, trigger, budget>>

\* publish_campaigns: the first call of publication() creates the task that enqueues the
\* job and waits for its result.
DeliverEnqueue(r) ==
    /\ delivery[r] = "enqueue"
    /\ Enqueue(r)
    /\ delivery' = [delivery EXCEPT ![r] = "wait"]
    /\ UNCHANGED <<sales, pointer, campaigns, contests, job, event, trigger, budget>>

\* The receipt: the two revisions of a publication, or superseded without any; an
\* exception of the job fails the delivery and the event waits for the next one.
Receipt(r) ==
    IF arq[r].outcome = "error" THEN Open("pending")
    ELSE [state |-> arq[r].outcome, campaign |-> arq[r].campaign, contest |-> arq[r].contest]

\* The task ends; publish_contests finds it in the cache, and the event is completed.
DeliverResult(r) ==
    /\ delivery[r] = "wait"
    /\ arq[r].status = "complete"
    /\ delivery' = [delivery EXCEPT ![r] = "idle"]
    /\ event' = [event EXCEPT ![r] = Receipt(r)]
    /\ UNCHANGED <<sales, pointer, campaigns, contests, arq, job, trigger, budget>>

\* The wait of 900 s ends, the lease is lost, the queue fails or the worker stops: the
\* event is delivered again.
DeliveryFails(r) ==
    /\ delivery[r] # "idle"
    /\ Spend
    /\ delivery' = [delivery EXCEPT ![r] = "idle"]
    /\ UNCHANGED <<sales, pointer, campaigns, contests, arq, job, event, trigger>>

JobStep(r) ==
    \/ Start(r) \/ ReadPromo(r) \/ LoadConfig(r) \/ EvaluateStore(r) \/ FinalCheck(r)
    \/ PublishCampaign(r) \/ EvaluateContests(r) \/ Commit(r)

DeliveryStep(r) == Claim(r) \/ DeliverEnqueue(r) \/ DeliverResult(r)

Fault(r) == CommitUnseen(r) \/ JobFails(r) \/ DeliveryFails(r) \/ ResultExpires(r)

Next ==
    \/ PromoteSales \/ PromotePromo \/ Trigger \/ TriggerLost
    \/ \E r \in Revisions : JobStep(r) \/ DeliveryStep(r) \/ Fault(r)

Spec == Init /\ [][Next]_vars

-----------------------------------------------------------------------------
(* Properties *)

\* Every published row was evaluated with the promo generation its publication names,
\* although publish_month reads the pointer once for its metadata, once for the
\* configuration and once more for the incentives of every store.
RowsNameTheirSource ==
    \A i \in 1 .. Len(campaigns) :
        \A s \in Stores : campaigns[i].rows[s] = {campaigns[i].promo}

SalesOf(generations) ==
    IF generations = <<>> THEN 0 ELSE generations[Len(generations)].sales

\* The campaign and the contest head are of the same sales generation at every moment a
\* reader can look.
HeadsAgree == SalesOf(campaigns) = SalesOf(contests)

\* A publication that becomes visible is of the sales generation that is the head then:
\* a late or repeated job never publishes a generation that was replaced while it ran.
PublishesTheHead == campaigns' # campaigns => SalesOf(campaigns') = sales'

\* The receipt a completed event keeps names revisions that publish its own sales
\* generation; an event completed as superseded had lost the head.  The job it waited
\* for may have been another caller's, repeated, or requeued by a promo import.
ReceiptIsTrue ==
    \A r \in Revisions :
        /\ event[r].state = "published" =>
             /\ event[r].campaign \in 1 .. Len(campaigns) /\ campaigns[event[r].campaign].sales = r
             /\ event[r].contest \in 1 .. Len(contests) /\ contests[event[r].contest].sales = r
        /\ event[r].state = "superseded" => sales > r

=============================================================================
