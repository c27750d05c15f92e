--------------------------- MODULE CampaignProofs ---------------------------
(***************************************************************************)
(* Proofs about the campaign and contest publications, for any stores, any *)
(* number of sales and promo generations and any number of faults.         *)
(***************************************************************************)
EXTENDS CampaignPublication, SequenceTheorems, TLAPS

(* What the proofs assume of the constants.                                *)
CampaignConstants ==
    MaxSales \in Nat /\ MaxPromos \in Nat /\ MaxFaults \in Nat

(* What is kept for a sales revision: its run, its key in Valkey and its   *)
(* event.                                                                  *)
Runs ==
    [pc : {"idle", "read", "config", "stores", "checked", "contests", "commit"},
     promo : Promos, config : Promos, rows : [Stores -> SUBSET Promos],
     left : SUBSET Stores, contest : Promos]

Keys ==
    [status : {"none", "queued", "running", "complete"},
     outcome : {"none", "published", "superseded", "error"},
     campaign : Nat, contest : Nat]

Events ==
    [state : {"none", "pending", "published", "superseded"},
     campaign : Nat, contest : Nat]

ContestGenerations == [sales : Revisions, promo : Promos]

(* Both revisions publish the sales generation r.                          *)
Backed(r, c, k) ==
    /\ c \in 1 .. Len(campaigns) /\ campaigns[c].sales = r
    /\ k \in 1 .. Len(contests) /\ contests[k].sales = r

(* A run holds the sales head.  What it has read of the promo pointer lies *)
(* between the generation it read first and the pointer; once the final    *)
(* check has found the pointer where it was, that is one generation.       *)
JobOK(r) ==
    /\ job[r].pc # "idle" => sales = r
    /\ job[r].pc = "config" => job[r].promo <= pointer
    /\ job[r].pc = "stores" =>
         /\ job[r].promo <= job[r].config /\ job[r].config <= pointer
         /\ \A s \in Stores \ job[r].left :
              /\ job[r].rows[s] # {}
              /\ \A n \in job[r].rows[s] : job[r].promo <= n /\ n <= pointer
    /\ job[r].pc \in {"checked", "contests", "commit"} =>
         \A s \in Stores : job[r].rows[s] = {job[r].promo}

(* A job exists only for a revision that was promoted, and its result      *)
(* stays true.                                                             *)
KeyOK(r) ==
    /\ arq[r].status # "none" => r <= sales
    /\ arq[r].status = "complete" => arq[r].outcome # "none"
    /\ arq[r].outcome = "published" => Backed(r, arq[r].campaign, arq[r].contest)
    /\ arq[r].outcome = "superseded" => sales > r

(* The same for the event, its receipt and its delivery.                   *)
EventOK(r) ==
    /\ event[r].state # "none" => r <= sales
    /\ delivery[r] # "idle" => r <= sales
    /\ event[r].state = "published" => Backed(r, event[r].campaign, event[r].contest)
    /\ event[r].state = "superseded" => sales > r

IndInv ==
    /\ TypeOK /\ RowsNameTheirSource /\ HeadsAgree
    /\ trigger <= pointer
    /\ \A r \in Revisions : JobOK(r) /\ KeyOK(r) /\ EventOK(r)

LEMMA TypeParts ==
    TypeOK <=>
      /\ sales \in 0 .. MaxSales /\ pointer \in Promos
      /\ campaigns \in Seq(Published) /\ contests \in Seq(ContestGenerations)
      /\ arq \in [Revisions -> Keys] /\ job \in [Revisions -> Runs]
      /\ event \in [Revisions -> Events]
      /\ delivery \in [Revisions -> {"idle", "enqueue", "wait"}]
      /\ trigger \in Promos /\ budget \in 0 .. MaxFaults
BY DEF TypeOK, Keys, Runs, Events, ContestGenerations

-----------------------------------------------------------------------------
(* What a step leaves alone stays true: generations are only added and the *)
(* sources only move forward.                                              *)

Longer ==
    /\ Len(campaigns) <= Len(campaigns') /\ Len(contests) <= Len(contests')
    /\ \A i \in 1 .. Len(campaigns) : campaigns'[i] = campaigns[i]
    /\ \A i \in 1 .. Len(contests) : contests'[i] = contests[i]

Lengths ==
    /\ Len(campaigns) \in Nat /\ Len(contests) \in Nat
    /\ Len(campaigns') \in Nat /\ Len(contests') \in Nat

LEMMA KeyFrame ==
    ASSUME NEW r \in Revisions, KeyOK(r), arq'[r] = arq[r], Longer, Lengths,
           sales \in Int, sales' \in Int, sales <= sales'
    PROVE  KeyOK(r)'
<1>1. r \in Int
    BY DEF Revisions
<1> DEFINE c == arq[r].campaign
           k == arq[r].contest
<1>2. ASSUME arq[r].outcome = "published"
      PROVE  /\ c \in 1 .. Len(campaigns') /\ campaigns'[c].sales = r
             /\ k \in 1 .. Len(contests') /\ contests'[k].sales = r
    <2>1. Backed(r, c, k)
        BY <1>2 DEF KeyOK
    <2> HIDE DEF c, k
    <2>2. c \in 1 .. Len(campaigns') /\ campaigns'[c].sales = r
        BY <2>1, SMTT(60) DEF Backed, Longer, Lengths
    <2>3. k \in 1 .. Len(contests') /\ contests'[k].sales = r
        BY <2>1 DEF Backed, Longer, Lengths
    <2> QED
        BY <2>2, <2>3
<1>3. arq'[r].outcome = "published" => Backed(r, arq[r].campaign, arq[r].contest)'
    BY <1>2 DEF Backed
<1>4. /\ arq'[r].status # "none" => r <= sales'
      /\ arq'[r].status = "complete" => arq'[r].outcome # "none"
      /\ arq'[r].outcome = "superseded" => sales' > r
    BY <1>1 DEF KeyOK
<1> QED
    BY <1>3, <1>4 DEF KeyOK

LEMMA EventFrame ==
    ASSUME NEW r \in Revisions, EventOK(r), event'[r] = event[r],
           delivery'[r] = delivery[r], Longer, Lengths,
           sales \in Int, sales' \in Int, sales <= sales'
    PROVE  EventOK(r)'
<1>1. r \in Int
    BY DEF Revisions
<1> DEFINE c == event[r].campaign
           k == event[r].contest
<1>2. ASSUME event[r].state = "published"
      PROVE  /\ c \in 1 .. Len(campaigns') /\ campaigns'[c].sales = r
             /\ k \in 1 .. Len(contests') /\ contests'[k].sales = r
    <2>1. Backed(r, c, k)
        BY <1>2 DEF EventOK
    <2> HIDE DEF c, k
    <2>2. c \in 1 .. Len(campaigns') /\ campaigns'[c].sales = r
        BY <2>1, SMTT(60) DEF Backed, Longer, Lengths
    <2>3. k \in 1 .. Len(contests') /\ contests'[k].sales = r
        BY <2>1, SMTT(60) DEF Backed, Longer, Lengths
    <2> QED
        BY <2>2, <2>3
<1>3. event'[r].state = "published" => Backed(r, event[r].campaign, event[r].contest)'
    BY <1>2 DEF Backed
<1>4. /\ event'[r].state # "none" => r <= sales'
      /\ delivery'[r] # "idle" => r <= sales'
      /\ event'[r].state = "superseded" => sales' > r
    BY <1>1 DEF EventOK
<1> QED
    BY <1>3, <1>4 DEF EventOK

LEMMA JobFrame ==
    ASSUME CampaignConstants, NEW r \in Revisions, JobOK(r), job[r] \in Runs,
           job'[r] = job[r], pointer \in Promos, pointer' \in Promos,
           pointer <= pointer', sales' = sales \/ job[r].pc = "idle"
    PROVE  JobOK(r)'
<1>1. /\ job[r].promo \in Int /\ job[r].config \in Int /\ pointer \in Int /\ pointer' \in Int
      /\ \A s \in Stores : job[r].rows[s] \subseteq Int
    BY DEF Runs, Promos, CampaignConstants
<1>2. /\ job'[r].pc # "idle" => sales' = r
      /\ job'[r].pc = "config" => job'[r].promo <= pointer'
      /\ job'[r].pc \in {"checked", "contests", "commit"} =>
           \A s \in Stores : job'[r].rows[s] = {job'[r].promo}
    BY <1>1 DEF JobOK
<1>3. job'[r].pc = "stores" =>
         /\ job'[r].promo <= job'[r].config /\ job'[r].config <= pointer'
         /\ \A s \in Stores \ job'[r].left :
              /\ job'[r].rows[s] # {}
              /\ \A n \in job'[r].rows[s] : job'[r].promo <= n /\ n <= pointer'
    BY <1>1 DEF JobOK
<1> QED
    BY <1>2, <1>3 DEF JobOK

(* A step of one run, which may end with a result and two publications.    *)
LEMMA RunSteps ==
    ASSUME CampaignConstants, IndInv, NEW r \in Revisions, NEW v \in Runs, NEW w \in Keys,
           job' = [job EXCEPT ![r] = v], arq' = [arq EXCEPT ![r] = w],
           UNCHANGED <<sales, pointer, event, delivery, trigger>>,
           budget' \in 0 .. MaxFaults,
           campaigns' \in Seq(Published), contests' \in Seq(ContestGenerations), Longer,
           RowsNameTheirSource', HeadsAgree', JobOK(r)', KeyOK(r)'
    PROVE  IndInv'
<1>1. /\ TypeOK
      /\ \A x \in Revisions : JobOK(x) /\ KeyOK(x) /\ EventOK(x)
    BY DEF IndInv
<1>2. /\ sales \in 0 .. MaxSales /\ pointer \in Promos
      /\ campaigns \in Seq(Published) /\ contests \in Seq(ContestGenerations)
      /\ arq \in [Revisions -> Keys] /\ job \in [Revisions -> Runs]
      /\ event \in [Revisions -> Events]
      /\ delivery \in [Revisions -> {"idle", "enqueue", "wait"}]
      /\ trigger \in Promos
    BY <1>1, TypeParts
<1>3. /\ arq' \in [Revisions -> Keys] /\ job' \in [Revisions -> Runs]
      /\ \A x \in Revisions : x # r => arq'[x] = arq[x] /\ job'[x] = job[x]
    BY <1>2
<1>4. TypeOK'
    BY <1>2, <1>3, Zenon DEF TypeOK, Keys, Runs, Events, ContestGenerations
<1>5. Lengths
    BY <1>2 DEF Lengths
<1>6. sales \in Int /\ sales' \in Int /\ sales <= sales' /\ pointer' \in Promos
      /\ pointer <= pointer'
    BY <1>2 DEF Promos, CampaignConstants
<1>7. ASSUME NEW x \in Revisions PROVE EventOK(x)'
    BY <1>1, <1>5, <1>6, EventFrame
<1>8. ASSUME NEW x \in Revisions PROVE JobOK(x)' /\ KeyOK(x)'
    <2>1. CASE x = r
        BY <2>1
    <2>2. CASE x # r
        <3>1. arq'[x] = arq[x] /\ job'[x] = job[x] /\ job[x] \in Runs
            BY <1>2, <1>3, <2>2
        <3>2. JobOK(x)'
            BY <1>1, <1>2, <1>6, <3>1, JobFrame
        <3> QED
            BY <1>1, <1>5, <1>6, <3>1, <3>2, KeyFrame
    <2> QED
        BY <2>1, <2>2
<1> QED
    BY <1>4, <1>7, <1>8 DEF IndInv

(* A step of one run before its commit.                                    *)
LEMMA RunGoesOn ==
    ASSUME CampaignConstants, IndInv, NEW r \in Revisions, NEW v \in Runs, NEW w \in Keys,
           job' = [job EXCEPT ![r] = v], arq' = [arq EXCEPT ![r] = w],
           UNCHANGED <<sales, pointer, campaigns, contests, event, delivery, trigger>>,
           budget' \in 0 .. MaxFaults, JobOK(r)', KeyOK(r)'
    PROVE  IndInv'
<1>1. /\ campaigns \in Seq(Published) /\ contests \in Seq(ContestGenerations)
      /\ RowsNameTheirSource /\ HeadsAgree
    BY TypeParts DEF IndInv
<1>2. Longer
    BY <1>1 DEF Longer
<1>3. RowsNameTheirSource' /\ HeadsAgree'
    BY <1>1 DEF RowsNameTheirSource, HeadsAgree, SalesOf
<1> QED
    BY <1>1, <1>2, <1>3, RunSteps, Zenon

LEMMA KeyStays ==
    ASSUME CampaignConstants, IndInv, NEW r \in Revisions, UNCHANGED <<sales, campaigns, contests>>,
           arq'[r] = arq[r]
    PROVE  KeyOK(r)'
BY DEF IndInv, KeyOK, Backed

(* A step of one run that leaves its key.                                  *)
LEMMA RunMoves ==
    ASSUME CampaignConstants, IndInv, NEW r \in Revisions, NEW v \in Runs,
           job' = [job EXCEPT ![r] = v], JobOK(r)',
           UNCHANGED <<sales, pointer, campaigns, contests, arq, event, delivery, trigger, budget>>
    PROVE  IndInv'
<1>1. arq \in [Revisions -> Keys] /\ budget \in 0 .. MaxFaults
    BY TypeParts DEF IndInv
<1>2. arq' = [arq EXCEPT ![r] = arq[r]] /\ arq[r] \in Keys /\ budget' \in 0 .. MaxFaults
    BY <1>1
<1>3. KeyOK(r)'
    BY KeyStays
<1> QED
    BY <1>2, <1>3, RunGoesOn, Zenon

(* What a run read so far.                                                 *)
LEMMA RunType ==
    ASSUME CampaignConstants, IndInv, NEW r \in Revisions
    PROVE  /\ job \in [Revisions -> Runs] /\ job[r] \in Runs
           /\ pointer \in Promos /\ Promos \subseteq Int /\ sales \in Int /\ r \in Int
           /\ sales \in 0 .. MaxSales /\ JobOK(r) /\ KeyOK(r) /\ EventOK(r)
BY TypeParts, SMTT(60) DEF IndInv, Promos, Revisions, CampaignConstants

LEMMA EditPlace ==
    ASSUME NEW o \in Runs, NEW at \in {"checked", "contests"}, NEW v,
           v = [o EXCEPT !.pc = at]
    PROVE  v \in Runs /\ v.pc = at /\ v.promo = o.promo /\ v.rows = o.rows
BY DEF Runs

LEMMA ReadPromoKeeps ==
    ASSUME CampaignConstants, IndInv, NEW r \in Revisions, ReadPromo(r)
    PROVE  IndInv'
<1> DEFINE v == [job[r] EXCEPT !.pc = "config", !.promo = pointer]
<1>1. /\ job \in [Revisions -> Runs] /\ job[r] \in Runs /\ JobOK(r)
      /\ pointer \in Promos /\ Promos \subseteq Int
    BY RunType
<1>2. job[r].pc = "read" /\ job' = [job EXCEPT ![r] = v]
    BY <1>1, Zenon DEF ReadPromo
<1>3. v \in Runs /\ v.pc = "config" /\ v.promo = pointer
    BY <1>1, Zenon DEF Runs
<1> HIDE DEF v
<1>4. job'[r] = v
    BY <1>1, <1>2
<1>5. UNCHANGED <<sales, pointer, campaigns, contests, arq, event, delivery, trigger, budget>>
    BY DEF ReadPromo
<1>6. JobOK(r)'
    BY <1>1, <1>2, <1>3, <1>4, <1>5 DEF JobOK
<1> QED
    BY <1>2, <1>3, <1>5, <1>6, RunMoves, Zenon

LEMMA LoadConfigKeeps ==
    ASSUME CampaignConstants, IndInv, NEW r \in Revisions, LoadConfig(r)
    PROVE  IndInv'
<1> DEFINE v == [job[r] EXCEPT !.pc = "stores", !.config = pointer, !.left = Stores]
<1>1. /\ job \in [Revisions -> Runs] /\ job[r] \in Runs /\ JobOK(r)
      /\ pointer \in Promos /\ Promos \subseteq Int
    BY RunType
<1>2. job[r].pc = "config" /\ job' = [job EXCEPT ![r] = v]
    BY <1>1, Zenon DEF LoadConfig
<1>3. /\ v \in Runs /\ v.pc = "stores" /\ v.config = pointer /\ v.left = Stores
      /\ v.promo = job[r].promo
    BY <1>1, Zenon DEF Runs
<1> HIDE DEF v
<1>4. job'[r] = v
    BY <1>1, <1>2
<1>5. UNCHANGED <<sales, pointer, campaigns, contests, arq, event, delivery, trigger, budget>>
    BY DEF LoadConfig
<1>6. JobOK(r)'
    BY <1>1, <1>2, <1>3, <1>4, <1>5 DEF JobOK
<1> QED
    BY <1>2, <1>3, <1>5, <1>6, RunMoves, Zenon

(* One store more: what its rows come from lies between the generation of  *)
(* the metadata and the pointer.                                           *)
LEMMA EvaluateStoreKeeps ==
    ASSUME CampaignConstants, IndInv, NEW r \in Revisions, EvaluateStore(r)
    PROVE  IndInv'
<1>1. /\ job \in [Revisions -> Runs] /\ job[r] \in Runs /\ JobOK(r)
      /\ pointer \in Promos /\ Promos \subseteq Int
    BY RunType
<1>2. PICK s \in job[r].left :
        job' = [job EXCEPT ![r].rows[s] = {PromotionSource(r), IncentiveSource(r)},
                           ![r].left = @ \ {s}]
    BY Zenon DEF EvaluateStore
<1> DEFINE o == job[r]
           new == [o.rows EXCEPT ![s] = {o.config, pointer}]
           v == [o EXCEPT !.rows = new, !.left = o.left \ {s}]
<1>3. /\ o.rows \in [Stores -> SUBSET Promos] /\ o.config \in Promos /\ o.promo \in Promos
      /\ o.left \in SUBSET Stores
    BY <1>1 DEF Runs
<1>4. job' = [job EXCEPT ![r] = v]
    BY <1>1, <1>2, Zenon DEF PromotionSource, IncentiveSource
<1>5. o.pc = "stores"
    BY DEF EvaluateStore
<1>6. UNCHANGED <<sales, pointer, campaigns, contests, arq, event, delivery, trigger, budget>>
    BY DEF EvaluateStore
<1>7. /\ new \in [Stores -> SUBSET Promos] /\ new[s] = {o.config, pointer}
      /\ \A t \in Stores : t # s => new[t] = o.rows[t]
    BY <1>1, <1>3
<1>8. /\ v.pc = o.pc /\ v.promo = o.promo /\ v.config = o.config
      /\ v.rows = new /\ v.left = o.left \ {s} /\ v \in Runs
    <2> HIDE DEF new
    <2>1. o \in Runs
        BY <1>1
    <2> HIDE DEF o
    <2> QED
        BY <1>7, <2>1, Zenon DEF Runs
<1>9. job'[r] = v
    BY <1>1, <1>4
<1>10. /\ sales = r /\ o.promo <= o.config /\ o.config <= pointer
       /\ \A t \in Stores \ o.left :
            /\ o.rows[t] # {}
            /\ \A n \in o.rows[t] : o.promo <= n /\ n <= pointer
    BY <1>1, <1>5 DEF JobOK
<1> HIDE DEF v, new, o
<1>11. ASSUME NEW t \in Stores \ v.left
       PROVE  v.rows[t] # {} /\ \A n \in v.rows[t] : v.promo <= n /\ n <= pointer
    <2>1. CASE t = s
        BY <1>1, <1>3, <1>7, <1>8, <1>10, <2>1
    <2>2. CASE t # s
        BY <1>7, <1>8, <1>10, <2>2
    <2> QED
        BY <2>1, <2>2
<1>12. JobOK(r)'
    <2>1. v.pc = "stores" /\ sales' = r /\ pointer' = pointer
        BY <1>5, <1>6, <1>8, <1>10
    <2>2. v.promo <= v.config /\ v.config <= pointer
        BY <1>8, <1>10
    <2> QED
        BY <1>9, <1>11, <2>1, <2>2 DEF JobOK
<1> QED
    BY <1>4, <1>6, <1>8, <1>12, RunMoves, Zenon

(* A key that says nothing yet, and one that says error.                   *)
LEMMA KeyEdits ==
    ASSUME NEW CONSTANT o \in Keys
    PROVE  \A s \in {"none", "queued", "running", "complete"} :
             /\ [o EXCEPT !.status = s] \in Keys
             /\ [o EXCEPT !.status = s].status = s
             /\ [o EXCEPT !.status = s].outcome = o.outcome
             /\ [o EXCEPT !.status = s].campaign = o.campaign
             /\ [o EXCEPT !.status = s].contest = o.contest
BY DEF Keys

LEMMA NothingRuns ==
    ASSUME CampaignConstants
    PROVE  NoRun \in Runs /\ NoRun.pc = "idle"
BY DEF NoRun, Runs, NoRows, Promos, CampaignConstants

(* The final check: with the pointer where it was, everything read between *)
(* is the one generation.                                                  *)
LEMMA FinalCheckKeeps ==
    ASSUME CampaignConstants, IndInv, NEW r \in Revisions, FinalCheck(r)
    PROVE  IndInv'
<1>1. /\ job \in [Revisions -> Runs] /\ job[r] \in Runs /\ JobOK(r)
      /\ pointer \in Promos /\ Promos \subseteq Int
    BY RunType
<1>2. /\ job[r].pc = "stores" /\ job[r].left = {}
      /\ UNCHANGED <<sales, pointer, campaigns, contests, event, delivery, trigger, budget>>
    BY SMTT(60) DEF FinalCheck
<1>3. budget' \in 0 .. MaxFaults /\ arq \in [Revisions -> Keys] /\ r <= sales
      /\ sales = r
    BY <1>1, <1>2, TypeParts, RunType DEF IndInv, JobOK
<1>4. CASE PromoUnchanged(r) /\ job' = [job EXCEPT ![r].pc = "checked"] /\ UNCHANGED arq
    <2> DEFINE v == [job[r] EXCEPT !.pc = "checked"]
    <2>1. job' = [job EXCEPT ![r] = v] /\ pointer = job[r].promo
        BY <1>4 DEF PromoUnchanged
    <2>2. v \in Runs /\ v.pc = "checked" /\ v.promo = job[r].promo /\ v.rows = job[r].rows
        <3>1. v = [job[r] EXCEPT !.pc = "checked"]
            OBVIOUS
        <3> HIDE DEF v
        <3> QED
            BY <1>1, <3>1, EditPlace
    <2> HIDE DEF v
    <2>3. job'[r] = v
        BY <1>1, <2>1
    <2>4. ASSUME NEW s \in Stores PROVE job[r].rows[s] = {job[r].promo}
        <3>1. /\ job[r].rows[s] # {} /\ job[r].rows[s] \subseteq Int
              /\ \A n \in job[r].rows[s] : job[r].promo <= n /\ n <= pointer
            BY <1>1, <1>2, Zenon DEF JobOK, Runs
        <3>2. job[r].promo \in Int /\ pointer \in Int
            BY <1>1, <2>1
        <3>3. \A n \in job[r].rows[s] : n = job[r].promo
            BY <2>1, <3>1, <3>2
        <3> QED
            BY <3>1, <3>3
    <2>5. JobOK(r)'
        BY <1>2, <1>3, <2>2, <2>3, <2>4 DEF JobOK
    <2> QED
        BY <1>2, <1>4, <2>1, <2>2, <2>5, RunMoves, Zenon
<1>5. CASE job' = [job EXCEPT ![r] = NoRun] /\ Result(r, "error", 0, 0)
    <2> DEFINE w == [status |-> "complete", outcome |-> "error", campaign |-> 0, contest |-> 0]
    <2>1. arq' = [arq EXCEPT ![r] = w] /\ w \in Keys /\ w.status = "complete"
          /\ w.outcome = "error"
        BY <1>5 DEF Result, Keys
    <2> HIDE DEF w
    <2>2. arq'[r] = w /\ job'[r] = NoRun
        BY <1>1, <1>3, <1>5, <2>1
    <2>3. JobOK(r)' /\ NoRun \in Runs
        BY <2>2, NothingRuns DEF JobOK
    <2>4. KeyOK(r)'
        BY <1>2, <1>3, <2>1, <2>2 DEF KeyOK
    <2> QED
        BY <1>2, <1>3, <1>5, <2>1, <2>3, <2>4, RunGoesOn, Zenon
<1> QED
    BY <1>4, <1>5 DEF FinalCheck

LEMMA PublishCampaignKeeps ==
    ASSUME CampaignConstants, IndInv, NEW r \in Revisions, PublishCampaign(r)
    PROVE  IndInv'
<1> DEFINE v == [job[r] EXCEPT !.pc = "contests"]
<1>1. job \in [Revisions -> Runs] /\ job[r] \in Runs /\ JobOK(r)
    BY RunType
<1>2. job[r].pc = "checked" /\ job' = [job EXCEPT ![r] = v]
    BY DEF PublishCampaign
<1>3. v \in Runs /\ v.pc = "contests" /\ v.promo = job[r].promo /\ v.rows = job[r].rows
    <2>1. v = [job[r] EXCEPT !.pc = "contests"]
        OBVIOUS
    <2> HIDE DEF v
    <2> QED
        BY <1>1, <2>1, EditPlace
<1> HIDE DEF v
<1>4. job'[r] = v
    BY <1>1, <1>2
<1>5. UNCHANGED <<sales, pointer, campaigns, contests, arq, event, delivery, trigger, budget>>
    BY DEF PublishCampaign
<1>6. JobOK(r)'
    BY <1>1, <1>2, <1>3, <1>4, <1>5 DEF JobOK
<1> QED
    BY <1>2, <1>3, <1>5, <1>6, RunMoves, Zenon

LEMMA EvaluateContestsKeeps ==
    ASSUME CampaignConstants, IndInv, NEW r \in Revisions, EvaluateContests(r)
    PROVE  IndInv'
<1> DEFINE v == [job[r] EXCEPT !.pc = "commit", !.contest = pointer]
<1>1. job \in [Revisions -> Runs] /\ job[r] \in Runs /\ JobOK(r) /\ pointer \in Promos
    BY RunType
<1>2. job[r].pc = "contests" /\ job' = [job EXCEPT ![r] = v]
    BY <1>1, Zenon DEF EvaluateContests
<1>3. v \in Runs /\ v.pc = "commit" /\ v.promo = job[r].promo /\ v.rows = job[r].rows
    BY <1>1, Zenon DEF Runs
<1> HIDE DEF v
<1>4. job'[r] = v
    BY <1>1, <1>2
<1>5. UNCHANGED <<sales, pointer, campaigns, contests, arq, event, delivery, trigger, budget>>
    BY SMTT(60) DEF EvaluateContests
<1>6. JobOK(r)'
    BY <1>1, <1>2, <1>3, <1>4, <1>5 DEF JobOK
<1> QED
    BY <1>2, <1>3, <1>5, <1>6, RunMoves, Zenon

(* The job starts with the sales head locked, or finds that it has lost    *)
(* the head.                                                               *)
LEMMA StartKeeps ==
    ASSUME CampaignConstants, IndInv, NEW r \in Revisions, Start(r)
    PROVE  IndInv'
<1>1. /\ job \in [Revisions -> Runs] /\ JobOK(r) /\ KeyOK(r) /\ sales \in Int /\ r \in Int
    BY RunType
<1>2. arq \in [Revisions -> Keys] /\ arq[r] \in Keys /\ budget \in 0 .. MaxFaults
    BY TypeParts DEF IndInv
<1>3. /\ arq[r].status = "queued"
      /\ UNCHANGED <<sales, pointer, campaigns, contests, event, delivery, trigger, budget>>
    BY DEF Start
<1>4. r <= sales
    BY <1>1, <1>3 DEF KeyOK
<1>5. CASE sales > r /\ Result(r, "superseded", 0, 0) /\ UNCHANGED job
    <2> DEFINE w == [status |-> "complete", outcome |-> "superseded",
                     campaign |-> 0, contest |-> 0]
    <2>1. arq' = [arq EXCEPT ![r] = w] /\ w \in Keys /\ w.status = "complete"
          /\ w.outcome = "superseded"
        BY <1>5 DEF Result, Keys
    <2> HIDE DEF w
    <2>2. arq'[r] = w /\ job' = [job EXCEPT ![r] = job[r]] /\ job[r] \in Runs
        BY SMTT(60), <1>1, <1>2, <1>5, <2>1
    <2>3. JobOK(r)'
        BY <1>1, <1>3, <1>5 DEF JobOK
    <2>4. KeyOK(r)'
        BY <1>3, <1>4, <1>5, <2>1, <2>2 DEF KeyOK
    <2> QED
        BY <1>2, <1>3, <2>1, <2>2, <2>3, <2>4, RunGoesOn, ZenonT(60)
<1>6. CASE /\ ~(sales > r) /\ arq' = [arq EXCEPT ![r].status = "running"]
           /\ job' = [job EXCEPT ![r] = [NoRun EXCEPT !.pc = "read"]]
    <2> DEFINE v == [NoRun EXCEPT !.pc = "read"]
               w == [arq[r] EXCEPT !.status = "running"]
    <2>1. v \in Runs /\ v.pc = "read"
        BY DEF NoRun, Runs, NoRows, Promos, CampaignConstants
    <2>2. /\ w \in Keys /\ w.status = "running" /\ w.outcome = arq[r].outcome
          /\ w.campaign = arq[r].campaign /\ w.contest = arq[r].contest
        BY <1>2, KeyEdits, Zenon
    <2>3. arq' = [arq EXCEPT ![r] = w] /\ job' = [job EXCEPT ![r] = v]
        BY <1>6
    <2> HIDE DEF v, w
    <2>4. arq'[r] = w /\ job'[r] = v
        BY <1>1, <1>2, <2>3
    <2>5. sales = r
        BY SMTT(60), <1>1, <1>4, <1>6
    <2>6. JobOK(r)'
        BY <1>3, <2>1, <2>4, <2>5, SMTT(60) DEF JobOK
    <2>7. KeyOK(r)'
        BY <1>1, <1>3, <1>4, <2>2, <2>4, SMTT(60) DEF KeyOK, Backed
    <2> QED
        BY <1>2, <1>3, <2>1, <2>2, <2>3, <2>6, <2>7, RunGoesOn, Zenon
<1> QED
    BY <1>5, <1>6 DEF Start, Superseded

-----------------------------------------------------------------------------
(* The commit.                                                             *)

(* A new head, unless it is the head already.                              *)
Taken(q, e, t) == t = IF q # <<>> /\ q[Len(q)] = e THEN q ELSE Append(q, e)

LEMMA HeadTaken ==
    ASSUME NEW S, NEW q \in Seq(S), NEW e \in S, NEW t, Taken(q, e, t)
    PROVE  /\ t \in Seq(S) /\ Len(q) <= Len(t) /\ Len(t) \in 1 .. Len(t) /\ t[Len(t)] = e
           /\ Len(t) \in Nat /\ t # <<>>
           /\ \A i \in 1 .. Len(q) : t[i] = q[i]
           /\ \A i \in 1 .. Len(t) : i \in 1 .. Len(q) \/ t[i] = e
<1> USE DEF Taken
<1>1. CASE q # <<>> /\ q[Len(q)] = e
    BY SMTT(60), <1>1, EmptySeq
<1>2. CASE ~(q # <<>> /\ q[Len(q)] = e)
    <2>1. t = Append(q, e)
        BY <1>2
    <2> QED
        BY <2>1, AppendProperties
<1> QED
    BY <1>1, <1>2

LEMMA CampaignTaken ==
    ASSUME CampaignConstants, IndInv, NEW r \in Revisions, Committed(r)
    PROVE  /\ campaigns' \in Seq(Published) /\ Len(campaigns) <= Len(campaigns')
           /\ \A i \in 1 .. Len(campaigns) : campaigns'[i] = campaigns[i]
           /\ Len(campaigns') \in 1 .. Len(campaigns') /\ Len(campaigns') \in Nat
           /\ campaigns'[Len(campaigns')].sales = r /\ SalesOf(campaigns') = r
           /\ RowsNameTheirSource'
<1> DEFINE new == [sales |-> r, promo |-> job[r].promo, rows |-> job[r].rows]
<1>1. job[r] \in Runs /\ JobOK(r)
    BY RunType
<1>2. job[r].pc = "commit" /\ campaigns' = WithCampaign(r)
    BY DEF Committed
<1>3. new \in Published
    BY <1>1, SMTT(60) DEF Runs, Published
<1>4. Taken(campaigns, new, campaigns')
    BY <1>2, SMTT(60) DEF WithCampaign, Taken
<1>5. new.sales = r /\ \A s \in Stores : new.rows[s] = {new.promo}
    BY <1>1, <1>2 DEF JobOK
<1> HIDE DEF new
<1>6. campaigns \in Seq(Published) /\ RowsNameTheirSource
    BY TypeParts DEF IndInv
<1>7. /\ campaigns' \in Seq(Published) /\ Len(campaigns) <= Len(campaigns')
      /\ Len(campaigns') \in 1 .. Len(campaigns') /\ campaigns'[Len(campaigns')] = new
      /\ Len(campaigns') \in Nat /\ campaigns' # <<>>
      /\ \A i \in 1 .. Len(campaigns) : campaigns'[i] = campaigns[i]
      /\ \A i \in 1 .. Len(campaigns') : i \in 1 .. Len(campaigns) \/ campaigns'[i] = new
    BY <1>3, <1>4, <1>6, HeadTaken
<1>8. RowsNameTheirSource'
    <2>1. ASSUME NEW i \in 1 .. Len(campaigns'), NEW s \in Stores
          PROVE  campaigns'[i].rows[s] = {campaigns'[i].promo}
        <3>1. CASE i \in 1 .. Len(campaigns)
            BY <1>6, <1>7, <3>1 DEF RowsNameTheirSource
        <3>2. CASE campaigns'[i] = new
            BY <1>5, <3>2
        <3> QED
            BY <1>7, <3>1, <3>2
    <2> QED
        BY <2>1 DEF RowsNameTheirSource
<1>9. SalesOf(campaigns') = r
    BY <1>5, <1>7 DEF SalesOf
<1> QED
    BY <1>5, <1>7, <1>8, <1>9

LEMMA ContestTaken ==
    ASSUME CampaignConstants, IndInv, NEW r \in Revisions, Committed(r)
    PROVE  /\ contests' \in Seq(ContestGenerations) /\ Len(contests) <= Len(contests')
           /\ \A i \in 1 .. Len(contests) : contests'[i] = contests[i]
           /\ Len(contests') \in 1 .. Len(contests') /\ Len(contests') \in Nat
           /\ contests'[Len(contests')].sales = r /\ SalesOf(contests') = r
<1> DEFINE new == [sales |-> r, promo |-> job[r].contest]
<1>1. job[r] \in Runs
    BY RunType
<1>2. Taken(contests, new, contests')
    BY DEF Committed, WithContest, Taken
<1>3. new \in ContestGenerations /\ new.sales = r
    BY <1>1 DEF Runs, ContestGenerations
<1> HIDE DEF new
<1>4. contests \in Seq(ContestGenerations)
    BY TypeParts DEF IndInv
<1>5. /\ contests' \in Seq(ContestGenerations) /\ Len(contests) <= Len(contests')
      /\ Len(contests') \in 1 .. Len(contests') /\ contests'[Len(contests')] = new
      /\ Len(contests') \in Nat /\ contests' # <<>>
      /\ \A i \in 1 .. Len(contests) : contests'[i] = contests[i]
    BY <1>2, <1>3, <1>4, HeadTaken
<1>6. SalesOf(contests') = r
    BY <1>3, <1>5 DEF SalesOf
<1> QED
    BY <1>3, <1>5, <1>6

(* Both heads are taken together, whatever becomes of the job's key.       *)
LEMMA CommittedKeeps ==
    ASSUME CampaignConstants, IndInv, NEW r \in Revisions, Committed(r), NEW w \in Keys,
           arq' = [arq EXCEPT ![r] = w], budget' \in 0 .. MaxFaults, KeyOK(r)',
           UNCHANGED <<sales, pointer, event, delivery, trigger>>
    PROVE  IndInv'
<1>1. /\ campaigns' \in Seq(Published) /\ Len(campaigns) <= Len(campaigns')
      /\ \A i \in 1 .. Len(campaigns) : campaigns'[i] = campaigns[i]
      /\ SalesOf(campaigns') = r /\ RowsNameTheirSource'
    BY CampaignTaken
<1>2. /\ contests' \in Seq(ContestGenerations) /\ Len(contests) <= Len(contests')
      /\ \A i \in 1 .. Len(contests) : contests'[i] = contests[i]
      /\ SalesOf(contests') = r
    BY ContestTaken
<1>3. Longer
    BY <1>1, <1>2 DEF Longer
<1>4. HeadsAgree'
    BY <1>1, <1>2 DEF HeadsAgree, SalesOf
<1>5. job' = [job EXCEPT ![r] = NoRun] /\ NoRun \in Runs /\ NoRun.pc = "idle"
    BY NothingRuns DEF Committed
<1>6. job'[r] = NoRun
    BY SMTT(60), <1>5, RunType
<1>7. JobOK(r)'
    BY <1>5, <1>6 DEF JobOK
<1> QED
    BY <1>1, <1>2, <1>3, <1>4, <1>5, <1>7, RunSteps, ZenonT(60)

LEMMA CommitKeeps ==
    ASSUME CampaignConstants, IndInv, NEW r \in Revisions, Commit(r)
    PROVE  IndInv'
<1> DEFINE w == [status |-> "complete", outcome |-> "published",
                 campaign |-> Len(campaigns'), contest |-> Len(contests')]
<1>1. /\ Committed(r) /\ arq' = [arq EXCEPT ![r] = w]
      /\ UNCHANGED <<sales, pointer, event, delivery, trigger, budget>>
    BY SMTT(60) DEF Commit, Result
<1>2. /\ Len(campaigns') \in 1 .. Len(campaigns') /\ Len(campaigns') \in Nat
      /\ campaigns'[Len(campaigns')].sales = r
    BY <1>1, CampaignTaken
<1>3. /\ Len(contests') \in 1 .. Len(contests') /\ Len(contests') \in Nat
      /\ contests'[Len(contests')].sales = r
    BY <1>1, ContestTaken
<1>4. /\ w \in Keys /\ w.status = "complete" /\ w.outcome = "published"
      /\ w.campaign = Len(campaigns') /\ w.contest = Len(contests')
    BY <1>2, <1>3, SMTT(60) DEF Keys
<1> HIDE DEF w
<1>5. arq \in [Revisions -> Keys] /\ budget \in 0 .. MaxFaults /\ sales \in Int /\ r \in Int
      /\ JobOK(r)
    BY TypeParts, RunType DEF IndInv
<1>6. arq'[r] = w /\ budget' \in 0 .. MaxFaults
    BY <1>1, <1>5
<1>7. r <= sales'
    BY <1>1, <1>5, SMTT(60) DEF JobOK, Committed
<1>8. KeyOK(r)'
    BY <1>2, <1>3, <1>4, <1>6, <1>7 DEF KeyOK, Backed
<1> QED
    BY <1>1, <1>4, <1>6, <1>8, CommittedKeeps, ZenonT(60)

LEMMA SpentType ==
    ASSUME CampaignConstants, IndInv, Spend
    PROVE  budget' \in 0 .. MaxFaults
BY TypeParts, SMTT(60) DEF IndInv, Spend, CampaignConstants

(* The worker dies before the result: the run is repeated from its key.    *)
LEMMA CommitUnseenKeeps ==
    ASSUME CampaignConstants, IndInv, NEW r \in Revisions, CommitUnseen(r)
    PROVE  IndInv'
<1> DEFINE w == [arq[r] EXCEPT !.status = "queued"]
<1>1. /\ Committed(r) /\ Spend /\ arq' = [arq EXCEPT ![r] = w]
      /\ UNCHANGED <<sales, pointer, event, delivery, trigger>>
    BY DEF CommitUnseen
<1>2. /\ arq \in [Revisions -> Keys] /\ arq[r] \in Keys /\ JobOK(r) /\ KeyOK(r)
      /\ sales \in Int /\ r \in Int
    BY TypeParts, RunType DEF IndInv
<1>3. /\ w \in Keys /\ w.status = "queued" /\ w.outcome = arq[r].outcome
      /\ w.campaign = arq[r].campaign /\ w.contest = arq[r].contest
    BY <1>2, KeyEdits, Zenon
<1> HIDE DEF w
<1>4. arq'[r] = w /\ budget' \in 0 .. MaxFaults
    BY SMTT(60), <1>1, <1>2, SpentType
<1>5. /\ campaigns' \in Seq(Published) /\ Len(campaigns) <= Len(campaigns')
      /\ \A i \in 1 .. Len(campaigns) : campaigns'[i] = campaigns[i]
    BY <1>1, CampaignTaken
<1>6. /\ contests' \in Seq(ContestGenerations) /\ Len(contests) <= Len(contests')
      /\ \A i \in 1 .. Len(contests) : contests'[i] = contests[i]
    BY <1>1, ContestTaken
<1>7. campaigns \in Seq(Published) /\ contests \in Seq(ContestGenerations)
    BY TypeParts DEF IndInv
<1>8. Longer /\ Lengths
    BY <1>5, <1>6, <1>7 DEF Longer, Lengths
<1>9. ASSUME w.outcome = "published"
      PROVE  /\ w.campaign \in 1 .. Len(campaigns') /\ campaigns'[w.campaign].sales = r
             /\ w.contest \in 1 .. Len(contests') /\ contests'[w.contest].sales = r
    <2>1. Backed(r, w.campaign, w.contest)
        BY <1>2, <1>3, <1>9 DEF KeyOK
    <2> QED
        BY <1>8, <2>1, SMTT(60) DEF Backed, Longer, Lengths
<1>10. r <= sales' /\ (w.outcome = "superseded" => sales' > r)
    BY <1>1, <1>2, <1>3 DEF JobOK, KeyOK, Committed
<1>11. KeyOK(r)'
    BY <1>3, <1>4, <1>9, <1>10 DEF KeyOK, Backed
<1> QED
    BY <1>1, <1>3, <1>4, <1>11, CommittedKeeps, Zenon

LEMMA JobFailsKeeps ==
    ASSUME CampaignConstants, IndInv, NEW r \in Revisions, JobFails(r)
    PROVE  IndInv'
<1>1. /\ job[r].pc # "idle" /\ Spend /\ job' = [job EXCEPT ![r] = NoRun]
      /\ UNCHANGED <<sales, pointer, campaigns, contests, event, delivery, trigger>>
    BY DEF JobFails
<1>2. /\ arq \in [Revisions -> Keys] /\ arq[r] \in Keys /\ JobOK(r) /\ KeyOK(r)
      /\ job \in [Revisions -> Runs] /\ sales \in Int /\ r \in Int
    BY TypeParts, RunType DEF IndInv
<1>3. budget' \in 0 .. MaxFaults /\ r <= sales
    BY <1>1, <1>2, SpentType DEF JobOK
<1>4. job'[r] = NoRun /\ NoRun \in Runs /\ NoRun.pc = "idle"
    BY SMTT(60), <1>1, <1>2, NothingRuns
<1>5. JobOK(r)'
    BY <1>4 DEF JobOK
<1>6. CASE Result(r, "error", 0, 0)
    <2> DEFINE w == [status |-> "complete", outcome |-> "error", campaign |-> 0, contest |-> 0]
    <2>1. arq' = [arq EXCEPT ![r] = w] /\ w \in Keys /\ w.status = "complete"
          /\ w.outcome = "error"
        BY <1>6 DEF Result, Keys
    <2> HIDE DEF w
    <2>2. arq'[r] = w
        BY <1>2, <2>1
    <2>3. KeyOK(r)'
        BY <1>1, <1>3, <2>1, <2>2 DEF KeyOK
    <2> QED
        BY <1>1, <1>3, <1>4, <1>5, <2>1, <2>3, RunGoesOn, ZenonT(60)
<1>7. CASE arq' = [arq EXCEPT ![r].status = "queued"]
    <2> DEFINE w == [arq[r] EXCEPT !.status = "queued"]
    <2>1. arq' = [arq EXCEPT ![r] = w]
        BY <1>7
    <2>2. /\ w \in Keys /\ w.status = "queued" /\ w.outcome = arq[r].outcome
          /\ w.campaign = arq[r].campaign /\ w.contest = arq[r].contest
        BY <1>2, KeyEdits, Zenon
    <2> HIDE DEF w
    <2>3. arq'[r] = w
        BY SMTT(60), <1>2, <2>1
    <2>4. KeyOK(r)'
        BY <1>1, <1>2, <1>3, <2>2, <2>3, SMTT(60) DEF KeyOK, Backed
    <2> QED
        BY <1>1, <1>3, <1>4, <1>5, <2>1, <2>2, <2>4, RunGoesOn, Zenon
<1> QED
    BY <1>6, <1>7 DEF JobFails

-----------------------------------------------------------------------------
(* Steps outside the runs.                                                 *)

(* A step that leaves the runs and the publications, and whose sources     *)
(* only move forward.                                                      *)
LEMMA OutsideSteps ==
    ASSUME CampaignConstants, IndInv, UNCHANGED <<campaigns, contests, job>>,
           sales' \in 0 .. MaxSales, sales <= sales',
           sales' = sales \/ \A r \in Revisions : job[r].pc = "idle",
           pointer' \in Promos, pointer <= pointer',
           arq' \in [Revisions -> Keys], event' \in [Revisions -> Events],
           delivery' \in [Revisions -> {"idle", "enqueue", "wait"}],
           trigger' \in Promos, trigger' <= pointer', budget' \in 0 .. MaxFaults,
           \A r \in Revisions : arq'[r] # arq[r] => KeyOK(r)',
           \A r \in Revisions :
             event'[r] # event[r] \/ delivery'[r] # delivery[r] => EventOK(r)'
    PROVE  IndInv'
<1>1. /\ TypeOK /\ RowsNameTheirSource /\ HeadsAgree
      /\ \A x \in Revisions : JobOK(x) /\ KeyOK(x) /\ EventOK(x)
    BY DEF IndInv
<1>2. /\ sales \in 0 .. MaxSales /\ pointer \in Promos
      /\ campaigns \in Seq(Published) /\ contests \in Seq(ContestGenerations)
      /\ job \in [Revisions -> Runs]
    BY SMTT(60), <1>1, TypeParts
<1>3. TypeOK'
    BY <1>2 DEF TypeOK, Keys, Runs, Events, ContestGenerations
<1>4. Longer /\ Lengths /\ sales \in Int /\ sales' \in Int
    BY <1>2, SMTT(60) DEF Longer, Lengths, CampaignConstants
<1>5. RowsNameTheirSource' /\ HeadsAgree'
    BY <1>1, SMTT(60) DEF RowsNameTheirSource, HeadsAgree, SalesOf
<1>6. ASSUME NEW r \in Revisions PROVE JobOK(r)'
    BY SMTT(60), <1>1, <1>2, JobFrame
<1>7. ASSUME NEW r \in Revisions PROVE KeyOK(r)'
    BY SMTT(60), <1>1, <1>4, KeyFrame
<1>8. ASSUME NEW r \in Revisions PROVE EventOK(r)'
    BY <1>1, <1>4, EventFrame
<1> QED
    BY <1>3, <1>5, <1>6, <1>7, <1>8, SMTT(60) DEF IndInv

LEMMA PromoteSalesKeeps ==
    ASSUME CampaignConstants, IndInv, PromoteSales
    PROVE  IndInv'
<1>1. /\ sales \in 0 .. MaxSales /\ pointer \in Promos /\ arq \in [Revisions -> Keys]
      /\ event \in [Revisions -> Events] /\ trigger \in Promos /\ budget \in 0 .. MaxFaults
      /\ delivery \in [Revisions -> {"idle", "enqueue", "wait"}] /\ trigger <= pointer
    BY TypeParts DEF IndInv
<1>2. /\ sales < MaxSales /\ HeadUnshared /\ sales' = sales + 1
      /\ event' = [event EXCEPT ![sales + 1] = Open("pending")]
      /\ UNCHANGED <<pointer, campaigns, contests, arq, job, delivery, trigger, budget>>
    BY DEF PromoteSales
<1>3. sales + 1 \in Revisions /\ sales' \in 0 .. MaxSales /\ sales <= sales'
      /\ pointer <= pointer'
    BY <1>1, <1>2 DEF Revisions, Promos, CampaignConstants
<1>4. Open("pending") \in Events /\ Open("pending").state = "pending"
    BY DEF Open, Events
<1>5. event' \in [Revisions -> Events]
    BY <1>1, <1>2, <1>4, Zenon
<1>6. ASSUME NEW r \in Revisions, event'[r] # event[r] \/ delivery'[r] # delivery[r]
      PROVE  EventOK(r)'
    <2>1. r = sales + 1
        BY <1>1, <1>2, <1>6
    <2>2. event'[r].state = "pending" /\ r <= sales'
        BY <1>1, <1>2, <1>3, <1>4, <2>1, SMTT(60) DEF CampaignConstants
    <2> QED
        BY <2>2 DEF EventOK
<1>7. \A r \in Revisions : job[r].pc = "idle"
    BY <1>2 DEF HeadUnshared
<1>8. pointer' \in Promos /\ arq' \in [Revisions -> Keys] /\ trigger' \in Promos
      /\ trigger' <= pointer' /\ budget' \in 0 .. MaxFaults
      /\ delivery' \in [Revisions -> {"idle", "enqueue", "wait"}]
      /\ \A r \in Revisions : arq'[r] = arq[r]
    BY <1>1, <1>2
<1> QED
    BY <1>2, <1>3, <1>5, <1>6, <1>7, <1>8, OutsideSteps, ZenonT(60)

(* A step outside the runs that leaves both sources.                       *)
LEMMA QueueSteps ==
    ASSUME CampaignConstants, IndInv,
           UNCHANGED <<sales, pointer, campaigns, contests, job>>,
           arq' \in [Revisions -> Keys], event' \in [Revisions -> Events],
           delivery' \in [Revisions -> {"idle", "enqueue", "wait"}],
           trigger' \in Promos, trigger' <= pointer, budget' \in 0 .. MaxFaults,
           \A r \in Revisions : arq'[r] # arq[r] => KeyOK(r)',
           \A r \in Revisions :
             event'[r] # event[r] \/ delivery'[r] # delivery[r] => EventOK(r)'
    PROVE  IndInv'
<1>1. sales \in 0 .. MaxSales /\ pointer \in Promos
    BY TypeParts DEF IndInv
<1>2. sales' \in 0 .. MaxSales /\ sales <= sales' /\ pointer' \in Promos /\ pointer <= pointer'
      /\ trigger' <= pointer'
    BY <1>1 DEF Promos, CampaignConstants
<1> QED
    BY <1>2, OutsideSteps, Zenon

LEMMA OutsideType ==
    ASSUME CampaignConstants, IndInv
    PROVE  /\ sales \in 0 .. MaxSales /\ sales \in Int /\ pointer \in Promos
           /\ arq \in [Revisions -> Keys] /\ event \in [Revisions -> Events]
           /\ delivery \in [Revisions -> {"idle", "enqueue", "wait"}]
           /\ trigger \in Promos /\ trigger <= pointer /\ budget \in 0 .. MaxFaults
           /\ trigger \in Int /\ pointer \in Int
BY TypeParts, SMTT(60) DEF IndInv, Promos, CampaignConstants

LEMMA PromotePromoKeeps ==
    ASSUME CampaignConstants, IndInv, PromotePromo
    PROVE  IndInv'
<1>1. /\ sales \in 0 .. MaxSales /\ sales \in Int /\ pointer \in Promos
      /\ arq \in [Revisions -> Keys] /\ event \in [Revisions -> Events]
      /\ delivery \in [Revisions -> {"idle", "enqueue", "wait"}]
      /\ trigger \in Promos /\ trigger <= pointer /\ budget \in 0 .. MaxFaults
    BY OutsideType
<1>2. /\ pointer < MaxPromos /\ pointer' = pointer + 1 /\ trigger' = trigger + 1
      /\ UNCHANGED <<sales, campaigns, contests, arq, job, event, delivery, budget>>
    BY DEF PromotePromo
<1>3. pointer' \in Promos /\ pointer <= pointer' /\ trigger' \in Promos
      /\ trigger' <= pointer' /\ sales <= sales'
    BY <1>1, <1>2 DEF Promos, CampaignConstants
<1>4. sales' \in 0 .. MaxSales /\ arq' \in [Revisions -> Keys]
      /\ event' \in [Revisions -> Events] /\ budget' \in 0 .. MaxFaults
      /\ delivery' \in [Revisions -> {"idle", "enqueue", "wait"}]
    BY <1>1, <1>2
<1> QED
    BY <1>2, <1>3, <1>4, OutsideSteps, Zenon

(* A key is written for a revision that was promoted.                      *)
LEMMA Enqueued ==
    ASSUME CampaignConstants, IndInv, NEW r \in Revisions, r <= sales, Enqueue(r),
           UNCHANGED sales
    PROVE  /\ arq' \in [Revisions -> Keys]
           /\ \A x \in Revisions : arq'[x] # arq[x] => KeyOK(x)'
<1> DEFINE w == [NoKey EXCEPT !.status = "queued"]
<1>1. arq \in [Revisions -> Keys]
    BY OutsideType
<1>2. w \in Keys /\ w.status = "queued" /\ w.outcome = "none"
    BY DEF NoKey, Keys
<1>3. arq' = arq \/ arq' = [arq EXCEPT ![r] = w]
    BY DEF Enqueue
<1> HIDE DEF w
<1>4. arq' \in [Revisions -> Keys]
    BY <1>1, <1>2, <1>3
<1>5. ASSUME NEW x \in Revisions, arq'[x] # arq[x] PROVE KeyOK(x)'
    <2>1. x = r /\ arq'[x] = w
        BY SMTT(60), <1>1, <1>3, <1>5
    <2> QED
        BY <1>2, <2>1 DEF KeyOK
<1> QED
    BY <1>4, <1>5

LEMMA TriggerKeeps ==
    ASSUME CampaignConstants, IndInv, Trigger \/ TriggerLost
    PROVE  IndInv'
<1>1. /\ sales \in 0 .. MaxSales /\ arq \in [Revisions -> Keys]
      /\ event \in [Revisions -> Events]
      /\ delivery \in [Revisions -> {"idle", "enqueue", "wait"}]
      /\ trigger \in Promos /\ trigger <= pointer /\ budget \in 0 .. MaxFaults
      /\ trigger \in Int /\ pointer \in Int
    BY OutsideType
<1>2. /\ trigger > 0 /\ trigger' = trigger - 1
      /\ UNCHANGED <<sales, pointer, campaigns, contests, job, event, delivery>>
    BY DEF Trigger, TriggerLost
<1>3. trigger' \in Promos /\ trigger' <= pointer
    BY <1>1, <1>2 DEF Promos, CampaignConstants
<1>4. budget' \in 0 .. MaxFaults
    BY <1>1, SpentType DEF Trigger, TriggerLost
<1>5. /\ arq' \in [Revisions -> Keys]
      /\ \A x \in Revisions : arq'[x] # arq[x] => KeyOK(x)'
    <2>1. CASE arq' = arq
        BY <1>1, <2>1
    <2>2. CASE sales # 0 /\ Enqueue(sales)
        <3>1. sales \in Revisions /\ sales <= sales
            BY <1>1, <2>2, SMTT(60) DEF Revisions, CampaignConstants
        <3> QED
            BY <1>2, <2>2, <3>1, Enqueued
    <2> QED
        BY <2>1, <2>2 DEF Trigger, TriggerLost
<1> QED
    BY SMTT(60), <1>1, <1>2, <1>3, <1>4, <1>5, QueueSteps

LEMMA ResultExpiresKeeps ==
    ASSUME CampaignConstants, IndInv, NEW r \in Revisions, ResultExpires(r)
    PROVE  IndInv'
<1>1. /\ arq \in [Revisions -> Keys] /\ event \in [Revisions -> Events]
      /\ delivery \in [Revisions -> {"idle", "enqueue", "wait"}]
      /\ trigger \in Promos /\ trigger <= pointer /\ budget \in 0 .. MaxFaults
    BY OutsideType
<1>2. /\ arq' = [arq EXCEPT ![r] = NoKey]
      /\ UNCHANGED <<sales, pointer, campaigns, contests, job, event, delivery, trigger, budget>>
    BY DEF ResultExpires
<1>3. NoKey \in Keys /\ NoKey.status = "none" /\ NoKey.outcome = "none"
    BY DEF NoKey, Keys
<1>4. arq' \in [Revisions -> Keys]
    BY <1>1, <1>2, <1>3
<1>5. ASSUME NEW x \in Revisions, arq'[x] # arq[x] PROVE KeyOK(x)'
    <2>1. arq'[x] = NoKey
        BY SMTT(60), <1>1, <1>2, <1>5
    <2> QED
        BY <1>3, <2>1 DEF KeyOK
<1> QED
    BY SMTT(60), <1>1, <1>2, <1>4, <1>5, QueueSteps

-----------------------------------------------------------------------------
(* The delivery.                                                           *)

(* A step of one delivery that leaves the events.                          *)
LEMMA DeliveryMoves ==
    ASSUME CampaignConstants, IndInv, NEW r \in Revisions,
           NEW d \in {"idle", "enqueue", "wait"}, d # "idle" => r <= sales,
           delivery' = [delivery EXCEPT ![r] = d],
           UNCHANGED <<sales, pointer, campaigns, contests, job, event, trigger>>,
           arq' \in [Revisions -> Keys], budget' \in 0 .. MaxFaults,
           \A x \in Revisions : arq'[x] # arq[x] => KeyOK(x)'
    PROVE  IndInv'
<1>1. /\ event \in [Revisions -> Events]
      /\ delivery \in [Revisions -> {"idle", "enqueue", "wait"}]
      /\ trigger \in Promos /\ trigger <= pointer
    BY OutsideType
<1>2. delivery' \in [Revisions -> {"idle", "enqueue", "wait"}]
    BY SMTT(60), <1>1
<1>3. ASSUME NEW x \in Revisions, event'[x] # event[x] \/ delivery'[x] # delivery[x]
      PROVE  EventOK(x)'
    <2>1. x = r /\ delivery'[x] = d /\ EventOK(x)
        BY <1>1, <1>3, Zenon DEF IndInv
    <2> QED
        BY <2>1 DEF EventOK, Backed
<1> QED
    BY SMTT(60), <1>1, <1>2, <1>3, QueueSteps

LEMMA ClaimKeeps ==
    ASSUME CampaignConstants, IndInv, NEW r \in Revisions, Claim(r)
    PROVE  IndInv'
<1>1. arq \in [Revisions -> Keys] /\ budget \in 0 .. MaxFaults /\ EventOK(r)
    BY OutsideType, RunType
<1>2. /\ event[r].state = "pending" /\ delivery' = [delivery EXCEPT ![r] = "enqueue"]
      /\ UNCHANGED <<sales, pointer, campaigns, contests, arq, job, event, trigger, budget>>
    BY SMTT(60) DEF Claim
<1>3. r <= sales
    BY <1>1, <1>2 DEF EventOK
<1> QED
    BY <1>1, <1>2, <1>3, DeliveryMoves, ZenonT(60)

LEMMA DeliverEnqueueKeeps ==
    ASSUME CampaignConstants, IndInv, NEW r \in Revisions, DeliverEnqueue(r)
    PROVE  IndInv'
<1>1. budget \in 0 .. MaxFaults /\ EventOK(r)
    BY OutsideType, RunType
<1>2. /\ delivery[r] = "enqueue" /\ Enqueue(r)
      /\ delivery' = [delivery EXCEPT ![r] = "wait"]
      /\ UNCHANGED <<sales, pointer, campaigns, contests, job, event, trigger, budget>>
    BY DEF DeliverEnqueue
<1>3. r <= sales
    BY <1>1, <1>2 DEF EventOK
<1>4. /\ arq' \in [Revisions -> Keys]
      /\ \A x \in Revisions : arq'[x] # arq[x] => KeyOK(x)'
    BY <1>2, <1>3, Enqueued
<1> QED
    BY <1>1, <1>2, <1>3, <1>4, DeliveryMoves, ZenonT(60)

LEMMA DeliveryFailsKeeps ==
    ASSUME CampaignConstants, IndInv, NEW r \in Revisions, DeliveryFails(r)
    PROVE  IndInv'
<1>1. arq \in [Revisions -> Keys]
    BY OutsideType
<1>2. /\ Spend /\ delivery' = [delivery EXCEPT ![r] = "idle"]
      /\ UNCHANGED <<sales, pointer, campaigns, contests, arq, job, event, trigger>>
    BY DEF DeliveryFails
<1>3. budget' \in 0 .. MaxFaults
    BY <1>2, SpentType
<1> QED
    BY <1>1, <1>2, <1>3, DeliveryMoves, Zenon

(* The receipt says what the result says.                                  *)
LEMMA DeliverResultKeeps ==
    ASSUME CampaignConstants, IndInv, NEW r \in Revisions, DeliverResult(r)
    PROVE  IndInv'
<1> DEFINE e == Receipt(r)
<1>1. /\ arq \in [Revisions -> Keys] /\ arq[r] \in Keys /\ event \in [Revisions -> Events]
      /\ delivery \in [Revisions -> {"idle", "enqueue", "wait"}] /\ sales \in Int
      /\ trigger \in Promos /\ trigger <= pointer /\ budget \in 0 .. MaxFaults
      /\ KeyOK(r) /\ EventOK(r)
    BY OutsideType, RunType
<1>2. /\ delivery[r] = "wait" /\ arq[r].status = "complete"
      /\ delivery' = [delivery EXCEPT ![r] = "idle"] /\ event' = [event EXCEPT ![r] = e]
      /\ UNCHANGED <<sales, pointer, campaigns, contests, arq, job, trigger, budget>>
    BY DEF DeliverResult
<1>3. /\ r <= sales
      /\ arq[r].outcome = "published" => Backed(r, arq[r].campaign, arq[r].contest)
      /\ arq[r].outcome = "superseded" => sales > r
      /\ arq[r].outcome \in {"published", "superseded", "error"}
    BY <1>1, <1>2, SMTT(60) DEF KeyOK, Keys
<1>4. CASE arq[r].outcome = "error"
    <2>1. e \in Events /\ e.state = "pending"
        BY <1>4 DEF Receipt, Open, Events
    <2> HIDE DEF e
    <2>2. event' \in [Revisions -> Events]
          /\ delivery' \in [Revisions -> {"idle", "enqueue", "wait"}]
        BY SMTT(60), <1>1, <1>2, <2>1
    <2>3. ASSUME NEW x \in Revisions, event'[x] # event[x] \/ delivery'[x] # delivery[x]
          PROVE  EventOK(x)'
        <3>1. x = r /\ event'[x] = e
            BY SMTT(60), <1>1, <1>2, <2>3
        <3> QED
            BY <1>2, <1>3, <2>1, <3>1, SMTT(60) DEF EventOK
    <2> QED
        BY SMTT(60), <1>1, <1>2, <2>2, <2>3, QueueSteps
<1>5. CASE arq[r].outcome \in {"published", "superseded"}
    <2>1. /\ e \in Events /\ e.state = arq[r].outcome
          /\ e.campaign = arq[r].campaign /\ e.contest = arq[r].contest
        BY <1>1, <1>5 DEF Receipt, Keys, Events
    <2> HIDE DEF e
    <2>2. event' \in [Revisions -> Events]
          /\ delivery' \in [Revisions -> {"idle", "enqueue", "wait"}]
        BY <1>1, <1>2, <2>1, ZenonT(60)
    <2>3. ASSUME NEW x \in Revisions, event'[x] # event[x] \/ delivery'[x] # delivery[x]
          PROVE  EventOK(x)'
        <3>1. x = r /\ event'[x] = e
            BY <1>1, <1>2, <2>3
        <3> QED
            BY <1>2, <1>3, <2>1, <3>1, SMTT(60) DEF EventOK, Backed
    <2> QED
        BY <1>1, <1>2, <2>2, <2>3, QueueSteps
<1> QED
    BY SMTT(60), <1>3, <1>4, <1>5

-----------------------------------------------------------------------------
(* The invariant.                                                          *)

LEMMA InitInv ==
    ASSUME CampaignConstants, Init
    PROVE  IndInv
<1>1. /\ NoKey \in Keys /\ NoKey.status = "none" /\ NoKey.outcome = "none"
      /\ Open("none") \in Events /\ Open("none").state = "none"
    BY DEF NoKey, Keys, Open, Events
<1>2. NoRun \in Runs /\ NoRun.pc = "idle"
    BY NothingRuns
<1>3. 0 \in Promos /\ 0 \in 0 .. MaxSales /\ MaxFaults \in 0 .. MaxFaults
    BY DEF Promos, CampaignConstants
<1>4. TypeOK
    BY <1>1, <1>2, <1>3, TypeParts, SMTT(60) DEF Init
<1>5. RowsNameTheirSource /\ HeadsAgree /\ trigger <= pointer
    BY SMTT(60) DEF Init, RowsNameTheirSource, HeadsAgree, SalesOf
<1>6. ASSUME NEW r \in Revisions PROVE JobOK(r) /\ KeyOK(r) /\ EventOK(r)
    <2>1. job[r] = NoRun /\ arq[r] = NoKey /\ event[r] = Open("none") /\ delivery[r] = "idle"
        BY DEF Init
    <2> QED
        BY <1>1, <1>2, <2>1, SMTT(60) DEF JobOK, KeyOK, EventOK
<1> QED
    BY <1>4, <1>5, <1>6, SMTT(60) DEF IndInv

LEMMA StutterInv ==
    ASSUME CampaignConstants, IndInv, UNCHANGED vars
    PROVE  IndInv'
<1>1. UNCHANGED <<sales, pointer, campaigns, contests, arq, job, event, delivery, trigger,
                  budget>>
    BY DEF vars
<1>2. /\ arq \in [Revisions -> Keys] /\ event \in [Revisions -> Events]
      /\ delivery \in [Revisions -> {"idle", "enqueue", "wait"}]
      /\ trigger \in Promos /\ trigger <= pointer /\ budget \in 0 .. MaxFaults
    BY OutsideType
<1> QED
    BY <1>1, <1>2, QueueSteps

LEMMA NextInv ==
    ASSUME CampaignConstants, IndInv, Next
    PROVE  IndInv'
<1>1. CASE PromoteSales \/ PromotePromo \/ Trigger \/ TriggerLost
    BY <1>1, PromoteSalesKeeps, PromotePromoKeeps, TriggerKeeps, Zenon
<1>2. ASSUME NEW r \in Revisions, JobStep(r)
      PROVE  IndInv'
    BY <1>2, StartKeeps, ReadPromoKeeps, LoadConfigKeeps, EvaluateStoreKeeps,
       FinalCheckKeeps, PublishCampaignKeeps, EvaluateContestsKeeps,
       CommitKeeps, ZenonT(60) DEF JobStep
<1>3. ASSUME NEW r \in Revisions, DeliveryStep(r)
      PROVE  IndInv'
    BY <1>3, ClaimKeeps, DeliverEnqueueKeeps, DeliverResultKeeps, ZenonT(60)
       DEF DeliveryStep
<1>4. ASSUME NEW r \in Revisions, Fault(r)
      PROVE  IndInv'
    BY <1>4, CommitUnseenKeeps, JobFailsKeeps, DeliveryFailsKeeps,
       ResultExpiresKeeps, Zenon DEF Fault
<1> QED
    BY <1>1, <1>2, <1>3, <1>4, Zenon DEF Next

(* What the runs read, what the keys and the events say and what was       *)
(* published agree in every state, for any number of stores, generations   *)
(* and faults.                                                             *)
THEOREM CampaignInvariant == CampaignConstants => (Spec => []IndInv)
<1> SUFFICES ASSUME CampaignConstants PROVE Spec => []IndInv
    OBVIOUS
<1>1. Init => IndInv
    BY InitInv
<1>2. IndInv /\ [Next]_vars => IndInv'
    BY NextInv, StutterInv
<1> QED
    BY <1>1, <1>2, PTL DEF Spec

(* Every variable keeps its type.                                          *)
THEOREM CampaignTypes == CampaignConstants => (Spec => []TypeOK)
<1> SUFFICES ASSUME CampaignConstants PROVE Spec => []TypeOK
    OBVIOUS
<1>1. IndInv => TypeOK
    BY DEF IndInv
<1>2. Spec => []IndInv
    BY CampaignInvariant
<1> QED
    BY <1>1, <1>2, PTL

(* CampaignReportingPublisher.publish_month reads the promo pointer again  *)
(* and again and compares it only once, at the end: because the pointer    *)
(* never goes back, that is enough for every row it publishes.             *)
THEOREM RowsComeFromOneGeneration == CampaignConstants => (Spec => []RowsNameTheirSource)
<1> SUFFICES ASSUME CampaignConstants PROVE Spec => []RowsNameTheirSource
    OBVIOUS
<1>1. IndInv => RowsNameTheirSource
    BY DEF IndInv
<1>2. Spec => []IndInv
    BY CampaignInvariant
<1> QED
    BY <1>1, <1>2, PTL

(* The campaign and the contest head are of one sales generation at every  *)
(* moment: a crash between the two publications publishes neither.         *)
THEOREM HeadsMoveTogether == CampaignConstants => (Spec => []HeadsAgree)
<1> SUFFICES ASSUME CampaignConstants PROVE Spec => []HeadsAgree
    OBVIOUS
<1>1. IndInv => HeadsAgree
    BY SMTT(60) DEF IndInv
<1>2. Spec => []IndInv
    BY CampaignInvariant
<1> QED
    BY <1>1, <1>2, PTL

(* A receipt of the sales event names revisions of its own generation,     *)
(* however often the job was repeated, shared or requeued.                 *)
THEOREM ReceiptsAreTrue == CampaignConstants => (Spec => []ReceiptIsTrue)
<1> SUFFICES ASSUME CampaignConstants PROVE Spec => []ReceiptIsTrue
    OBVIOUS
<1>1. IndInv => ReceiptIsTrue
    BY DEF IndInv, EventOK, Backed, ReceiptIsTrue
<1>2. Spec => []IndInv
    BY CampaignInvariant
<1> QED
    BY <1>1, <1>2, PTL

LEMMA OnlyTheHead ==
    ASSUME CampaignConstants, IndInv, Next, campaigns' # campaigns
    PROVE  PublishesTheHead
<1>1. PICK r \in Revisions : Commit(r) \/ CommitUnseen(r)
    BY ZenonT(60) DEF Next, PromoteSales, PromotePromo, Trigger, TriggerLost,
       JobStep, Start, ReadPromo, LoadConfig, EvaluateStore, FinalCheck,
       PublishCampaign, EvaluateContests, DeliveryStep, Claim, DeliverEnqueue,
       DeliverResult, Fault, JobFails, DeliveryFails, ResultExpires
<1>2. Committed(r) /\ sales' = sales
    BY <1>1 DEF Commit, CommitUnseen
<1>3. SalesOf(campaigns') = r
    BY <1>2, CampaignTaken
<1>4. sales = r
    BY <1>2 DEF IndInv, JobOK, Committed
<1> QED
    BY <1>2, <1>3, <1>4 DEF PublishesTheHead

(* A publication is of the sales head at the moment it becomes visible: a  *)
(* late job never publishes a generation that was replaced while it ran.   *)
THEOREM HeadIsPublished == CampaignConstants => (Spec => [][PublishesTheHead]_vars)
<1> SUFFICES ASSUME CampaignConstants PROVE Spec => [][PublishesTheHead]_vars
    OBVIOUS
<1>1. IndInv /\ [Next]_vars => [PublishesTheHead]_vars
    BY OnlyTheHead DEF PublishesTheHead
<1>2. Spec => []IndInv
    BY CampaignInvariant
<1> QED
    BY <1>1, <1>2, PTL DEF Spec
=============================================================================
