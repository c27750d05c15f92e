-------------------------- MODULE PromoGenerations --------------------------
(***************************************************************************)
(* The promo generations on disk: immutable directories under              *)
(* data/promo_generations, and the pointer current.json that names the     *)
(* active one.  Import jobs and the migration script of several processes  *)
(* move the pointer under a file lock, after comparing its bytes with the  *)
(* ones they validated against.                                            *)
(*                                                                         *)
(*   services/imports.py                     process_promo_actuals         *)
(*   services/promo_actuals_processing.py    load, update, publish config  *)
(*   services/promo_generation_publisher.py  staging, generation, pointer  *)
(*   services/promo_generation_migration.py  v1 -> v2, ownership of rules  *)
(*   services/dashboard_specials_config.py   verification of the pointer   *)
(*                                                                         *)
(* The id of a generation is a digest of the configuration it was derived  *)
(* from, paths of the previous generation included, and of the report.     *)
(* The model keeps what is digested: the id is the sequence of steps,      *)
(* imports and migrations, that led to it from the seed configuration.     *)
(***************************************************************************)
EXTENDS Integers, Sequences, FiniteSets, SequencesExt, FiniteSetsExt

CONSTANTS Importers,   \* processes that run import jobs
          Migrators,   \* processes that run the migration script
          Reports,     \* promo reports that can be uploaded
          Promotions,  \* promotions of the configuration
          Touches,     \* promotions active in a report's month
          CutoffOf,    \* the cutoff date of a report
          Legacy,      \* the step that made the generation found on disk
          FromV1, Own, \* the steps of the migration script
          Pinned,      \* UNIHUB_HUB_SPECIALS_CONFIG names a configuration
          MaxSteps,    \* length of a generation's history
          MaxFaults    \* failed writes, crashes and power losses

VARIABLES dirs,    \* visible generation directories and the files in them
          ptr,     \* current.json
          synced,  \* directories and pointer that survive a power loss
          lock,    \* .promotion.lock
          proc,    \* what each process is doing
          budget

vars == <<dirs, ptr, synced, lock, proc, budget>>

Procs == Importers \cup Migrators
Steps == Reports \cup {Legacy, FromV1, Own}
Generations == UNION {[1 .. n -> Steps] : n \in 0 .. MaxSteps}
Seed == <<>>
Pointer == [kind : {"none", "v1", "bare", "owned"}, gen : Generations, prev : Generations]
NoPointer == [kind |-> "none", gen |-> Seed, prev |-> Seed]
Files == {"actuals", "material", "config", "rules", "previous"}

Idle == [pc |-> "idle", step |-> Legacy, seen |-> NoPointer, base |-> Seed, files |-> {}]

TypeOK ==
    /\ DOMAIN dirs \subseteq Generations
    /\ \A g \in DOMAIN dirs : dirs[g] \subseteq Files
    /\ ptr \in Pointer
    /\ synced.gens \subseteq DOMAIN dirs /\ synced.ptr \in Pointer
    /\ lock \subseteq Procs /\ Cardinality(lock) <= 1
    /\ proc \in [Procs -> [pc : {"idle", "observed", "located", "loaded", "ready",
                                 "locked", "staging", "renamed", "durable", "switched"},
                           step : Steps, seen : Pointer, base : Generations,
                           files : SUBSET Files]]
    /\ budget \in 0 .. MaxFaults

-----------------------------------------------------------------------------
(* What a generation contains *)

\* The files of a generation that an import writes, that the conversion of a v1
\* generation writes, and that the takeover of the rule masters writes; the last one
\* leaves the actuals where they are.
ImportFiles == {"actuals", "material", "config", "rules"}
V1TargetFiles == ImportFiles \cup {"previous"}
OwnTargetFiles == {"config", "rules", "previous"}

FilesOf(s) ==
    CASE s = Own    -> OwnTargetFiles
      [] s = FromV1 -> V1TargetFiles
      [] OTHER      -> ImportFiles

\* The promotions whose actuals a step replaces by files of its own directory.
Renews(s) ==
    CASE s \in Reports         -> Touches[s]
      [] s \in {Legacy, FromV1} -> Promotions
      [] OTHER                 -> {}

\* actuals_cutoff_date of promotion p in the configuration of generation g.
CutoffIn(g, p) ==
    LET imports == {i \in DOMAIN g : g[i] \in Reports /\ p \in Touches[g[i]]}
    IN  IF imports = {} THEN 0 ELSE CutoffOf[g[Max(imports)]]

\* The directories whose actuals the configuration of g declares.
Sources(g) ==
    {SubSeq(g, 1, Max({i \in DOMAIN g : p \in Renews(g[i])})) :
        p \in {q \in Promotions : \E i \in DOMAIN g : q \in Renews(g[i])}}

Has(g, names) == g \in DOMAIN dirs /\ names \subseteq dirs[g]

\* _generated_config_path: the pointer owns its rules, the configuration and every
\* declared file is present with its digest.
Verified(q) ==
    /\ q.kind = "owned"
    /\ Has(q.gen, {"config", "rules"})
    /\ \A g \in Sources(q.gen) : Has(g, {"actuals"})

-----------------------------------------------------------------------------
Init ==
    /\ \E kind \in {"none", "v1", "bare"} :
         ptr = IF kind = "none" THEN NoPointer
               ELSE [kind |-> kind, gen |-> <<Legacy>>, prev |-> Seed]
    /\ dirs = IF ptr = NoPointer THEN << >> ELSE <<Legacy>> :> FilesOf(Legacy)
    /\ synced = [gens |-> DOMAIN dirs, ptr |-> ptr]
    /\ lock = {}
    /\ proc = [p \in Procs |-> Idle]
    /\ budget = MaxFaults

Spend == budget > 0 /\ budget' = budget - 1

\* The process ends: the staging directory is removed and the lock file closed.
End(p) == proc' = [proc EXCEPT ![p] = Idle] /\ lock' = lock \ {p}

Goto(p, pc) == proc' = [proc EXCEPT ![p].pc = pc]

Quit(p) == End(p) /\ UNCHANGED <<dirs, ptr, synced, budget>>

-----------------------------------------------------------------------------
(* The import job, up to the lock *)

\* process_promo_actuals remembers the digest of the pointer before it reads anything.
Observe(p) ==
    /\ proc[p].pc = "idle" /\ p \in Importers
    /\ \E r \in Reports :
         proc' = [proc EXCEPT ![p] = [Idle EXCEPT !.pc = "observed", !.step = r, !.seen = ptr]]
    /\ UNCHANGED <<dirs, ptr, synced, lock, budget>>

\* get_special_cards_config_path: the configured file, the verified generation of the
\* pointer as it is now, or the seed.
Locate(p) ==
    /\ proc[p].pc = "observed"
    /\ IF ~Pinned /\ ptr # NoPointer /\ ~Verified(ptr) THEN Quit(p)
       ELSE /\ proc' = [proc EXCEPT ![p].pc = "located",
                                    ![p].base = IF Pinned THEN Seed ELSE ptr.gen]
            /\ UNCHANGED <<dirs, ptr, synced, lock, budget>>

\* load_promo_config compares the pointer again before it reads the configuration.
Load(p) ==
    /\ proc[p].pc = "located"
    /\ IF ptr # proc[p].seen THEN Quit(p)
       ELSE Goto(p, "loaded") /\ UNCHANGED <<dirs, ptr, synced, lock, budget>>

\* Fault: the cutoff of the current generation is not compared.
AnyCutoff(g, s) == Touches[s] # {}

\* update_promo_config: a promotion of the month exists, and no cutoff goes back.
Acceptable(g, s) ==
    /\ Touches[s] # {}
    /\ \A p \in Touches[s] : CutoffOf[s] >= CutoffIn(g, p)

\* update_promo_config and _prepare_generation_files.  The rule masters and the sources
\* that stay are read from the directories the configuration names.
Prepare(p) ==
    LET g == proc[p].base
        s == proc[p].step
    IN  /\ proc[p].pc = "loaded"
        /\ IF /\ Acceptable(g, s) /\ Len(g) < MaxSteps
              /\ g = Seed \/ Has(g, {"rules"})
              /\ \A h \in Sources(Append(g, s)) \ {Append(g, s)} : Has(h, {"actuals"})
           THEN /\ Goto(p, "ready")
                /\ UNCHANGED <<dirs, ptr, synced, lock, budget>>
           ELSE Quit(p)

-----------------------------------------------------------------------------
(* The migration script, up to the lock *)

\* _collect_promo_sources: every source the configuration declares is there.
SourcesPresent(g) == \A h \in Sources(g) : Has(h, {"actuals"})

Planned(p, s) ==
    /\ proc[p].pc = "idle" /\ p \in Migrators
    /\ Len(ptr.gen) < MaxSteps
    /\ proc' = [proc EXCEPT ![p] = [Idle EXCEPT !.pc = "ready", !.seen = ptr,
                                                !.base = ptr.gen, !.step = s]]
    /\ UNCHANGED <<dirs, ptr, synced, lock, budget>>

\* _build_plan: a v1 pointer is materialised from the files it approved.
PlanV1(p) ==
    /\ ptr.kind = "v1"
    /\ Has(ptr.gen, {"config", "rules"})
    /\ SourcesPresent(ptr.gen)
    /\ Planned(p, FromV1)

\* build_v2_upgrade_plan: a v2 pointer without rule sources gets them; for an owned one
\* the script answers already_v2.
PlanOwn(p) ==
    /\ ptr.kind = "bare"
    /\ Has(ptr.gen, {"config", "rules"})
    /\ SourcesPresent(ptr.gen)
    /\ Planned(p, Own)

-----------------------------------------------------------------------------
(* Under the lock *)

Target(p) == Append(proc[p].base, proc[p].step)

\* flock of .promotion.lock.
Lock(p) ==
    /\ proc[p].pc = "ready"
    /\ lock = {}
    /\ lock' = {p}
    /\ Goto(p, "locked")
    /\ UNCHANGED <<dirs, ptr, synced, budget>>

\* Fault: the pointer is not compared again under the lock.
SameAlways(p) == TRUE

\* The bytes of the pointer are still the ones the process validated against.
SamePointer(p) == ptr = proc[p].seen

\* _publish_locked: refuse a moved pointer, verify a generation that is already there,
\* stage one that is not.
Check(p) ==
    /\ proc[p].pc = "locked"
    /\ \/ /\ ~SamePointer(p)
          /\ Quit(p)
       \/ /\ SamePointer(p)
          /\ Target(p) \in DOMAIN dirs
          /\ IF dirs[Target(p)] # FilesOf(proc[p].step) THEN Quit(p)
             ELSE /\ Goto(p, "durable")
                  /\ UNCHANGED <<dirs, ptr, synced, lock, budget>>
       \/ /\ SamePointer(p)
          /\ Target(p) \notin DOMAIN dirs
          /\ Goto(p, "staging")
          /\ UNCHANGED <<dirs, ptr, synced, lock, budget>>

\* The file that is written next.
NextFile(p) ==
    LET order == SelectSeq(<<"actuals", "material", "config", "rules", "previous">>,
                           LAMBDA f : f \in FilesOf(proc[p].step) \ proc[p].files)
    IN  IF order = <<>> THEN {} ELSE {Head(order)}

\* _write_durable_private_file, into the staging directory.
WriteFile(p) ==
    /\ proc[p].pc = "staging"
    /\ \E f \in NextFile(p) :
         proc' = [proc EXCEPT ![p].files = @ \cup {f}]
    /\ UNCHANGED <<dirs, ptr, synced, lock, budget>>

\* The staging directory is synced and renamed.
Rename(p) ==
    /\ proc[p].pc = "staging"
    /\ proc[p].files = FilesOf(proc[p].step)
    /\ dirs' = (Target(p) :> proc[p].files) @@ dirs
    /\ proc' = [proc EXCEPT ![p].pc = "renamed", ![p].files = {}]
    /\ UNCHANGED <<ptr, synced, lock, budget>>

Root == [gens |-> DOMAIN dirs, ptr |-> ptr]

\* _fsync_directory of the generation root, after the rename.
SyncGeneration(p) ==
    /\ proc[p].pc = "renamed"
    /\ synced' = Root
    /\ Goto(p, "durable")
    /\ UNCHANGED <<dirs, ptr, lock, budget>>

NextPointer(p) ==
    [kind |-> "owned", gen |-> Target(p), prev |-> proc[p].seen.gen]

\* An exact retry leaves the pointer; otherwise a new pointer file is written, the root
\* is synced, and the file takes the name current.json.
Switch(p) ==
    /\ proc[p].pc = "durable"
    /\ IF ptr.kind # "none" /\ ptr.gen = Target(p) THEN Quit(p)
       ELSE /\ synced' = Root
            /\ ptr' = NextPointer(p)
            /\ Goto(p, "switched")
            /\ UNCHANGED <<dirs, lock, budget>>

\* The root is synced once more and the job returns.
Finish(p) ==
    /\ proc[p].pc = "switched"
    /\ synced' = Root
    /\ End(p)
    /\ UNCHANGED <<dirs, ptr, budget>>

-----------------------------------------------------------------------------
(* Faults *)

\* An exception of a write or of a read, or the death of the process: both close the
\* lock file.  What is left of the staging directory has a name nobody looks for.
Die(p) ==
    /\ proc[p].pc # "idle"
    /\ Spend
    /\ End(p)
    /\ UNCHANGED <<dirs, ptr, synced>>

\* The host loses power: what the root directory held since its last sync may be lost.
PowerLoss ==
    /\ Spend
    /\ \E kept \in SUBSET (DOMAIN dirs \ synced.gens), q \in {ptr, synced.ptr} :
         /\ dirs' = [g \in synced.gens \cup kept |-> dirs[g]]
         /\ ptr' = q
         /\ synced' = [gens |-> synced.gens \cup kept, ptr |-> q]
    /\ proc' = [p \in Procs |-> Idle]
    /\ lock' = {}

Step(p) ==
    \/ Locate(p) \/ Load(p) \/ Prepare(p)
    \/ Lock(p) \/ Check(p) \/ WriteFile(p) \/ Rename(p) \/ SyncGeneration(p)
    \/ Switch(p) \/ Finish(p)

Next ==
    \/ \E p \in Procs : Observe(p) \/ PlanV1(p) \/ PlanOwn(p) \/ Step(p) \/ Die(p)
    \/ PowerLoss

Spec == Init /\ [][Next]_vars

-----------------------------------------------------------------------------
(* Properties *)

\* The pointer names a generation whose configuration, rules and declared sources are
\* all on disk, also after a crash or a power loss between any two of the writes:
\* _generated_config_path never fails on a pointer that the code wrote.
PointerIsWhole == ptr.kind = "owned" => Verified(ptr)

\* A publication builds on the generation it replaces: no writer drops the actuals of
\* a concurrent one, and the previous generation of the pointer is the one that was
\* active, so that it can be restored.
BuildsOnPrevious ==
    \/ ptr' = ptr
    \/ PowerLoss
    \/ ptr'.prev = ptr.gen /\ Front(ptr'.gen) = ptr.gen

\* The cutoff of a promotion never goes back while the system runs
\* ("Cutoff-ul promo nu poate regresa față de generația curentă").
CutoffNeverRegresses ==
    PowerLoss \/ \A p \in Promotions : CutoffIn(ptr'.gen, p) >= CutoffIn(ptr.gen, p)

\* Publishing again what is already active leaves the pointer as it is: the previous
\* generation it names is never the active one, which would lose the way back.
RetryKeepsPrevious == ptr.kind = "owned" => ptr.prev # ptr.gen

=============================================================================
