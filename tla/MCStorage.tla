----------------------------- MODULE MCStorage -----------------------------
(* The disk of one node beneath its Raft core, for TLC, one scene for each   *)
(* component: the store in memory with its WAL and images (Store), its files *)
(* under publication and compaction (StoreFiles) and the segmented log       *)
(* (DurableLog). A behaviour plays one scene; the variables of the others    *)
(* keep their initial values. Two of the store's keys share a Bloom bit with *)
(* a third never written, memtables rotate at two entries and blocks hold    *)
(* one.                                                                      *)
EXTENDS Store

CONSTANTS TableKeys, L0TriggerFiles, Level1Target, LevelMultiplier, MaxLevels, OutputTarget,
          MaxGenerations, SegmentSize, HeaderSize, MaxRecord, Terms, Voters, MaxIndex, MaxRecords

VARIABLES scene,
          disk, plan, manifest, next, good, kept, flushed, left,
          segments, state, logged, issued, durable

fvars == <<disk, plan, manifest, next, good, kept, flushed, left>>
lvars == <<segments, state, logged, issued, durable>>
all == <<scene, vars, fvars, lvars>>

FileBudgets == {[tables |-> 3, crashes |-> 1], [tables |-> 4, crashes |-> 0]}

Files == INSTANCE StoreFiles
Log == INSTANCE DurableLog WITH staged <- logged

Put(k) == [key |-> k, kind |-> "Put"]
Del(k) == [key |-> k, kind |-> "Delete"]

MCMutations == {<<>>, <<Put(1)>>, <<Del(1)>>, <<Put(1), Del(2)>>, <<Put(2), Put(1)>>}

Budget(batches, flushes, compactions, pins, logical, v1, v2, crashes) ==
  [batches |-> batches, flushes |-> flushes, compactions |-> compactions, pins |-> pins,
   logical |-> logical, v1 |-> v1, v2 |-> v2, crashes |-> crashes]

\* Compaction under pins; each kind of checkpoint with crashes around it.
MCBudgets == {Budget(3, 1, 1, 1, 0, 0, 0, 0),
              Budget(3, 1, 1, 0, 1, 0, 0, 1),
              Budget(3, 1, 1, 0, 0, 1, 0, 1),
              Budget(3, 0, 1, 0, 0, 0, 1, 1)}

MCHash == (1 :> 0) @@ (2 :> 1) @@ (3 :> 0)

MCInit ==
  /\ scene \in {"store", "files", "log"}
  /\ Init /\ Files!Init /\ Log!Init
  /\ scene # "store" => budget = CHOOSE b \in Budgets : TRUE
  /\ scene # "files" => left = CHOOSE b \in FileBudgets : TRUE

MCNext ==
  \/ scene = "store" /\ Next /\ UNCHANGED <<scene, fvars, lvars>>
  \/ scene = "files" /\ Files!Next /\ UNCHANGED <<scene, vars, lvars>>
  \/ scene = "log" /\ Log!Next /\ UNCHANGED <<scene, vars, fvars>>

MCSpec == MCInit /\ [][MCNext]_all

Contents == [k \in Key |-> get_with_source(store, k, store.sequence)]
InFlight == {b.mutations : b \in staged}

Map == INSTANCE AtomicMap WITH
         map <- IF scene = "store" THEN Contents ELSE [k \in Key |-> {}],
         count <- IF scene = "store" THEN store.sequence ELSE 0,
         offered <- IF scene = "store" THEN InFlight ELSE {}


\* StoreFiles.LastGood: a crash between any two publication steps boots.
LastGood == scene = "files" => Files!LastGood

\* StoreFiles.VersionsKept: publication and compaction lose no version.
VersionsKept == scene = "files" => Files!VersionsKept

\* DurableLog.RecoversAcknowledged: a torn tail costs no acknowledged record.
RecoversAcknowledged == scene = "log" => Log!RecoversAcknowledged
=============================================================================
