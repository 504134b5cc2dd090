----------------------------- MODULE MCDurability -----------------------------
(*****************************************************************************)
(* What a database keeps through compactions, crashes and new starts, for    *)
(* TLC: db/db_impl.cc with its logs and tables, and the descriptor of        *)
(* db/version_set.cc.                                                        *)
(*                                                                           *)
(* A behaviour is one of one part.  Two parts are databases, one with the    *)
(* constants of the configuration, which crashes, and one with more writes   *)
(* and a reader, which does not.  In the other two the database stays as it  *)
(* was made, and v1, ..., v10 are the variables of a Manifest.               *)
(*****************************************************************************)
EXTENDS DBImpl

VARIABLES part, v1, v2, v3, v4, v5, v6, v7, v8, v9, v10

-------------------------------------------------------------------------------
Compact == INSTANCE DBImpl WITH MaxBatches <- 4, MaxCrashes <- 0, Syncs <- {FALSE}, Reads <- TRUE
Descriptor == INSTANCE Manifest WITH LastLevel <- 1, Keys <- {1}, MaxNumber <- 7, MaxSequence <- 1,
    MaxEdits <- 2, MaxStops <- 1, MaxFaults <- 1, ReuseLogs <- BOOLEAN, current <- v1,
    manifests <- v2, logs <- v3, vs <- v4, op <- v5, pc <- v6, installed <- v7, pending <- v8,
    dropped <- v9, used <- v10
Logs == INSTANCE Manifest WITH LastLevel <- 2, Keys <- {1}, MaxNumber <- 9, MaxSequence <- 1,
    MaxEdits <- 3, MaxStops <- 2, MaxFaults <- 0, ReuseLogs <- {FALSE}, current <- v1,
    manifests <- v2, logs <- v3, vs <- v4, op <- v5, pc <- v6, installed <- v7, pending <- v8,
    dropped <- v9, used <- v10

ASSUME DurabilityAssumption ==
  /\ DBAssumption /\ Compact!DBAssumption
  /\ Descriptor!ManifestAssumption /\ Logs!ManifestAssumption

-------------------------------------------------------------------------------
\* The variables of the descriptor, and all of them
descriptor == <<v1, v2, v3, v4, v5, v6, v7, v8, v9, v10>>
allVars == <<vars, part, descriptor>>

NoDescriptor ==
  v1 = 0 /\ v2 = 0 /\ v3 = 0 /\ v4 = 0 /\ v5 = 0 /\ v6 = 0 /\ v7 = 0 /\ v8 = 0 /\ v9 = 0 /\ v10 = 0

PartsInit ==
  \/ part = "recovery" /\ Init /\ NoDescriptor
  \/ part = "compact" /\ Compact!Init /\ NoDescriptor
  \/ part = "descriptor" /\ Init /\ Descriptor!Init
  \/ part = "logs" /\ Init /\ Logs!Init

PartsNext ==
  \/ part = "recovery" /\ Next /\ UNCHANGED <<part, descriptor>>
  \/ part = "compact" /\ Compact!Next /\ UNCHANGED <<part, descriptor>>
  \/ part = "descriptor" /\ Descriptor!Next /\ UNCHANGED <<part, vars>>
  \/ part = "logs" /\ Logs!Next /\ UNCHANGED <<part, vars>>

PartsSpec == PartsInit /\ [][PartsNext]_allVars

-------------------------------------------------------------------------------
\* Whatever the stops, failed writes and new starts, with the MANIFEST reused or written
\* anew: CURRENT names a MANIFEST that can be read and holds the version that was last
\* installed and its counters, no number is given to a second file, and a log whose
\* memtable is in no table of the MANIFEST is still there.  The tables that any part of
\* the MANIFEST names exist, and what a recovery would read has no sequence number twice.
RecoverIsRight ==
  /\ part = "recovery" => TypeOK /\ ManifestNamesFiles /\ OneWritePerSequence
  /\ part = "compact" => Compact!TypeOK /\ ManifestNamesFiles
  /\ part = "descriptor" => Descriptor!RecoverIsRight /\ Descriptor!InstalledIsReadable /\ Descriptor!NumbersAreFresh
  /\ part = "logs" => Logs!RecoverIsRight /\ Logs!InstalledIsReadable /\ Logs!NumbersAreFresh /\ Logs!LogsOutliveManifest

===============================================================================
