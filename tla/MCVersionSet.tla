----------------------------- MODULE MCVersionSet -----------------------------
(*****************************************************************************)
(* The levels of a database and the lifetime of its versions and files for   *)
(* TLC: db/version_set.cc, and what db/db_impl.cc and db/builder.cc do       *)
(* with it.                                                                  *)
(*                                                                           *)
(* A behaviour is one of one part.  In two parts versions come and go, with  *)
(* the constants of the configuration, and with more tables while the        *)
(* readers are idle; the levels stay empty.  In the others the levels change *)
(* and the versions stay as they were: with automatic compactions and        *)
(* deletions, with output files that end inside a key, and with manual       *)
(* compactions of more keys.                                                 *)
(*****************************************************************************)
EXTENDS Versions, Levels

VARIABLE part

-------------------------------------------------------------------------------
Idling == INSTANCE Versions WITH MaxNumber <- 4
Auto == INSTANCE Levels WITH Keys <- {1, 2}, kMaxMemCompactLevel <- 1, MaxSnapshots <- 0,
    ManualCompactions <- FALSE, FlushesInCompaction <- TRUE
Split == INSTANCE Levels WITH Keys <- {1, 2}, Deletes <- FALSE, SplitsKeys <- TRUE,
    ManualCompactions <- FALSE, FlushesInCompaction <- TRUE
Manual == INSTANCE Levels WITH MaxSequence <- 3, MaxSnapshots <- 0

ASSUME VersionSetAssumption ==
  /\ Auto!LevelsAssumption /\ Split!LevelsAssumption /\ Manual!LevelsAssumption
  /\ VersionsAssumption /\ Idling!VersionsAssumption

-------------------------------------------------------------------------------
allVars == <<vars, part, levelVars>>

PartsInit ==
  \/ part = "readers" /\ Init /\ LevelsInit
  \/ part = "idling" /\ Idling!Init /\ LevelsInit
  \/ part = "auto" /\ Init /\ Auto!LevelsInit
  \/ part = "split" /\ Init /\ Split!LevelsInit
  \/ part = "manual" /\ Init /\ Manual!LevelsInit

PartsNext ==
  \/ part = "readers" /\ Next /\ UNCHANGED <<part, levelVars>>
  \/ part = "idling" /\ Idling!Next /\ UNCHANGED <<part, levelVars, reader>>
  \/ part = "auto" /\ Auto!LevelsNext /\ UNCHANGED <<part, vars>>
  \/ part = "split" /\ Split!LevelsNext /\ UNCHANGED <<part, vars>>
  \/ part = "manual" /\ Manual!LevelsNext /\ UNCHANGED <<part, vars>>

PartsSpec == PartsInit /\ [][PartsNext]_allVars

===============================================================================
