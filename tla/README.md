# CardCrucible in TLA+

A verification project for CardCrucible, an iOS application for card games, and
for the libraries in its repository that keep state of their own: the game of
War with its deck and players, the database leveldb, the message format nanopb
and the base 64 conversion of the web socket. The application is in
`src/CardCrucible/CardCrucible/`, the libraries are in `src/CardCrucible/Pods/`;
file names below are relative to these.

`PROJECT.json` lists the components, what is hard to test in them and at which
line, the lines every definition stands for, the runs and the theorems.

## 1. The system

### The game

| Component | State | Operations | Interacts with |
|---|---|---|---|
| Card (`Models/Card.swift`) | none: a value of suit and rank | comparison `==`, `<`, and `=/` on arrays | read by everything |
| Deck (`Models/Deck.swift`) | `decks`, `numSubDecks` | create, shuffle, draw from the top or at random, one card or several, set the cards of an empty deck; each as a method and as a static function on an array | a game owns one; War uses the static draws on the hands of its players |
| Player, TournamentPlayer | `cards`, `lastPlayedCard`, `eliminated` | add cards, set the elimination flag, compare, convert, copy | objects held, by reference, by clients and games |
| Game (`Games/Game.swift`) | `gameDeck`, `players`, `gameover` | add players; `dealCards` and `startGame` are abstract | base class of War |
| War (`Games/War.swift`) | `roundWinner`, and the state of Game | `dealCards`, `startGame`, `startRound`, `placeCards`, `determineHighCardHolders`, `war`, `gotoWar`, `limitedWar`, `updateGameStatus` | drives the deck and the players |

A game runs on one thread, so what is hard about it is not interleaving but
errors as control flow (a draw that fails hands over the cards it did take
inside the error), a recursion that carries the prize along while players drop
out, flags that one method sets and another reads much later, loops that end
only by chance or by an error, and preconditions far from the code that has to
establish them.

### leveldb

| Component | State | Operations | What is hard |
|---|---|---|---|
| DBImpl (`db/db_impl.cc`) | the queue of writers, memtables, logs, background error | Write with group commit, Get, CompactRange, flush and compaction in the background, closing, DB::Open | threads that wait for each other; crashes between any two steps |
| Versions and compactions (`db/version_set.cc`) | tables by level | choosing inputs, dropping entries, Get | which entry hides which; flushes during a compaction |
| Lifetime of versions and files | reference counts, pending outputs | Ref, Unref, LogAndApply, DeleteObsoleteFiles | deleting exactly what nobody needs |
| MANIFEST, CURRENT | a log of version edits | LogAndApply, NewDB, Recover, reuse | failed and unsynced writes, numbers of files |
| Logs (`db/log_writer.cc`, `db/log_reader.cc`) | blocks of fragments | AddRecord, ReadRecord | records cut anywhere, reading from an offset |
| Iterators (`db/db_iter.cc`, `table/merger.cc`) | a position and a direction | Seek, Next, Prev | a memtable that grows meanwhile; changes of direction |
| Tables, blocks, filters (`table/`, `util/bloom.cc`) | files and their index | builders, Get, iterators | shortened keys, blocks that cannot be read |
| Memory of blocks, caches (`table/table.cc`, `util/cache.cc`) | buffers, handles, reference counts | open, look up, insert, evict, release | who frees what, last |
| Memtable, arena (`db/skiplist.h`, `util/arena.cc`) | links between nodes | insert and search at once, allocate | readers without a lock |
| PosixEnv (`util/env_posix.cc`) | locks, limits, buffers, a work queue | LockFile, NewRandomAccessFile, Append, Sync, Schedule | processes that die, errors of system calls |
| RepairDB, DestroyDB | a directory | the tool, beside databases that are opened | half-finished runs, races for the lock |

### nanopb and base 64

`pb_decode` allocates, releases and merges fields while any read may fail; its
field iterator goes round and round over a descriptor; `pb_encode` encodes
submessages twice; four decoders of varints, in two libraries, should agree.
`fbase64.c` writes into a target that may be too small, or missing.

What makes the components correct is the list of properties in section 3.

## 2. The modules

| Module | Models |
|---|---|
| `DeckOps`, `Deck` | cards and the array functions of a deck, a deck and a client that calls anything in any order |
| `War`, `Ownership` | a game from `startGame` to its end; what it promises to those who watch: whose the cards are |
| `Rematch`, `Roster` | a second game between the players of the first; players that clients and games share by reference |
| `DBImpl` | the control of a database |
| `Levels`, `Versions`, `Manifest` | entries in levels; reference counts and files; the descriptor |
| `LogFile`, `WritableFile` | the log format; a buffered file |
| `DBIter`, `Table`, `Block`, `Bloom` | what a read goes through |
| `BlockReader`, `TableCache` | the memory of blocks; one shard of the LRU cache and its users |
| `SkipList`, `Arena` | the memtable |
| `FileLocks`, `ReadOnlyFiles`, `EnvSchedule` | the rest of PosixEnv |
| `Repair`, `Destroy` | the two tools |
| `PbDecode`, `PbFields`, `PbEncode`, `Varint`, `Base64` | the conversions |
| `MCWar`, `MCGames`, `MCProgress`, `MCDurability`, `MCVersionSet`, `MCReading`, `MCFiles`, `MCEncodings` | instances for TLC |
| `WarProofs`, `DeckProofs`, `MemTableProofs`, `LevelProofs`, `VersionProofs`, `DBProofs`, `BlockProofs`, `EnvProofs` | theorems |

`MCGames` to `MCEncodings` are suites: they instantiate several modules, and a
behaviour is a behaviour of one of the parts, named by the variable `part`. The
variables of a part are the first of `v1`, `v2`, ..., in the order of its
declaration; the others keep the value 0. `MCProgress` and `MCDurability` extend
`DBImpl`, `MCVersionSet` extends `Versions` and `Levels`, and `MCReading` extends `BlockReader`:
there the constants of the
configuration are those of that module, some parts are behaviours of its
variables, with constants of their own where they differ, and in the other parts
these stay in their initial state.
`Deck` needs no further module.

Definitions commented "Variant" are not part of the models: each is a plausible
wrong version of a definition, used to see that a property would notice.

### Cards, Deck

A card is a record of suit, rank and copy. The code has no `copy`: it exists
only so that conservation can be stated of physical cards when a deck has
several sub-decks. No guard and no comparison reads it.

`decks` is the array, `drawn` what the client took, in order, `thrown` the error
of the last call. `form` chooses between the two forms of each operation, which
agree but for `createDeck`: the loops are nested the other way round, and the
static form limits the number of sub-decks differently. The calls without
random numbers are single actions; `shuffle` and `drawRandomCards` take one step
per iteration of their loops. The cards that `insufficientCardsRemaining`
carries count as drawn. `drawRandomCard` looks a random card up by value and
removes the first equal one, as the code does.

### War

A player is the position of its id in the sorted order. `pc` names the running
method; each iteration of a loop, and each stretch of code between two loops, is
one action:

| pc | Code | Actions |
|---|---|---|
| `idle` | no call is running | `StartGame` |
| `dealCards` | the endless loop over the players | `DealSkips`, `DealCard`, `DealReturns` |
| `startGame` | `while !gameover`, and the announcement | `StartRound`, `EndGame` |
| `placeCards` | the loop of `placeCards` | `PlaceCard`, `PlaceNothing`, `PlaceReturns` |
| `compareRound`, `compareWar` | `determineHighCardHolders`, and what `startRound` or `war` does with the result | `RoundWon`, `WarWon`, `GoToWar` |
| `war` | the beginning of `war` | `BeginWar` |
| `gotoWar`, `limitedWar` | the loop over the players of the war, and the end of the war's draws | `GotoWarDraws`, `GotoWarFails`, `LimitedWarDraws`, `LimitedWarFails`, `WarDrawsDone` |
| `draw` | the handler of `GameEvent.draw` | `SettleDraw` |
| `updateGameStatus` | the method | `UpdateGameStatus` |
| `trap` | a failed precondition | none |

The recursion of `war` is in tail position, so it needs no stack: its arguments
and its locals are overwritten by the inner call. `caller` records which of the
two calls of `dealCards` is running. The order in which the players of a war are
visited comes from iterating over a Swift dictionary, so `GoToWar` takes any
order. Initially the deck is any order of the cards other than the one
`createDeck` makes, which is what the loop of `shuffle` guarantees.

`Ownership` keeps the owner of every card and who is out; `War` implements it
under the mapping that looks a card up in the deck, the hands and the prize.

### What the other models assume

An action is what a thread does between two places where another one can
interfere: where it releases a mutex, makes a system call, or (in `SkipList` and
`ReadOnlyFiles`) loads or stores one shared word. Beyond that:

* `DBImpl`: a batch is a number that is never used again, and of a file only
  the batches in it are kept. After a failed append any later record of that log may
  be unreadable (`torn`, `unread`; `LogFile` has the fragments), and a recovery may
  read any first part of a log, which is a fault that it ignores, as the default
  `paranoid_checks = false` does: what it leaves out is `dropped`, and gone when the
  log is deleted. `owed` is what acknowledged writes may still rely on. One log
  becomes one table at recovery, a compaction has one output. DB::Open replays one log per step, so that a crash or a failure can
  come between two logs. `imm_` is the set of memtables to be compacted, which has
  one or none, and a reader's version is the set of its files. Directory entries survive a crash; `WritableFile` has those that
  do not.
* `Levels`: byte sizes are open, so whatever depends on them may go either way. What
  is configurable here and not in the code (`Deletes`, `SplitsKeys`,
  `ManualCompactions`, `FlushesInCompaction`) are things that may happen to a database,
  so that those which together break it (section 3) can be kept apart.
* `Versions`: keys are left out; compactions because of seeks are here only.
* `Manifest`: a record is written or not, the comparator is fixed, and at most
  one log becomes a table when a database is opened.
* `LogFile`: a byte is known by what it was written as; a checksum is right if
  the bytes it covers are in place. `WritableFile`: a crash leaves a prefix of
  what was not synced.
* `SkipList`: links of a new node hold garbage until they are set, and a reader
  may see an old `max_height_`. Readers change nothing, so one stands for all.
* `TableCache`: the 16 shards are independent, one is modelled; its hash table
  starts with 1 bucket instead of 4, so that it grows within the bounds. Files
  that are being read are not evicted by the background thread. `BlockReader`
  uses the cache by what `TableCache` shows of it.
* `Table` and `Block`: offsets are counted in units and entries; the filter of a
  table has no false negatives, which `Bloom` shows. In `Bloom` a key is its hash,
  and the widths are scaled down.
* `FileLocks`: an open that fails changes nothing. `Destroy`: one thread per
  process, and one DestroyDB, since a second one may meet two files LOCK.
* `Repair`: one key, whose entries are known by their sequence numbers. Damage
  stays; a read may fail also where nothing is damaged. A file that is put away
  replaces one of the same name in lost.
* `PbDecode`: tags, lengths and numbers take one byte, and there are no
  callbacks. The static submessage of the oneof begins with its pointer, which
  shares its place with the pointers and the number of the oneof. A program that
  passes a number to the allocator as a pointer stops there. `forgotten` are the
  blocks that the code loses. `PbEncode`: lengths from `ShortLength` on take two
  bytes; a packed array is written in one call of pb_write.
  `PbFields`: field `i` has tag `2i`; words of 2 bits, 4 required fields tracked;
  no field with tag 0 in an empty descriptor, no packed fixed array without entries.
* `Varint` has the real widths, also of the counter `bitpos` within the bounds; `Base64` the real arithmetic on a few byte and
  digit values.

## 3. What is checked

### Runs that pass

| Run | Instance | Properties |
|---|---|---|
| `war_two` | 2 players, 2 suits, 3 ranks, all 719 orders | `TypeOK`, `CardConservation`, `EliminatedHoldNothing`, `NoTrap`, `SoleSurvivor`, `AnnouncedIsSurvivor`, `WarResolves`, `DealingEnds` |
| `war_three` | 3 players, 3 suits, 2 ranks, all 719 orders | `DrawIsTie`, `DealBalanced`, `OwnershipRules` |
| `deck` | 1 suit, 2 ranks, at most 1 sub-deck (2 in the static form), draws of -1 to 3 cards | `DeckIsSound`, `CallsReturn` |
| `games` | a game of 3 players and 9 cards that ends by a draw after others have won; two games of 2 players with shared and with converted players; 3 player objects in 2 games | `EndsAreRight`, `PlayersAreNotPlayedWith` |
| `progress` | `DBImpl` with 3 threads, and with 2 threads, 2 faults and a crash; 2 work items; a skip list of 3 keys and 2 levels; a log; an iterator | `ManifestNamesFiles`, `SearchIsRight`, `CallsReturn`, `EverythingRuns`, `LoopsEnd` |
| `durability` | `DBImpl` with 4 batches and a reader, and with 3 batches and 2 crashes; `Manifest` with a fault and a stop, and with 2 stops | `WritesSurvive`, `FilesInUseExist`, `RecoverIsRight` |
| `version_set` | `Levels` with deletions, with keys split over files, and with manual compactions; `Versions` with idle readers and 4 tables, and with 2 readers and 2 tables | `ReadsAreRight`, `VersionsAreKept` |
| `reading` | tables of 4 entries with and without faults, blocks with restart intervals 1 and 2, 2 readers of blocks, the cache with 3 threads and with unequal charges, filters of up to 3 keys, an arena of 4 blocks, an iterator over 2 keys | `EntriesAreFound`, `SkippedIsReported`, `BlocksAreKept`, `CacheIsSound`, `PieceIsNew`, `IteratorIsRight` |
| `files` | logs with blocks of 7 and of 5 bytes, table and MANIFEST files with a buffer of 2 units, 3 processes and a lock, 4 threads and limits of 1, DestroyDB beside 2 other processes, repairs of up to 3 runs, with stops and up to 3 faults, or with stops only | `LogIsRead`, `FileIsKept`, `LocksAndLimitsHold`, `RepairIsRight`, `DestroySparesOpen` |
| `encodings` | messages of up to 14 bytes with pointers and arrays, with a union of strings, submessages and a number, and such a union in a delimited message; descriptors of up to 5 fields, buffers of up to 20 bytes, varints of up to 11 bytes, and of up to 40 of fewer values, base 64 of up to 4 bytes | `MemoryIsOwned`, `FieldsAreRight`, `EncoderIsExact`, `ConversionsAgree` |

The properties, in words:

* `CardConservation`: every card of the deck lies in exactly one of the deck, the
  hands and the prize, after every step. `EliminatedHoldNothing`: an eliminated
  player holds no card. `NoTrap`: comparing placed cards meets the precondition
  of `determineHighestRank` and indexes no empty array. `SoleSurvivor`:
  `gameover` means one player left, with the whole deck. `AnnouncedIsSurvivor`:
  an announced winner is that player and not a stale one. `DrawIsTie`: when a war
  is a draw, its players are out and the cards that the tie-break compares are of
  this round and of one rank. `DealBalanced`: the first deal splits the deck
  evenly at every moment. `OwnershipRules`: War implements `Ownership`; cards
  only change hands as the rules allow, and nobody who is out comes back.
  `WarResolves`, `DealingEnds`: a war comes to a winner or a redeal; dealing ends
  as long as somebody is in the game.
* `DeckIsSound`: deck and drawn cards together are the cards of the deck, once
  each, after any sequence of calls; `insufficientCardsRemaining` means that the
  deck is empty; `determineHighestRank` is the maximum. `CallsReturn`: every call
  returns, a shuffle if two cards differ.
* `EndsAreRight`, `PlayersAreNotPlayedWith`: two games keep the cards of both
  decks; a game never plays with a client's plain Player.
* `WritesSurvive`: an acknowledged write is found, through flushes, compactions,
  failing operations on files, crashes and recovery, as far as it was synced. The
  code ignores two faults, and the property excepts what they take: a record that
  follows a failed append in its log, and what a recovery cannot read of a log.
  `OnlyFaultsLose`, which `CallsReturn` includes, says that neither exists while no
  operation has failed. `durability` checks `WritesSurvive` without faults,
  `CallsReturn` with two. `FilesInUseExist`,
  `VersionsAreKept`: no table disappears while a version, a reader or a compaction
  needs it, counts are exact, and nothing is left when nobody does.
  `RecoverIsRight`: CURRENT names a MANIFEST that says what was installed, and no
  sequence number is given twice. `ManifestNamesFiles`: the tables that any part of
  the MANIFEST names which a crash may leave are there.
  `ReadsAreRight`: a read finds the newest entry it may see in the levels.
* `CallsReturn` (`progress`), `EverythingRuns`, `LoopsEnd`: calls return, no write is
  lost but to those two faults, the database closes, scheduled work runs in order, loops end although writers go on.
* `SearchIsRight`: a search in a memtable is right while another thread inserts.
  `PieceIsNew`: the arena hands out no memory twice.
* `EntriesAreFound`, `SkippedIsReported`, `IteratorIsRight`: tables, blocks,
  filters and iterators against a walk over the entries.
* `BlocksAreKept`, `CacheIsSound`: everything has one owner, is there while it is
  used, and is freed by the last user: what the caches dropped and nobody uses is gone.
* `LogIsRead`, `FileIsKept`, `LocksAndLimitsHold`, `RepairIsRight`,
  `DestroySparesOpen`: what was written is read; one process holds the database;
  limits are kept; DestroyDB deletes no file of an open database. RepairDB keeps
  every entry that can be read, in the directory or in lost: in any number of runs
  if nothing fails, and in the first run if anything but a move to lost fails.
* `MemoryIsOwned`: every allocation has one owner, no pointer leads elsewhere, and a
  failure leaves nothing, whatever fails, but for the three cases of nanopb listed
  below. `FieldsAreRight`, `EncoderIsExact`: required fields are noticed; sizes are
  exact. `ConversionsAgree`: the 64-bit decoders of nanopb and leveldb agree, the
  32-bit ones read the same number where both accept, and nanopb's returns the low
  bits of what it reads, up to 37 bytes; no field cuts off bits; decoders invert the
  encoders.

### Bounds

Six cards are enough for each branch of War: two players with three cards each
tie, fight a full war, tie again and have nothing left for the next one; three
players with two cards each have the cards for a limited war only. The state of
a game is bounded by the deck, so there is no bound on the number of rounds. The
one thing six cards cannot show, a game that ends with a draw after other players
have won a round, is a part of `games`. In `deck`, `maxNumSubDecks` is 1 instead
of 10, so that the limits are crossed from both sides, and the static form has
equal cards.

The other bounds are chosen so that the case that a property is about happens:
enough batches for a flush during a compaction, enough table numbers for a file
to be moved, compacted and deleted, buffers smaller and larger than an append,
blocks of a log in which a header fits exactly, not at all, and with no room for
data, and varints longer than the 37 bytes after which the 8-bit `bitpos` of
`pb_decode_varint32` wraps. `RecoverIsRight` includes that logs outlive the MANIFEST
that needs them (`LogsOutliveManifest`) only where logs are not reused
(`reuse_logs` off); where they are, a MANIFEST that is not synced may name a log that is
already gone (`db_impl.cc:1504`). `PROJECT.json` names, for every property, a wrong version of the code that
makes it fail within the same bounds.

### Fairness

`FairSpec` of War is weak fairness of the program's own steps: the thread that
runs `startGame` goes on. Calling it is the client's choice. `FairSpec` of Deck
is weak fairness of the loops and of the shuffles that change the order:
`Array.shuffle` picks every order with equal probability and does not miss a
possible one forever. In `progress` every thread that can take a step takes one
in the end: weak fairness for each thread of the application, for the background
thread, for the end of closing, for the worker of `EnvSchedule` (taking and
finishing an item), for the searching and for the inserting thread of `SkipList`,
and for the loops of a log reader and an iterator. Calls that clients make, and
faults and crashes, are not fair. Weak fairness is enough since a thread that
waits for a condition is enabled only when it has been signalled and stays so.

Deadlock is checked for `War` and `Deck`. In the suites parts stop at their
bounds (all table numbers used, all runs of a repair made), so it is not.

No property says that a game of War ends. Some deals go round in circles, and the
repository does not claim that it ends.

### Disagreements with the documentation

Two runs show, with the quotations in `PROJECT.json`, that the code does not do
what it documents: `war_deal_forever` (after a draw between the last players all
of them are out, and the redeal loops forever) and `war_suit_tie` (the tie-break
skips eliminated players, which all players of a draw are, and so never decides).

Others were met while the models were written. The models do what the code does,
and the properties are stated so that they hold of it:

* War: after a draw the player left with all cards is not announced
  (`War.swift:284`); `gotoWar` and `limitedWar` return the opposite of what they
  document (`:400`); an eliminated player object stays eliminated in the next game
  (`:72`); a copied player is not identical (`TournamentPlayer.swift:83`).
* Deck: no sub-decks are allowed but stop the first round (`Deck.swift:106`);
  shuffling one card or equal cards does not return (`:229`); the static
  `createDeck` has no upper limit (`:153`); `drawCards(0)` throws
  `negativeDrawAttempt` (`:300`).
* Logs: a reused log may end in a torn record that swallows later ones
  (`db_impl.cc:458`); after a failed append `block_offset_` is wrong
  (`log_writer.cc:106`); reading from an offset reports fragments it should skip
  (`log_reader.cc:87`); a log that is closed is not synced (`db_impl.cc:1355`).
* DBImpl: a failed append is no background error, so that acknowledged writes may
  follow it in the log that cannot be read any further (`db_impl.cc:1214`); an error while
  a log is opened or read is ignored by default, and the log is then deleted with the
  acknowledged writes in it (`:394`, `:430`);
  the null batch of TEST_CompactMemTable may be grouped away
  (`db_impl.cc:1287`); `manual_compaction_` may be null when it is read again
  (`:754`); NewDB and a reused MANIFEST are not synced (`:201`, `:1504`).
* Compactions: boundary files are added to the upper level only
  (`version_set.cc:1411`); the inputs of a manual compaction may leave a gap that
  a flush fills (`:1468`).
* `restart_index_` is not what its comment says (`block.cc:246`).
* PosixEnv: closing a second descriptor drops the lock of the process
  (`env_posix.cc:627`); Acquire may fail although a resource is free (`:77`); a
  MANIFEST record may reach the disk before the names of its files (`:305`).
* Repair: logs are read without checksums (`repair.cc:173`) and converted in any
  order (`:132`); a table that cannot be copied is not archived (`:302`); a file put away
  replaces one of its name that an earlier run put away (`:422`), and a copy replaces
  a source that could not be put away (`:336`); a scan that fails may leave the
  last sequence number too small (`:361`).
  DestroyDB: the name LOCK is deleted after the unlock (`db_impl.cc:1543`); files
  are listed before the lock is taken (`:1522`).
* nanopb: a number in a union is taken for a pointer (`pb_decode.c:1144`), a
  repeated static submessage of a union is not released (`:1136`), nor is a
  message whose substream cannot be closed (`:1114`); pb_decode_varint32 refuses a fifth byte
  that leveldb's decoder accepts (`:238`), accepts more than ten bytes, and returns
  wrong bits from the 38th byte on, where `bitpos` wraps (`:235`).

## 4. What is proved

TLC checks the instances above; the theorems hold for all values of the constants
that satisfy the assumptions of their modules. Those are the enumerations and
limits of the code: 1 to 4 suits, 1 to 13 ranks, 0 to 10 sub-decks, at least two
players (`CardAssumption`, `WarAssumption`); any positive limit on sub-decks
(`DeckAssumption`); at least one key level and any number of keys
(`SkipListAssumption`); a block size that is a multiple of the alignment
(`ArenaAssumption`); a positive buffer (`WritableFileAssumption`); finitely many
threads (`ReadOnlyFilesAssumption` for the limits); at least two levels and a
positive number of allowed seeks, with any set of readers (`VersionsAssumption`);
any number of keys, writes and snapshots and at least two levels (`LevelsAssumption`);
any number of threads, batches and faults, and thresholds of level 0 in the order
of the code (`DBAssumption`); finitely many readers of tables, and positive bounds on
opens and on pieces of memory (`BlockReaderAssumption`).

| Module | Theorem | Statement |
|---|---|---|
| `WarProofs` | `TypeCorrect`, `CardsConserved`, `EliminatedAreEmptyHanded`, `SurvivorHoldsAll` | `Spec => []TypeOK`, `[]CardConservation`, `[]EliminatedHoldNothing`, `[]SoleSurvivor` |
| | `NeverTraps` | `Spec => []NoTrap`, with at least one sub-deck |
| | `DrawsAreTies`, `FirstDealIsBalanced`, `AnnouncementIsRight` | `Spec => []DrawIsTie`, `[]DealBalanced`, `[]AnnouncedIsSurvivor` |
| | `ImplementsOwnership` | `Spec => OwnershipRules`: every step of War is a step of `Ownership` or a stutter |
| | `RematchesConserve` | two games keep all cards, with shared and with converted players |
| | `PlainPlayersAreSpared` | the action property `OnlyOwnPlayers` of `Roster` |
| `DeckProofs` | `DecksAreSound` | `Spec => []DeckIsSound` |
| `MemTableProofs` | `ConcurrentSearchIsRight` | `SkipList`: no garbage is read, and a search ends where it should |
| | `PiecesAreNew` | the action property `NewPiece` of `Arena` |
| `LevelProofs` | `LevelsStayRight`, `LevelsReadRight` | `LevelsSpec => []LevelInv`, `[]ReadsAreRight`: reads of the newest state and of snapshots are right through flushes and compactions, except in the two cases below |
| `VersionProofs` | `VersionsKeepTheirFiles` | `Versions`: files in use stay, reference counts are exact, a candidate for compaction belongs to its version (`FilesStay`, `CountsAreExact`, `CandidateIsThere`); a version that is installed keeps every table that its compaction does not replace, and deletion leaves no garbage (`KeepsOthers`, `LeavesNoGarbage`) |
| `DBProofs` | `WritesAreKept`, `FilesStayInUse`, `ManifestIsSound` | `Spec => [](WritesSurvive /\ OnlyFaultsLose)`, `[]FilesInUseExist`, `[]ManifestNamesFiles`: through faults, crashes of the process and the machine, and recoveries that crash themselves |
| | `SequencesDiffer`, `TypesAreRight` | `Spec => []OneWritePerSequence`, `[]TypeOK` |
| | `QueueIsRight` | `Spec => []QueueInv`, the queue of writers |
| `BlockProofs` | `MemoryIsKept` | `Spec => []BlocksAreKept`: tables, blocks, filters and mapped files that are looked at are there, have one owner each, and go with their last user |
| `EnvProofs` | `OneThreadPerProcess` | any number of threads in any number of processes: one thread of a process holds the database |
| | `OneProcessHolds` | processes of one thread: one process holds it, and none keeps it for nothing |
| | `LimitsHold`, `LocksAndLimits` | limits on mappings and descriptors; both together |
| | `FilesAreKept` | `WritableFile` loses, repeats and reorders nothing, and what was synced survives |
| | `WorkRunsInOrder` | `EnvSchedule` runs every item once and in order |
| | `DestroyIsSafe` | the first DestroyDB deletes no file of a database that is open |

Where a theorem needs more than the code alone gives it says so. `OneProcessHolds`
has one thread per process, because LockFile of a second thread closes a
descriptor and with it drops the lock of its process (section 3);
`DestroyIsSafe` is about one DestroyDB, because after it there may be two files
named LOCK. The theorems of `LevelProofs` assume that output files do not end inside
a key or that nothing is deleted, `~(SplitsKeys /\ Deletes)`, and that no memtable
is flushed while a manual compaction works, `~(ManualCompactions /\
FlushesInCompaction)`: in the code both can happen, and then reads do go wrong
(section 3, Compactions). Every other
combination of the four is covered.

### The arguments

*Cards are conserved.* Every transfer in the game moves the first k cards of a
pile to the end of another (`MoveConserves`). That is not inductive alone:
starting a round forgets the prize of the one before, and the setter of
`deckCards` drops cards if the deck has any. `PilesAtRest` closes both gaps: the
deck is empty outside of deals, and the prize is empty between rounds.
`SurvivorHoldsAll` adds that a game that is over is never resumed and counts
places: the deck, the prize and all other hands are empty. `NeverTraps` needs
`RoundInv`, three statements on the dictionary of placed cards: who has an entry
in `placeCards`, whom a war has still to visit, and that after a successful draw
somebody who is still in has a card.

*Draws are ties* (`TieInv`). The last played card of a fighter is the last of its
entry and lies in the prize (`EntriesShowLast`); the fighters' entries end in one
rank until a draw of the war succeeds (`Tied`); those who failed are out
(`FailedAreOut`); and a full war has a player with the cards for it
(`SomebodyCanFight`), so that only a limited one ends in a draw.

*The deal is balanced* (`FirstDealInv`): before the first deal nobody has cards, and
nobody is out until it is over, so no turn is skipped and those before the turn are
one card ahead of the others. *The announcement* (`WinnerInv`): between rounds
`roundWinner` is nil or in the game, and a draw has none; when one player is left,
that one is the only candidate.

*War implements Ownership.* The mapping gives a card the owner whose pile it is
in, which conservation makes a function. Each action is then a deal, a placement,
a collection, an elimination or a stutter; that eliminations are final uses
`DrawIsTie` (the branch that readmits a player is never taken).

*Decks* (`DeckInv`). Besides the properties themselves, `CallInv` says what the
locals of a running loop are: a draw that will fail has the whole deck left to
draw, and no error is on record while a loop runs. That `createDeck` makes every
card once, although it computes suit, rank and copy of the i-th card by division,
rests on `Digits` (a number has one positional notation), and the static form on
another order of the digits. What a loop computes for an array of any length
(`determineHighestRank`, the search for the first equal card) is proved by a least
counterexample: `LeastNumber` gives every non-empty set of numbers its least
element, and the loop's next step contradicts it. No induction rule with an
operator as a parameter is needed.

*Two games* (`RematchInv`) is the invariant of one game with the cards of the games
begun so far. *Roster* (`RosterInv`): the objects in a game of War are
TournamentPlayers, so none of them is a plain Player.

*The skip list* (`ListInv`). The list of every level is sorted (`Sorted`) and a
sublist of the level below (`Nested`), the bottom one holds what was inserted
(`Contents`), the writer's `prev` is right for the keys below and above, and the
node it is linking is linked from the bottom up (`WriterInv`), and the reader is
at a key that was published, before its target (`ReaderInv`). `Nested` is what
makes publication from the bottom up safe for a reader that descends.

*The arena* (`ArenaInv`): the current block's pointer and the bytes remaining add
up to the block, and nothing has been handed out above the pointer.

*The levels* (`LevelInv`). That a read is right is `NothingMissing` (what memtable and
tables hold shows every live snapshot what all writes together would show it) and
`Order` (where Get finds a key first it finds its newest entry: the memtable is newer
than the tables, a table of level 0 newer than those with smaller numbers, a level
newer than those below; below level 0 tables are disjoint). A compaction keeps
`Order` if its inputs hold the oldest entries of their keys in the upper level
(`OldestOf`) and if the tables of the output level that stay lie beside all inputs
and share no key with the upper ones (`Apart`). Both are lemmas about the operators
that choose inputs (`InputsAre`), which first had to be characterised without their
loops: what GetOverlappingInputs ends with overlaps a range that it fills
(`OverlappingAre`: the range can only grow as often as there are files), and what
AddBoundaryInputs ends with has no boundary file (`GrowthEnds`: with every file it
adds, the ones that it can still reach become fewer). A flush inside a compaction may put
a table at the levels of the inputs or below; `Solid` says that the inputs have no gap
that such a table could fill, which holds for inputs that were picked and not for a
manual range, and `Deeper` that what was put below since has none of their keys. A
compaction drops only what no live snapshot can see (`DroppedUnread`), the marker of a
deletion only if nothing it hides is left anywhere (`MarkerHidesNothing`); here a
file that ends inside a key would break the proof, as it breaks the program.

*Versions* (`Inv`). Exact counts are not inductive as they stand, because one step
lets several references go and takes others, and a heap in between has counts that
fit neither the state before nor the one after. `Sound(h, H, K, S)` is therefore
about any heap with any holders `H` of versions and `K` of memtables, and with
versions `S` that are built and not installed; each of Ref, Unref, BuildVersion,
UpdateStats and the deletion of a version takes a sound heap to a sound heap with one holder
more or less, and an action is a chain of these (`SoundRef`, `SoundUnref`, ...,
then one lemma per action). In it `FilesCounted` says that a file's count is the
number of versions that have it, `TablesOnce` that a version has a table once, so
that a new version never refers to a file twice. `Numbers` is why nothing is
deleted that is needed: live tables are in the directory, and a merge's output is
pending until it is live. `Successors` is why nothing is lost: a flush that comes
between adds to the current version only, so the files of a merge's base are still
in it when its result is installed. Holder sets grow by one element per step, so
they are finite for any set of readers.

*The database* rests on five invariants, each of which needs the ones before.
`QueueInv` is about threads: only the front of the queue works, for a group that is
a prefix of the queue and that is synced if a member wants it, and whoever waits is
in the queue. `FileInv` is about numbers and files: every number in a table, a log,
the MANIFEST or an edit is below the next one, so that a new file never replaces
one; an output is pending until it is installed; and the flush and the compaction
under way are what their edits say (`FlushIsRight`, `CompactionIsRight`,
`EditIsRight`). A flush inside a compaction changes the version under it, therefore
a compaction is known by the version it began with and by its inputs. While the
database is opened, the version and the tables made of logs are those of the
MANIFEST and of the edit (`RecoveredFiles`, `RecoveringFiles`, `InstallingFiles`), and
nothing else is in memory. `ManifestInv` says what a crash may leave: every prefix
of the MANIFEST from the synced one on names tables that are there, and what it
names holds all that the current version holds (`ManifestHolds`). After a failed
write of the MANIFEST it is not known which version is on disk: then there is a
background error, no file is deleted any more, and the two conjuncts above are all
that is left of `ManifestIsCurrent`. `WriteInv` says where entries are.
While the database is open, an owed entry is in memory or in a table of the current
version (`OpenWrites`); what is in memory is in a log (`MemoryIsLogged`) that a
recovery from any such prefix replays, or in a table that the prefix names
(`LogsAreReplayed`); and a durable entry is in the synced part of that log
(`DurableIsSynced`). While it is closed, what such a recovery finds has every owed
entry (`DiskWrites`); while it is opened, the tables made so far and the logs that
are left have it between them, but for what was dropped (`RecoveredWrites`). Entries in logs and tables that
have one sequence number are equal, and their numbers are at most the last one, but
for the group under way (`SequencesAreUsed`). `LossInv` is about what faults take: nothing
is dropped but while the database is opened, and as long as no operation has failed
there are neither dropped nor unreadable records, nor a log with a failed append
(`FaultCounts`). `WritesSurvive` alone is not
inductive, since a crash replaces memory by what the files hold.

*The memory of blocks* (`BlockInv`). Who frees a block and who frees a filter are two
one-to-one functions: from owners (a table, for its index; an entry of the cache; a
reader, for a block that was not cached) to blocks, and from tables to filter buffers.
`Sound` says of any such pair that together they account for every block and every
buffer of the heap, each once, so that an action is a chain of three operations that
keep it: an owner goes with its block (`FreeIsSound`), comes with a block
(`AddIsSound`), or a filter comes or goes (`FilterIsSound`). That nothing freed is in
use needs two more facts. The cache has only blocks of the heap, and a block that lies
in a mapping is the index of that table or belongs to a reader of that table
(`MappedAreOpen`), so closing a table that has no reader takes a mapping from nobody.
A cached block has as many references as readers with its handle, and one more while
it is in the cache (`NothingKept`), so the last to let it go is its last user.

*Locks* (`TableInv`, `OwnerInv`): a process's entry in the lock table lets one of its
threads through, and in a process of one thread the entry and the file's lock are
there for that thread, unless an unlock failed. *Limits* (`LimitInv`): each counter is
its limit minus the threads that hold or try for a slot, and those who hold one are
within the limit; the second does not follow from the first, since a refused
Acquire has subtracted too. *Files* (`FileInv`): file and buffer together are what
was accepted, in increasing order; what was promised is a prefix of what is
synced; the names that a synced MANIFEST mentions are durable. *Schedule*
(`ScheduleInv`): done, running and queued items in this order are those that were
scheduled. *DestroyDB* (`DestroyInv`): whoever deletes and whoever has the database
open hold the lock of the file that LOCK names, so they are one.

### What stays with TLC

Liveness (`WarResolves`, `DealingEnds`, both `CallsReturn`, `EverythingRuns` for its
second half, `LoopsEnd`), which the proof system does not handle. `Varint` and
`PbEncode` use RECURSIVE operators, with which it does not work. The other
properties of leveldb and nanopb (`RecoverIsRight` for `Manifest`, `EntriesAreFound`, `SkippedIsReported`,
`CacheIsSound`, `IteratorIsRight`, `LogIsRead`, `RepairIsRight`,
`MemoryIsOwned`, `FieldsAreRight`, `EncoderIsExact`, `ConversionsAgree`) have no
proof so far.

## 5. What is not modelled

* Views, delegates, image data, names and messages of the application: no state of
  a game depends on them. `score` is never used by War.
* leveldb's C interface, dumps, statistics and info log: wrappers and output.
  Checksums, hashes and encodings of names, footers and batches: pure functions on
  bytes, modelled by what their users rely on. Compression. GetProperty,
  GetApproximateSizes, when an iterator takes a sample (that it does is an action of
  `Versions`), and plain wrappers of one
  system call.
* nanopb's fixed-width numbers, defaults, decoder callbacks and generated code; the
  encoder's extensions and unions, which only choose the fields that are there.
* The Firebase and Google libraries: Objective-C code that the application links
  and does not call, and headers that only declare interfaces.

## 6. Plan

Next to be proved, in this order: `CacheIsSound` of `TableCache`, whose lists and
reference counts can be treated as `BlockReader`'s are; then `EntriesAreFound` for `Bloom` and
`Block`, where a loop's result has to be characterised by a least counterexample
as in `DeckProofs`. `Manifest` and `LogFile` follow if their parsers can be stated
without recursion over data. Further code worth modelling is that of nanopb's
callbacks and of leveldb's write batches.

