# A TLA+ model of the CEDAR module

The CEDAR module is a plug-in of the OPeNDAP BES: it serves files of
upper-atmosphere data (CEDAR "CBF" files) as attributes, structures, tables or
raw bytes, looks names of instruments and parameters up in a MySQL catalogue,
authenticates users against a MySQL table of web sessions, and records every
request in a MySQL table or a log file.  This directory holds TLA+ modules that
model it, TLC configurations that check them, and proofs that TLAPS checks.

Contents: [inventory](#1-inventory) · [assumptions about what is outside](#2-what-is-outside)
· [modules](#3-the-modules-and-the-code) · [runs](#4-the-runs) ·
[fairness](#5-fairness) · [proofs](#6-what-is-proved) ·
[where code and documents differ](#7-where-code-and-documents-differ) ·
[not modelled](#8-what-is-not-modelled) · [plan](#9-plan)

## 1. Inventory

A BES server forks one process for each client.  The process loads the module
(`CedarModule::initialize`), serves one request after the other, and unloads it
(`CedarModule::terminate`).  There are no threads: what is concurrent is the
other server processes, the MySQL server, the people who edit its tables, the
web front end that writes `cedar_sessions`, and the client.

| Component | State | Operations | Talks to |
|---|---|---|---|
| Database handles: `CedarDB`, `CedarMySQLDB`, `CedarMySQLConnect` | statics `db_list` (builders by type) and `db_map` (handles by name); in a handle `_is_open` and `_connection`; in a connection the MySQL channel | `Add_DB_Builder`, `DB`, `Close`; `open`, `close`, `run_query`, `insert`, `update`, `del` | MySQL |
| Catalogue caches: `CedarReadKinst`, `CedarReadParcods` | static `stored_list`, filled on demand, never emptied | `Load_Instrument`, `Load_Parameter` and the getters, each of which loads its key first | handle "Catalog" |
| Authentication: `CedarAuthenticate`, its exception | none: key `Cedar.Authenticate.Mode`, context `USER_NAME` | `authenticate`, called by each request handler but the stream's, once for each container | handle "Authenticate" |
| Reporter: `CedarReporter` | pointer to the handle "Reporter", the log file | `report`, once for each request | handle "Reporter", log |
| Request and response handlers | the request (`BESDataHandlerInterface`) and the response object | `cedar_build_*` for a container; `execute`, `transmit` | all others, BES |
| Attribute response: `cedar_read_attributes` | the static register of `logged()` | the walk over the records of a file, `load_das` | Cedar++, catalogue caches |
| Data responses: `cedar_read_descriptors`, `_tab`, `_flat` | none that outlives a call | `load_dds`, `send_tab_data`, `send_flat_data`, each a walk over the records | Cedar++, catalogue caches |
| Info response: `cedar_read_info` | none | the same walk, over the header and catalogue records | Cedar++ |
| Stream response: `cedar_read_stream` | a 4096-byte buffer | the copying loop | file, standard output |
| Container storage: `ContainerStorageCedar`, `CedarFSDir`, `CedarFSFile` | two base directories | `look_for`, `show_containers` | file system |
| Password encoding: `CedarEncode` | none | `encode`, `decode` | configuration |
| Module start and end: `CedarModule` | the lists of the BES | `initialize`, `terminate` | BES |

What makes each of them correct, and what is hard about it:

* **Handles.**  A flag and a pointer that several failure paths set separately
  must agree before every statement; a session at the server must belong to one
  handle that can still close it; a handle whose session the server dropped must
  not be taken for a new one.  Hard: failures between two assignments, calls in
  any order, the server ending a session at any time.
* **Caches.**  An entry, made of the answers to two queries that no transaction
  joins, must not be made up of a failure, and never changes afterwards; a load
  must leave its session closed.  Hard: rows that appear, double or vanish and
  sessions that drop between the queries; exceptions on some paths only.
* **Requests.**  No protected container is read for a user who was not logged in;
  a collected response is sent whole or not at all; a request is recorded if and
  only if it went through without an error.  Hard: log-outs between two containers, failures after
  part of the work, an insert whose answer is lost.
* **Attributes.**  Every kind of record is described once, and `DAS::add_table` is given
  no name twice.  Hard: the register is
  shared by all requests of a process, and is written before the table is made.
* **Data responses.**  Three formats select columns and rows of a record in code
  of their own and must tell the same.  Hard: signed codes, empty sections,
  boundaries of the constraint.
* **Readers and caches together.**  A response tells every record that was asked for,
  once and in order, or the call fails; a record kind is described once or was lost by
  a call that failed.  Hard: walks with a branch of their own for the first record, getters that
  start loads in the middle of a record, exceptions from three layers, a file that is
  opened twice.
* **Stream.**  Each byte once and in order.  Hard: the last block, short writes.
* **Container storage.**  What is listed is what is served, and neither is made up.
  Hard: files that come and go between two system calls, a directory that cannot
  be opened, two functions that each know the order of the places.
* **Password encoding.**  What is decoded is what was encoded.  Hard: the last
  block, blanks at its end, buffers that hold whatever the stack held and whose size
  nothing checks.

## 2. What is outside

The BES core, libdap, Cedar++ and the MySQL client library are not in this
repository.  The modules assume of them, from how the code uses them:

* The BES calls the request handler once for each container, then transmits the
  response or, if a call threw, the error screen, and then calls the reporter.
  A process serves one client and makes no database connection before the fork,
  so no two processes share a socket; `Initialize` stands for the state that a
  process inherits, or builds, before its first request.
* `mysql_real_connect` makes a session or fails.  `mysql_query` succeeds, fails
  and leaves the session alone, or fails because the session is gone; in the
  last case the server may or may not have executed the statement.  The client
  does not reconnect by itself (the code never asks it to).
* Sessions are dropped by the server at any moment.  Their number is bounded by
  `Session`, which stands for the server's `max_connections`: with no identity
  left, a connection fails.
* A Cedar++ constraint either names parameters, each with its own values, or has
  no parameters clause; `validate_parameter` compares codes with their sign.  Which
  records it accepts depends on the record only, and header records may be accepted.
* A file does not change while it is open, but between two openings of its path it
  may be replaced by any other.
* The reporter's log file opens and takes every line.
* `readdir` may or may not return an entry that comes or goes while its directory is
  open, and `opendir` may fail for any reason.  `readdir` itself does not fail:
  `CedarFSDir.cc:96` takes its NULL for the end of the directory, whatever `errno` says,
  so after a failure the listing would be short and nothing would tell.
* User names and session tokens that SQL reads as they stand (the set `Plain` of names)
  get the answer that `cedar_sessions` holds for them.  Name and token become part of the
  statement as they are (`CedarAuthenticate.cc:179-188`); nothing in this repository
  checks them, and of others nothing is assumed: the answer may be either.
* DES is a permutation of blocks for each key; nothing else is asked of it.

## 3. The modules and the code

Names follow the code; `PROJECT.json` maps each definition to its lines.

**`CedarDB`** models the handles.  For each process p: `db_list[p]`, `db_map[p]`
(the two statics of `CedarDB.cc`), `is_open[p][n]` and `connection[p][n]` (the two
members of a handle; the pointer is uninitialised, null, unconnected, or a live or
dead session), and `session`, the sessions alive at the server.  There is one
action for each public method; `Statement` is the part shared by `run_query`, `insert` and
`update`, with the outcomes *unreachable*, *ok*, *refused* and *lost*.  Undefined
behaviour (a statement through a wild pointer in `del`, `delete` of a pointer
that was never set in `close`, a null result in `run_query`) ends the process, or,
for `close`, may also do nothing.  `Next` is the most general client; the two
modules that extend `CedarDB` use its actions as the code calls them.

**`DBLink`** is the abstract specification of a handle: a link that is *none*,
*down*, *up* or *lost*, and that comes up only from *down*.  `CedarDB` implements it
under the mapping `LinkState` (property `ImplementsDBLink`).

**`CedarCatalog`** extends `CedarDB` with the two caches.  A load has a step for
each point where others can act: `Load` (lookup of the handle), `MainQuery`,
`SiteQuery` (instruments only), then `Store` or `Abandon`, both of which close the
handle; a query that throws ends it at `pc = "threw"` with the handle left open.
`main` and `site` are the tables: for a key one row, no row or many, changed at
any time.  `seen` is an observer: what the tables could have answered since the
load began.

**`MemoTable`** is the abstract specification of a cache; both lists implement it
(`CachesAreMemos`).

**`CedarServer`** extends `CedarDB` with requests: `Receive`, then for each
container `Authenticate` and `SessionQuery` (not for a stream) and `Read`, then
`Transmit` and `Report`.  The eight kinds of request differ in three things only
(whether they authenticate, whether they write while they read, whether they are
reported), so four actions stand for them.  `conf` holds the two keys that matter.
`HasRow` is the answer of `cedar_sessions`, which is known for the names in `Plain` only.
A stream that was opened and ends without an error may have sent all of its file, a part
or nothing (`ReadOk`): what a call leaves out is the business of `CedarStream`, where the
tail of the file and what a refused read or a short write loses are left out of a call
that returns true.  Such a request is reported all the same.  `logged_in` is
an observer: whether the user was logged in at some time since the
authentication for the current container began.

**`CedarAttributes`** models the attribute response: `reg` is the static register of
`logged()`, `file` and `at` the walk, `das` the sequence of the calls of `add_table` for the
response, each with the kind and the instrument that make the table's name, so that a
name given twice is seen.  `load_das`
registers the kind and then may fail at any getter.  `Skip` covers headers and
known kinds.  `before` is an observer.  Here the catalogue is only a source of
failures.

**`CedarReaders`** extends `CedarCatalog` with the five readers that walk over the
logical records of a file, so that what a reader asks of the catalogue is a load with
all its steps and failures.  `walk[p]` is the reader the process is in (*descriptors*,
*text*, *info*, *attributes*, or *table*, inside `load_das`), `file`, `at` and `qa` the
walk, `told` and `das` the response.  `Ask` is a getter that does not find its key
(`Lacks`: the first key of this record that the caches have not), `Query`, `Keep` and
`Reject` the load as the reader sees it, `Throws` every other exception.  The first record
is told or passed over before the loop (`TellFirst`, `SkipFirst`), where `end_dataset()` is
not asked; the others in it (`TellNext`, `SkipNext`).  `Reopen` is the
second reading of get.dds and get.dods, of a file that may be another one by now.
`described` and `silenced` are observers.  Each step is, for the caches, one of
`CedarCatalog`'s or none.  Where `CedarAttributes` takes any getter to fail at any time,
`CedarReaders` says why it fails.

**`CedarTables`** models what one record becomes in the dds, the tab and the flat
response: the columns of each line and the rows of the data.  A column is a place
in the JPAR or MPAR section, a constraint a set of codes with the allowed values
of each, the catalogue the set of codes it knows.

**`CedarStream`** models the copying loop with the state of the `ifstream`, refused
reads, and a `write()` that takes any part of its block or never returns.

**`CedarStorage`** models the container storage.  `look_for` has a step for each
`access()`, `show_containers` one for each directory it opens (or cannot open) and
one for each entry; `Change` lets any entry become anything between two of them.
A file is a place (base directory and extension) and a name, since the code builds
the path from the two.  `nested` is the set of names with a '/': their files are in
sub-directories, where `look_for` finds them and `show_containers`, which reads one
directory only, does not.  `was` and `steady` are observers: what each place had since the call
began, and whether nothing changed since the last listing began.  `MaxChanges`
bounds the changes during one call; between calls they are free.

**`CedarEncode`** models the encoding of passwords.  The two recursions do their
work on the way back, so `EncodeBlock` and `DecodeBlock` go from the last block to the
first, in buffers `b1` and `b2` of `Size` cells (2048 in the code), which are *wild* until
they are written.  A write goes where it goes (`Put`); a text whose code and terminator
do not fit makes `encode` *undefined* (`EncodeTo`).  What
a wild cell holds is decided where it is read (`StopsAt`), and a read below the
buffer may end in `pc = "undefined"`.  `Configure` is the administrator: the printed
code goes into the configuration whole or with its end lost.  `Weight` and `Total` are
the powers of two and the sum of `my_decode`, as recursive functions.

Modules `MC*` give the constants for TLC; modules `*_proofs` hold theorems.
Definitions whose comment begins "A slip" are plausible mistakes, kept so that each
property can be shown to notice one: with `of` replaced by the slip, the property
fails in the same run.

## 4. The runs

| Run | Question | Bounds, and why they are enough |
|---|---|---|
| `db_handles` | Can any order of calls and failures break a handle, leak a session, or mend a lost link? | Two processes (sharing needs two), three names, one of a type without a builder, four sessions: both processes can hold two and none is left for a third, so the limit is met. Sessions are interchangeable (symmetry). |
| `catalog` | What can a load store, and leave behind, while tables change and sessions drop? | One process, as caches are private and `db_handles` shows that handles do not interfere; an instrument (two queries) and a parameter (one); two distinct rows, no row, many rows; two sessions, so that a dropped one can be replaced. |
| `server` | Is every protected read authorised, every response whole, every request recorded? | One process, two users with plain names and one without, up to two containers (a failure at the second is what matters), two sessions for two handles, all three modes and both kinds of buffering. |
| `server_not_both` | The reporter's comment: database or log, "Not both!" (violated) | as `server` |
| `attributes` | What does a das describe, request after request? | Files of up to three records of two kinds, two instruments and headers: a repeated kind, a kind shared by two instruments and a failure between them all occur. |
| `attributes_help` | The help text: the das has all record types (violated) | as `attributes` |
| `readers` | Does a response tell what was asked for, and does a call end, while tables change and sessions drop? | One process and one session; one instrument and one parameter; records of two kinds, one that needs the parameter and one that does not, and headers; files of up to two records, so that there is a first one and one of the loop, every constraint on positions and codes. The parameter may lose its row and get it back. A lost session is seen with no other to take its place. 262 388 states. |
| `stream` | Are the bytes sent in order, and does the call return? | Blocks of 3 bytes and files of 0 to 10: empty, shorter than a block, whole blocks, with a tail. |
| `stream_help` | The help text: "the file content as is" (violated) | as `stream` |
| `tables` | Do the three formats agree? | Up to two JPAR and two MPAR columns, a code and its error code, two rows, two values, every constraint and every catalogue. All inputs are initial states; each is asked for in the three formats in any order. |
| `storage` | Are look-ups and listings right while files come and go, and do they agree? | One name, with a '/' or without, with or without Madrigal's directory, five kinds of entry at each place, three changes during a call, one for each place. Names do not interact, and the proofs hold for any set of names and any bound. |
| `encoding` | Does a password survive? | Blocks of two characters of two bits: a text may be empty, shorter than a block, whole blocks, or have blanks in any place, over up to three blocks, first, middle and last; every key; every cut.  A buffer has 13 cells, the code of three blocks and its terminator; a text of seven characters has one block more and does not fit. |

Deadlock is not checked in `stream`, `tables` and `encoding`: the call has returned, or
the three formats have been given, and the model really stops.  All other models run on.

The properties, by run:

* `db_handles`: `FlagMatchesPointer`, `SessionsOwned`, `ImplementsDBLink`.
* `catalog`: `ReleasedAtRest` (a session is left open only by a query that threw),
  `EntriesGenuine` (stored parts were really in the tables during that load),
  `LossIsForever` (after a session is lost the process loads nothing any more: an
  availability problem that no test with a healthy server shows),
  `CachesAreMemos`.
* `server`: `RecordedIffServed` (a request is recorded if and only if it asked for data for
  a named user, each container was read without an error and, but for a stream, the
  response was sent; a stream is counted whatever was sent of it), `AllOrNothing`,
  `ProtectedNeedsSession` (for users with plain names, see section 2),
  `LossDenies` and `LossDivertsReports` (what a lost session means for the
  Authenticate and Reporter handles, which stay open between requests).
* `attributes`: `TellsTheUnknown` (exactly the kinds the process did not know),
  `OneTablePerKind` (no two calls of `add_table` in a response are for one kind).
* `readers`: `DescribedOrSilenced` (a kind has one fate in the life of a process: described
  by a call that returned, or silenced by one that failed), `ToldExactly` (a reader that
  comes to its end has told the records that were asked for, once and in order),
  `LossFailsCalls` (a call that needs a key the caches lack, on a lost session, ends in an
  error and not in a response made of what is at hand), `CallReturns` (a call ends unless
  a query never comes back).
* `stream`: `WholeBlocks`, `StreamReturns`.
* `tables`: `TextsAgree` (tab and flat print the same rows and columns, but for records with
  rows and no MPAR columns, of which flat alone prints rows, and for records without rows,
  of which flat alone has MPAR columns), `FlatLinesUp`, `DdsHoldsTab`, `FlatAsksMost`.
* `storage`: `LookIsJustified` and `ListIsJustified` (an answer is justified by what was
  there at some moment of the call, and misses nothing that was there throughout),
  `ListingPredicts` (while nothing changes, `look_for` serves the first readable file
  that the listing has for the name, and nothing that is not listed but a directory,
  a file in a place that could not be opened, or a file of a sub-directory).
* `encoding`: `EncodedIsWhole`, `RoundTrip` (but for blanks at the end, and for whole
  blocks that were cut off), `OnlyBlanksRunOver` (of a text that fits into the buffer, nothing
  else is undefined), `CutCostsOneBlock` (of a text that is cut
  inside a block, the blocks before that one are decoded as they were; what follows them
  in the buffer is not ended).

Each run also checks the type invariant of its module, which says what the code
relies on at each point and not only the kinds of the values.

## 5. Fairness

`CedarStream` assumes weak fairness of `Read` and `Finish`: the operating system
schedules the process, and a read of a file comes back with bytes, the end or an
error.  `Write` is not fair: a client that reads no more blocks `write()` for ever.
`StreamReturns` therefore has that case as its only exception.

`CedarReaders` (`ReadFairSpec`) assumes weak fairness of `Reader(p)` for each process:
what a reader does by itself, without an answer of the database.  Queries are not fair,
since the client library waits without a limit (`CedarMySQLDB.cc` sets no option), and
neither are new calls.  `CallReturns` has the first as its premise: a process that is
again and again out of a query is again and again out of a call.  So what is shown is
that no reader asks without end: each load ends with its key stored or with the call.

The other modules assume none and state no liveness.  Every wait in them is a call
of the MySQL client, or the next request of a client, and nothing in the code promises
that either ends.

## 6. What is proved

For all values of the constants under the named `ASSUME`s of each module, which say
no more than that marker values differ from real ones, that the names the code
uses exist, and that bounds are numbers:

| Module | Theorems | Argument |
|---|---|---|
| `CedarDB_proofs` | `TypeCorrect`, `FlagsCorrect`, `NoSessionLeaks`, `HandlesImplementLinks` | `IInv`, the conjunction of the three invariants, is inductive; none of them is alone. `SessionsOwned` needs the flags, since a closed handle must hold no session for `open()` to overwrite; the flags need the types of handles that do not exist yet. The refinement maps each step to a step of `DBLink` or a stutter, using `IInv` before and after. |
| `CedarCatalog_proofs` | `CatTypeCorrect`, `CatalogReleased`, `CatalogGenuine`, `CatalogIsMemo`, `CatalogLinks`, `LossLasts` | Every step is one of the most general client's, so `IInv` comes from `CedarDB_proofs`. `CatIInv` adds what a load knows at each point (`Knows`, in `CatTypeOK`), the release of the handle, and `FoundIsSeen`: what has been found, and what is still to be answered, was seen. `EntriesGenuine` and the memo refinement are step facts from it. `LossLasts` uses the refinement of `DBLink`: a lost link of an open handle stays lost (`LostLasts`, in `CedarDB_proofs`), on a lost link only exceptions come back, and none of them closes the handle. |
| `CedarServer_proofs` | `ServTypeCorrect`, `ServedIsRecorded`, `NoPartialResponse`, `ReadsAreAuthorised`, `LossIsDenial`, `LossIsDiversion`, `ServerLinks` | `ServIInv` adds to `IInv` what a request knows at each point: a request that reached `transmit` without an error has no container left, which is what the two invariants need. `ReadsAreAuthorised` has an invariant of its own, `AllVouched`: while the query runs, a user with a plain name who is in the table has been seen there, and so has one whose container is about to be read. The two losses follow from `LostLasts`, since an open handle stays open while its process serves (`ProcessStaysOpen`). |
| `CedarAttributes_proofs` | `AttrTypeCorrect`, `ResponsesTellTheUnknown`, `TablesAreUnique` | The invariant is a conjunction over processes (`Sound`); a step of one leaves the others alone. The register is what was known before and what was read and, if a getter threw, perhaps the kind of that record. `OneTablePerKind` follows since each entry of `das` is of a kind that was not registered when it was appended. |
| `CedarReaders_proofs` | `ReadersUseCaches`, `ReadTypeCorrect`, `OneFatePerKind`, `ReadersTellAll`, `LossEndsCalls` | Every step is one of the caches' (`ReadNextIsCat`), so the theorems of `CedarCatalog_proofs` and `CedarDB_proofs` hold under the readers (`ReadersUseCaches`). `ReadIInv` adds what a call knows at each point (`Follows`: a load is for the first missing key of this very record), the fates of the kinds, and `ToldSoFar`: half way, what is told is what was wanted of the records passed so far. `ToldExactly` is that, at the step that ends the walk. |
| `CedarStorage_proofs` | `StorTypeCorrect`, `LookupsAreJustified`, `ListingsAreJustified`, `ListingsPredictLookups` | `StorIInv` says what a call knows half way: the present is part of `was` (`PresentIsSeen`), the places before this one were each seen without a readable file (`Tried`), the lines so far and the entries yet to be read cover this directory (`SoFar`), and a finished listing covers the present while nothing changes (`Current`). The three properties speak of the step that ends a call, and follow from it. |
| `CedarResponses_proofs`, on the stream | `StreamTypeCorrect`, `StreamSendsWholeBlocks` | A remainder says little about the next block, so `StreamIInv` has the number of blocks written or skipped instead (`WholeBlocksRead`), what follows from the end of the loop (`LoopEnds`), and what was sent (`SentSoFar`). |
| `CedarResponses_proofs`, on the tables | `TextFormatsAgree`, `FlatHeadLinesUp`, `DdsHoldsAll`, `FlatIsNarrowest`, `TablesTypeCorrect` | The input never changes, so `TabIInv` says what each format told of it. The substance is `CountingIsLooking`: as many values in range as valid columns (tab) is no value out of range (flat), for a finite set of columns. |
| `CedarEncode_proofs` | `CharsOfBits`, `DecodeEncode`, `EncTypeCorrect`, `EncodedIsWholeHolds`, `OnlyBlanksAreStripped`, `DecodeUndoesEncode`, `CutLosesOneBlock` | `EncIInv` says what the buffers hold half way: that they fit once one block is written (`EncodedBlock`: what `encode` writes is inside the buffer if and only if the text fits); the blocks that `encode` has returned from, with a terminator after them (`EncodedSoFar`); a configured text that is a part of these (`ConfiguredIsPrefix`); the blocks that `decode` has returned from, as they are expected, with terminators after them (`DecodedSoFar`), or, if a block was cut, the blocks before that one (`CutSoFar`). The properties are what it says when `pc` is `"done"`. |

The encoding needs what its two recursions compute, for characters of any number of bits.
The induction is made by hand: of a set of numbers that is not empty take the least
(`Least`, from `NatLessThanWellFounded`, which has no operator as a parameter), so a set
that holds 0 and with each number the next is all of the numbers up to a bound (`UpTo`).
`Recursion` shows in the same way that the recursive functions exist and obey their
equations, and `TotalOfBits` that the sum of the first j bits of a character is its
remainder by the weight of j.  `CharsOfBits` is this for all bits, and `DecodeEncode`
follows as no two blocks have the same code.

Model-checked only: the liveness properties `StreamReturns` and `CallReturns`, since
liveness under fairness and `ENABLED` are out of the prover's reach.  No module uses a
RECURSIVE operator.

## 7. Where code and documents differ

* `server_not_both`: `CedarReporter.cc:53-54` promises the database or the log,
  "Not both!".  If the INSERT was executed and its answer lost, the request is in
  both.
* `attributes_help`: `cedar/cedar_help.txt:50-51` says the das holds all that is
  needed for `record_type(...)`.  A kind that any earlier request of the process
  met is left out.
* `stream_help`: `cedar/cedar_help.txt:8` promises the file as is.  The tail of a
  file that is not a multiple of 4096 bytes is never written, and the call
  reports success.

## 8. What is not modelled

* The text of statements, messages, layout and dates: no property depends on them, with
  one exception.  `ProtectedNeedsSession` holds of names and tokens that SQL reads as they
  stand; which ones these are is not modelled (section 2).  The fixed prologue columns of a
  table are left out: no constraint selects among them.
* Memory: results and connection objects that error paths leak hold no session
  and change no later step.
* The rows and the cursor of an answer (`CedarMySQLResult`): the loads check that there
  is one row and then read this row only; `authenticate` checks that the answer is not
  empty and has one field, and reads no row.  So no order of calls is left to check; the
  models have the number of rows and what the row says.
* The registrations that `initialize()` makes and `terminate()` takes back, and those that
  stay when `initialize()` throws: they are entries in lists of the BES, and what a
  stale entry does is decided there and by the loader, which are not in the repository.
* In `CedarReaders`, what is told of one record: `CedarTables` has its columns and rows.
* Of the encoding: configured texts with other characters than the two digits, and what
  happens after a text has run over its buffer (`pc = "undefined"` is the end).
* The walk of the attributes' reader has one action for a record told before the loop and
  one told in it: its two branches are the same call of `load_das`.
* `CedarMySQLQuery`, `CedarFilter`, `CedarTransmitter`: nothing in the module calls
  them.  `checkKinst`, `checkParcod`, `encode` are command-line tools.
* The BES core, libdap, Cedar++ and MySQL, beyond what section 2 assumes.

## 9. Plan

Written, checked and proved, in this order: `CedarDB` with
`DBLink`; `CedarCatalog` with `MemoTable`; `CedarServer`; `CedarAttributes`;
`CedarStream`; `CedarTables`; `CedarStorage`; `CedarEncode`; `CedarReaders`, which
composes the caches with the readers.

What could still be added:

1. `CedarLifecycle`: `initialize` and `terminate` with the lists of the BES as an external
   module, a throw half way, loading again, and the exception callback that is never
   removed.
2. A composition of `CedarServer` with `CedarReaders`, so that the failure of a container
   is that of its reader; each now has the other's part as a free choice, so every
   behaviour of the composition is one of both.
