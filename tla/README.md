# PnetCDF: TLA+ models, checks and proofs

PnetCDF gives several MPI processes parallel access to one netCDF classic file.
This directory holds TLA+ modules translated from its C source, the TLC
configurations that check them on small instances, and proofs for TLAPS.
Paths below are relative to the library, `src/src/`, unless they begin with
`doc/`, `test/` or `RELEASE_NOTES`. An MPI process is a *rank*.

## 1. The system

| component | source | state it keeps | operations |
|---|---|---|---|
| dispatcher: file table, mode flags | `dispatchers/file.c` | `pnc_filelist`, `pnc_numfiles`; flags DEF, INDEP, RDONLY, SAFE and `nrec_vars` of every open file | create, open, close, redef, enddef, begin/end_indep, sync, abort, inq |
| dispatcher: argument checks | `dispatchers/var_getput.m4`, `variable.c`, `dimension.c`, `attribute.c` | the cached shapes of variables | put/get in all forms, def/rename/inq; safe mode's reduction of errors |
| number of records | `drivers/ncmpio/ncmpio_sync.c`, `_getput.m4`, `_fill.c`, `_file_misc.c`, `_header_put.c` | `numrecs` in the memory of each rank and in the header of the file; flags DEF, INDEP, NDIRTY | every put, fill, wait, mode switch, sync, close |
| nonblocking requests | `ncmpio_i_getput.m4`, `_i_varn.m4`, `_wait.c` | a lead list and a list of per-record entries for puts and for gets; maximum IDs | iput/iget/bput, wait/wait_all, cancel |
| attached buffer | `ncmpio_bput.c`, `_wait.c` | size, used bytes, table of entries in use | attach, detach, bput, reclaim |
| request aggregation | `ncmpio_wait.c`, `_filetype.c`, `_util.c` | none between calls | grouping of interleaved requests, merging of offset-length pairs, file views |
| define mode, layout | `ncmpio_enddef.c`, `_create.c` | begins of the variables, `begin_rec`, `recsize`, the old header | redef, enddef: new begins, moves of data, fill |
| metadata | `ncmpio_dim.c`, `_var.c`, `_attr.m4`, `_hash_func.c` | arrays of dimensions, variables, attributes with hash tables of names | def, rename, delete, inq |
| header format | `ncmpio_header_get.c`, `_header_put.c` | the bytes of the header | parse, write, sizes |
| burst buffer driver | `drivers/ncbbio/` | log of puts in a local file, an index, pending put requests | log, flush at get, wait, sync, redef and close |
| subfiling, wrapper drivers, type conversion, bindings, utilities | | | not part of this project (section 7) |

**Interactions.** The dispatcher checks arguments and modes, then calls a driver
through a table of functions; it keeps flags of its own which the driver keeps
again. The ranks share only the file, and talk by collective MPI operations:
reductions, broadcasts, barriers, collective I/O. The root rank alone writes
the header. Nonblocking requests live in the process until a wait; a collective
wait reduces what the ranks have (reads, writes, errors, records) and all do
the same transfers. The record count ties most parts together: puts, waits and
fills raise it, the mode switches reconcile it, the header holds it.

**What is hard.** Ranks run at their own pace through the same sequence of
collective calls, so one may be several calls ahead; independent mode lets
their memory diverge; an error on one rank must not keep it out of a collective
operation the others wait in; only the root learns of a failed header write; a
long sequence of posts, partial waits and cancels moves the entries of two
arrays that index each other; two layers keep the mode of a file and must
change it together; data are moved within the file by all ranks at once,
through ranges that overlap. There are no threads of the library's own (an
optional lock protects the file table), no timeouts and no crash recovery: the
burst buffer may leave its log in place, but nothing reads it again.
PROJECT.json lists each hazard at its line.

**What makes each component correct.**
* number of records: memory of all ranks agrees outside independent mode; the
  header is current whenever the root is outside a call; no record written is
  lost from the count, none is invented; counts never drop; collective
  operations match; every call returns.
* requests and buffer: an ID names one pending request; lists stay consistent;
  a wait transfers exactly what was asked; statuses and errors reach the caller;
  buffer space is neither shared by two requests nor lost.
* dispatcher: an ID names an open file; both layers agree on the mode.
* layout: variables do not overlap; data of old variables survive redef.
* metadata: the hash tables and the arrays agree.
* burst buffer: each logged put reaches the file once and in order; reads see it.
* header: what is written is read back, through a window of any size.
* aggregation: the merged view of a wait holds every byte of the requests once,
  paired with the buffer of one that asked for it.

## 2. The modules

| module | what it is |
|---|---|
| `RecordCount` | the number of records, all ranks |
| `RecordCountProofs`, `CollectiveProofs` | theorems about it: one rank at a time; what the ranks have in common |
| `RequestSet` | what the nonblocking API promises: a set of pending requests |
| `RequestQueue` | the queues and the attached buffer of one process; implements `RequestSet` |
| `RequestQueueProofs` | theorems about it |
| `LogPromise` | what the burst buffer promises: pending puts that reach the file once and in order |
| `BurstBuffer` | the logs, request objects and flushes of all ranks; implements `LogPromise` |
| `FileHandles` | what the API promises of IDs, modes and definitions |
| `FileTable` | table and flags of the dispatcher over those of the driver; implements `FileHandles` |
| `Layout` | define mode: new begins, moves of data by all ranks, fill, header |
| `Metadata` | arrays and name tables of dimensions, variables and attributes, all ranks |
| `FileTableProofs`, `MetadataProofs`, `BurstBufferProofs`, `LayoutProofs` | theorems about these four |
| `LoopLemmas` | what the proofs need of numbers and of functions computed by a loop |
| `Header` | the bytes of the header: writing, sizes, parsing through a window |
| `Aggregation` | file types of requests; sorting, grouping and merging of pending requests |
| `MCAlgorithms` | the inputs `Header` and `Aggregation` are checked on |
| `MCRecordCount`, `MCRequestQueue`, `MCBurstBuffer`, `MCFileTable`, `MCLayout`, `MCMetadata` | instances for TLC |

### RecordCount

| variable | code |
|---|---|
| `mode[r]` | NC_MODE_DEF and NC_MODE_INDEP of `ncp->flags`, or the file closed |
| `numrecs[r]`, `dirty[r]` | `ncp->numrecs`, NC_NDIRTY |
| `fileNum` | bytes 4 to 7 (or 11) of the file, NC_NUMRECS_OFFSET |
| `call[r]` | the call in progress: the steps left, the value given to the reduction and its result, the error so far |
| `todo[r]` | collective calls other ranks have made before `r` |
| `mail[r]` | MPI_Bcast messages not received |
| `written`, `told` | history: the records written, the root informed of a failure |

A call is the sequence of steps of the source. The steps *agree* (safe mode's
MPI_Allreduce of errors), *reduce* (MPI_Allreduce of the count), *vote*
(MPI_Allreduce of `req_commit`) and *barrier* (MPI_File_sync and MPI_Barrier of
`ncmpio_file_sync`) are taken by all ranks at once, the others by one rank at
any time. *bcast* is asynchronous: the root goes on at once. `MakeCall` is one
disjunct per API; every rank makes the collective calls in one order, but a
rank may be `MaxAhead` calls before another. `IndepPut` is an independent put,
`IndepWait` an independent wait.

`WaitAll` and `IndepWait` distinguish the records a wait reaches, counts and writes.
`Scanned`: `req_commit` counts by position in the whole queue (`ncmpio_wait.c:952`), so a
wait for a part of the pending puts may count any part of its records (`PartialWaits`).
`Stored`: `wait_getput` raises the count, in collective mode the header's too, whatever the
data write returned (`ncmpio_wait.c:2183`), so a wait may count records it has not
written (`WaitFails`).

What the module abstracts:
* MPI I/O on data (file views, `write_at_all`, File_sync) has no step: MPI does
  not promise that collective I/O synchronises, and the models assume only what
  is promised. What its failure does is part of the call: an independent put that fails
  changes nothing, `put_all` comes with the rank's own count (`PutAll`, second disjunct),
  a wait counts all the same (`Stored`), `fill_var_rec` returns at once (`FillFails`).
* a start, count and stride are abstracted to the last record they reach.
* the file always has a record variable, is not read-only and not created anew:
  `Init` is the state after `ncmpi_open`. The calls that do nothing (sync_numrecs
  or end_indep_data in the wrong mode) are left out.
* an error in an argument is drawn per call (`BadArgs`): only the errors after
  which a rank goes on with a request of zero length; the fatal ones (NC_EBADID,
  NC_EPERM, wrong mode) are documented as fatal.
* a whole-header write in enddef does not fail; a count in it is in range.

### RequestSet and RequestQueue

| variable | code |
|---|---|
| `put`, `get` | `put_lead_list`, `put_list`, `maxPutReqID`, and those of gets |
| `abuf` | `ncp->abuf`: `size_allocated`, `size_used`, `occupy_table` |
| `numrecs` | `ncp->numrecs` |
| `last` | history: what the last call was asked, transferred and returned |

The calls of one process do not overlap, so each is one action. `Insert` is the
insertion sort of the put queue; `TakeOut` the part of `extract_reqs` that takes
a subset out of the entry list before the transfer; `Release` the part of
`req_commit` that drops the leads after it. An entry carries the ID it was posted
with (`owner`), which the code does not have: the properties compare it with the
index the code uses. The application passes any permutation of any subset of the
pending IDs (`Arrays`), and with the habits "null" and "unknown" also NC_REQ_NULL
and IDs that are not pending.

Abstracted: buffers and types, which entries belong to NC_REQ_SKIP, the order
of the merged transfer, the other ranks of a collective wait (their reduction is
`Vote` of `RecordCount`). One unit of the attached buffer holds one entry.

`RequestSet` states the promise: IDs are unique among the pending requests, a
wait transfers the whole of each request it removes, a cancel transfers nothing
and no other call removes a request. `RequestQueue!Promise` is the refinement
mapping: the leads are the set, the number of entries with an owner in the
transfer is what was moved of it.

### LogPromise and BurstBuffer

| variable | code |
|---|---|
| `mode`, `indep` | the mode of the ncmpio driver and NC_MODE_INDEP in `ncbbp->flag`, which need not agree |
| `log[r]` | metadata log, index and entry sizes (`metadata`, `metaidx`, `entrydatasize`) |
| `data[r]`, `biggest[r]` | the data log up to its descriptor, `maxentrysize` |
| `putlist[r]` | the request objects, their free and used halves `ids`, `nused` |
| `job[r]` | the flushing call in progress: the steps left, rounds left, next entry, request IDs |
| `file` | the put whose value each cell of the file holds |

`PutVar`, `IPutVar`, `PutVarn` and `IPutVarn` append to the log; `CancelPutReq`
invalidates entries. A call that flushes is a sequence of steps: *reduce* (the
reduction of the rounds), *rounds* (one batch: read the data log, post, wait),
*reset* (forget the log), *handle* (give request objects back) and *driver*
(what the ncmpio driver does next, all ranks). In collective mode all ranks
take *reduce*, *rounds* and *driver* together; in independent mode each flushes
alone. `Batch`, `Passed` and `Rounds` are the three loops of
`ncbbio_log_flush_core` over the log; the promise is broken if they count
differently. The refinement maps the entries not yet replayed to the pending puts.

Abstracted: a put is a number and the cells it writes; types and the packing of
data; the time before the first enddef of a new file, when there is no log; the
mapping of several logs into one file (`ncbbio_sharedfile.c`). Writing and resetting
the log do not fail: after a failed write `ncbbio_log_put.c:142` leaves an entry without
data, and `ncbbio_log.c:541` would replay a log again. Four details of the code change no property and are left
out: `stats[j]` is read with `j` 0 for every entry (`ncbbio_log_flush.c:360`); `put_varn`
keeps only the last status of its parts; IDs of gets come back from a wait without the
1 they had (`ncbbio_file.c:825`); close drops the status of the replay (`ncbbio_log.c:404`).

### FileHandles and FileTable

| variable | code |
|---|---|
| `table`, `numfiles` | `pnc_filelist`, `pnc_numfiles`; a handle has the flags of the PNC object and, under `d`, those of the driver's NC object |
| `disk` | what each path holds |
| `reply` | the last call, its ID and its answer |

One action per API function: create, open, close, enddef and `_enddef`, redef, begin and end of
independent mode, sync, abort, set_fill, def_var, fill_var_rec, waits, and put and
get in blocking, collective and nonblocking form. `DriverEndDefs` and the `d` part of each
action are what the driver does. `FileHandles` knows one mode per file. Its
other calls must succeed exactly in the modes that allow them, so both
a flag that is out of step and a missing check break the refinement.

Abstracted: the rest of the arguments; a process has one ID per path at a time;
`ncmpi_open` and `ncmpi_create` fail only when the table is full. Ranks that disagree on the create
mode, and a table that is full on one rank only (it returns before
the collective open of the others), are not modelled.

### Layout

| variable | code |
|---|---|
| `ncp`, `old` | `ncp->vars`, `begin_var`, `begin_rec`, `recsize`; `ncp->old` |
| `align` | `h_align`, `fx_v_align`, `r_align` of the hints |
| `disk`, `saved` | the cells of the file; the metadata in its header |
| `moves`, `at`, `buf` | the blocks still to move, where each rank is in enddef, what it has read |
| `known` | history: what each element should read |

`EndDef` is `ncmpio__enddef` up to the moves: hints, `NC_begins`, `NC_check_voffs`, and the list of blocks
that `move_record_vars` and `move_fixed_vars` will move. Then each round of `move_file_block` is
`ReadChunk` and `WriteChunk` of every rank, in any order, between the two
reductions `ReadsDone` and `WritesDone`; `WriteHeader` is rank 0's, `FillVars`
every rank's. `OpenShape` is the layout an opener computes from the file.
`Put` writes an element; `DefVar`, `PutAtt`, `SetFill`, `Redef`, `Close`, `Abort`, `Open` and `Create` are the calls.

Abstracted: a cell is a unit of alignment, its content a token; `write_at_all` has reached
the file when it returns on all ranks; striping hints; the size limits NC_EVARSIZE; the
padding behind the header is not written; per-variable fill mode. A close in define
mode is `EndDef` and then `Close`.

### Metadata

| variable | code |
|---|---|
| `nc[r]` | `dims`, `vars`, `attrs` of rank r's NC object and the attributes of each variable; `nameT` of each |
| `old`, `mode` | `ncp->old->vars.ndefined`, NC_MODE_DEF |
| `disk`, `room` | the objects in the header of the file; the space before the first variable |
| `stuck` | history: a rank waits in a reduction another has left |

A call is collective and is one step: the checks and changes each rank makes
before the reduction of errors (`Check...`, `Drive...`, `Early...`), the
agreement of safe mode on the arguments (`Consistent`) and on the errors, and the changes after it
(`Late...`), with the rewrite of the header in data mode (`Written`). `Reopen`
parses the header and builds new tables. IDs count from 1.

Abstracted: values and types of attributes but for their size; copies between
two files; UTF-8 normalisation and legality of names; the rule of one unlimited dimension; inquiries.

### Header, Aggregation, MCAlgorithms

`Header` writes a header as a sequence of bytes (`Put`, `PutVar`, ...),
computes its length (`HdrLen`) and reads it back item by item through the window
`bufferinfo`, refilled by `Fetch`. The reader carries an error and whether it
looked beyond its window. Numbers are below 2^24 (more is `Huge`); overflow of an offset in
CDF-1 is not modelled; the vsize of a variable is recomputed by the reader. Its
recursive definitions keep it out of the prover's reach.

`Aggregation` represents an MPI type by its type map, the sequence of bytes it
selects. `FileType` is one request's (`Subarray` for vara, `Offsets` for vars),
`IsContiguous` the shortcut; `ReqAggregation` the grouping of the requests of a wait
into interleaved groups, `MergeRequests` the sorted and merged offset-length pairs
of a group, `WaitGetput` and `Mgetput` the transfer. Left out: checks for
int overflow, requests with NC_REQ_SKIP, vard.

`MCAlgorithms` makes one initial state for each input; its properties say what must hold of the
results before the one step `Check` is taken.

## 3. The runs

Passing runs:

| run | question | instance |
|---|---|---|
| `count_default` | memory, header and collective operations with all calls; is every record written still counted? | 3 ranks, counts to 3, 2 calls ahead, zero counts, failing waits, waits name every pending put; 719 thousand states |
| `count_safe` | safe mode with bad arguments and failing header writes; is every record counted written? | 3 ranks, counts to 3, 2 calls ahead, partial waits, no zero count, no failing wait; 584 thousand states |
| `count_live` | does every call return, and with NC_SHARE, is a count published before it does? | 3 ranks, counts to 2, safe mode, bad arguments, zero counts, partial and failing waits, all calls but fill_var_rec |
| `queue_queues` | lists, buffer, transfers and record count under any posts, waits, cancels, failed I/O included | 3 pending requests of at most 2 entries, IDs to 4, buffer to 2; 101 thousand states |
| `burst_replay` | does every logged put reach the file once and in order, and do the ranks meet? | 2 ranks, 2 puts, all flushing calls; 154 thousand states |
| `burst_live` | does every flush return? | 2 ranks, 1 put; 5 thousand states |
| `table_modes` | do both layers agree, and does the API behave as one? | 3 paths, 2 slots; 20 thousand states |
| `layout_moves` | do data survive redefinitions? | 2 ranks, 3 variables, 2 records, 2 redefinitions; 5.4 million states |
| `metadata_names` | do tables, arrays, ranks and file agree? | 2 ranks, 3 names, 5 calls; 340 thousand states |
| `algorithms` | header and file views on every input of small families | 22 thousand states |

Runs that end in a violation; each is a disagreement between the code and a
sentence of a comment or a test, quoted under "findings":

| run | what TLC shows |
|---|---|
| `layout_align` | a file reopened with a larger nc_var_align_size and redefined: a later fixed-size variable gets a new begin, but `move_fixed_vars` is not called because the first one has not moved |
| `burst_redef` | a redef in independent mode leaves the driver's NC_MODE_INDEP set; the next flush is refused by ncmpio and the log is reset: the puts are lost |

Further disagreements can be seen with a configuration that is kept here and is
no run of its own:

| configuration | property | what TLC shows |
|---|---|---|
| `RecordCount_zeroreq` | CollectivesMatch | without safe mode, a rank with a bad argument leaves `put_all` (`ncmpio_getput.m4:580`) without the reduction the others wait in, though `ncmpio_wait.c:47` says it "must participate all the MPI collective calls" |
| `RecordCount_syncfault` | CollectivesMatch | in independent mode, a failed header write takes the root alone out of `ncmpi_sync` (`ncmpio_sync.c:248`) before the collective file sync |
| `RequestQueue_subset` | NumrecsCovers | a wait on a subset scans the first leads of the queue for the new number of records, not its own (`ncmpio_wait.c:952`) |
| `RequestQueue_null` | ExactlyAsked | NC_REQ_NULL in an array as long as the queue completes requests that were not named (`ncmpio_wait.c:660`) |
| `RequestQueue_unknown` | RefusedNotPending | a refused wait leaves valid requests marked; later they are called invalid (`ncmpio_wait.c:766`) |
| `RequestQueue_ioerror` | FailureReported | the error of the write is overwritten by the read's status (`ncmpio_wait.c:999`) |
| `RequestQueue_statuses` | StatusInPlace | statuses in the order of the queue, not of the array (`ncmpio_wait.c:665`) |
| `RequestQueue_varn` | RecordPerEntry | entries of a varn subrequest of several records overlap (`ncmpio_i_varn.m4:459`) |
| `BurstBuffer_mixed` | CollectivesMatch | a rank that waits for NC_PUT_REQ_ALL skips the collective wait of ncmpio that a rank with an array makes (`ncbbio_file.c:744`, `:813`) |
| `FileTable_fillrec` | ImplementsHandles | without safe mode `ncmpi_fill_var_rec` goes on after its checks failed, in define or independent mode (`variable.c:584`) |
| `FileTable_nrec` | RecVarsCounted | `ncmpi_open` never sets `nrec_vars`, which `ncmpi_inq_num_rec_vars` returns (`file.c:1386`) |
| `Algorithms_strided` | TypeExact | blocking strided access to a one-dimensional record variable: the offsets between its records are in elements, not in records (`ncmpio_filetype.c:571`) |

and with changed constants. For `RecordCount`: two ranks, `MaxRecs` and `MaxAhead` 1, `HeaderLimit` 1, everything
FALSE and `Faults` empty but for what is named; for the others, those of the passing run
(for `Layout`, of `Layout_align` with `SameHints`), without symmetry.

| module | property | constants | what TLC shows |
|---|---|---|---|
| RecordCount | ReturnedIsPublished | `Ops` {"put_all"} | without NC_SHARE a put returns on one rank before the root has written the count; `doc/README.consistency:70` says it is updated in the file before |
| RecordCount | ReturnedIsPublished | `Ops` {"fill_rec"}, `Share` TRUE | `fill_var_rec` does not sync even with NC_SHARE, against `doc/README.consistency:20` |
| RecordCount | NoPhantom | `Ops` {"put_all"}, `ZeroCount` TRUE | a put of zero records raises the number of records to its start |
| RecordCount | NoPhantom | `Ops` {"wait_all"} or {"begin_indep"}, `WaitFails` TRUE | a wait whose data write failed still raises the number of records (`ncmpio_wait.c:2183`), in collective mode in the header too |
| RecordCount | NothingLost | `Ops` {"wait_all"} or {"begin_indep"}, `PartialWaits` TRUE | a wait for a part of the pending puts writes a record its scan does not count (`ncmpio_wait.c:952`); `RequestQueue_subset` shows the scan itself |
| RecordCount | CollectivesMatch | `Ops` {"begin_indep", "sync"}, `SafeMode` TRUE, `HeaderLimit` 0 | NC_EINTOVERFLOW takes the root alone out of `ncmpi_sync`: only NC_EWRITE is passed on |
| RecordCount | CollectivesMatch | `Ops` {"fill_rec"}, `FillFails` TRUE | a rank whose write fails leaves `fill_var_rec` before the reduction (`ncmpio_fill.c:217`) |
| RecordCount | StaleHeaderReported | `Ops` {"put_all"}, `Faults` {"unreported"} | a header write that fails for another reason than NC_EFILE is reported to nobody |
| BurstBuffer | CollectivesMatch | `Ops` {"sync"}, `Faults` {"range"} | a value out of range shows up at the replay; its rank returns from `ncmpi_sync` before the driver's sync |
| BurstBuffer | CollectivesMatch | `RedefIndep` TRUE | after a redef in independent mode NC_MODE_INDEP stays set; the ranks then flush one by one and reach the driver's part at different times |
| BurstBuffer | CollectivesMatch | `Faults` {"read"} | a rank that cannot read its log leaves the rounds while the others go on |
| BurstBuffer | TypeOK | `Faults` {"read"}, CHECK_DEADLOCK FALSE | the log is reset after a failed replay; its requests stay in the put list, never ready |
| BurstBuffer | NeverAborts | `Ops` {"wait"}, `Faults` {"read"} | after a failed read of the log, a wait comes to "This should never happen" (`ncbbio_nonblocking.c:218`) and aborts |
| BurstBuffer | ImplementsLogPromise | `Ops` {"get"}, `Faults` {"read"} | the log is reset although its replay failed |
| BurstBuffer | ImplementsLogPromise | `Ops` {"redef", "sync"}, `RedefIndep` TRUE | the flag left set, a replay in collective mode waits independently, which ncmpio refuses; its puts are lost |
| FileTable | LayersAgree | `Faults` {"enddef"}, {"begin"} or {"end"} | the driver fails after it has changed its mode, the dispatcher keeps its own (`file.c:905`) |
| FileTable | ImplementsHandles | `StaleIds` TRUE | an ID that names a free slot is accepted while another file is open (`file.c:134`) |
| Layout | DataKept | `Faults` {"read"} | a failed read ends the moves half-way, with the old header in the file |
| Metadata | LookupAgrees | `Faults` {"memory"} | a rename another rank refuses has already changed the hash table (`ncmpio_dim.c:325`) |
| Metadata | NoRankLeft | `BadIds` TRUE | `ncmpi_del_att` returns on an invalid variable before the agreement (`attribute.c:386`) |
| Metadata | FillKept | none | `_FillValue` of an old variable can still be removed or come back by delete and rename, though `ncmpio_attr.m4:981` says it is only allowed in the initial define mode |

`BuffersFilled` of `MCAlgorithms` is violated by two pending gets that overlap:
the merge drops the second copy, and its part of the buffer is not filled. The comment at
`ncmpio_wait.c:1480` considers writes only.

**Bounds.** `MaxRecs`: what matters about counts is their order: each rank's own,
the header's and the new one; three ranks with counts 0 to 3 have all orders, and the
proofs cover all values. `MaxAhead` 2: calls meet pairwise, so a rank two calls
ahead already meets every pair of calls; mailboxes stay as short. `MaxPending` 3
is the least that has a request before, between and after others in a queue, so
that taking out the middle one moves both offsets and indices. `MaxNum` 2
distinguishes entries from leads, `MaxId` 4 reuses IDs after a queue empties.
`MaxBuffer` 2 lets two requests fill the buffer exactly and leave a hole in its
table when the first is taken out. Two variables, one of records, are enough for the order of begins.
`HeaderLimit` stands for the 32-bit field: above `MaxRecs` there is no overflow.
`MaxAhead`, `MaxRecs` and `MaxPending` appear in guards only.

The other modules:

* `BurstBuffer`: two ranks are the least that can disagree on rounds. Two puts in one log make
  two batches of a flush buffer of 2 cells, or a batch with a cancelled entry; a
  pool of 1 object must grow at the second. Puts of no cells are among the shapes.
* `FileTable`: two slots and three paths fill the table and reuse a slot below a used one.
* `Layout`: blocks are longer than the two chunks of a round, so that they are moved in several
  rounds, by less than their length. Sizes 1 and 2 with `Pad` 2 have a padded and an
  unpadded variable; three variables are one kind twice and the other once, one record variable
  or two; a first redefinition may be followed by another. `FreeArgs` asks for room behind header
  and fixed-size variables; records may begin aligned or not.
* `Metadata`: "a" and "b" share a hash key, the third name is `_FillValue`;
  "a" is shorter than the others, so that a rename grows or shrinks the header. Five calls define,
  delete, rename and reopen; two attributes are the least for IDs to shift.
* `Header`: all lists empty and filled, names and values with and without padding; a window
  of 52 bytes ends within items, one of 0 becomes the least the code allows; files are cut
  in the last item, the last variable and further up.
* `Aggregation`: every box and stride 1 or 2 in variables of 0 to 3 dimensions with
  sides up to 3, and every queue of one to three out of 14 requests that touch, overlap or interleave.

`MaxPuts`, `MaxVars`, `MaxAtts`, `MaxDims`, `MaxRedefs`, `MaxCalls` bound how often a call is made
and appear in guards only; `MaxFiles`, `PoolSize` and `FlushBuffer` stand for constants and hints of the code.

**Symmetry.** The ranks but the root are interchangeable: only `Root` is named in
the module. The symmetry is used in `count_default` and `count_safe`, which check no liveness. So are
the two ranks of `burst_replay` and the paths of `table_modes`. `table_modes` also has a VIEW
without `reply`, which no guard reads; the refinement is checked on every step.

**Deadlock** is checked in every run but `algorithms`, whose behaviours end after the check of
their input. A rank can always make another call, or open the
file again, so the runs show that the ranks never all wait in operations that
do not match.

**Fairness** (`FairSpec` of `RecordCount`, used by `count_live`): weak fairness of the collective
steps (MPI completes an operation all have entered), of each rank's next local
step (the library does not stop in a call), and of a rank making a
collective call that another has made (the calls are documented as collective,
so an application must make them on all ranks). No fairness is assumed of
starting new calls or of independent puts.
`FairSpec` of `BurstBuffer`, used by `burst_live`, is weak fairness of each rank's next step in a
flushing call: MPI completes an operation all have entered, and the library does not stop in a call.

## 4. What is proved

Each theorem holds for every value of the constants the module's named ASSUMEs allow:
any number of ranks, files, names and calls, any bound. A theorem that needs more
says so in its ASSUME; each such hypothesis is one a row of section 3's last table
shows to be needed (with it dropped TLC finds a counterexample), except where noted.

| module | theorem | hypotheses | conclusion: `Spec =>` |
|---|---|---|---|
| `RecordCountProofs` | `TypeCorrect` | | `[]TypeOK` |
| | `NoPhantomRecords` | no zero count in `put_all`; no failing data write of a wait | `[]NoPhantom` |
| `CollectiveProofs` | `StaleIsReported` | failed header writes reported by MPI | `[]StaleHeaderReported` |
| | `HeaderStaysCurrent` | header writes do not fail; counts fit the field | `[]HeaderCurrent` |
| | `OperationsMatch` | the same; same steps on all ranks | `[]CollectivesMatch` |
| | `CountsAgree` | the same | `[]CollectiveAgree` |
| | `RecordsAreKept` | the same; waits name every pending put | `[]NothingLost` |
| | `CountsNeverDrop` | as for `CountsAgree` | `CountsOnlyGrow` |
| `RequestQueueProofs` | `TypesCorrect` | only IDs of pending requests are passed | `[]TypeOK` |
| | `QueuesAlwaysFit` | the same | `[]QueuesFit` |
| | `BufferedDataApart` | the same | `[]BuffersDisjoint` |
| | `BufferGivenBack` | the same | `[]BufferReclaimed` |
| | `RequestsImplemented` | the same | `ImplementsRequestSet` |
| | `WholeWaitsCounted` | the same | `WholeWaitCounted` |
| | `AskedIsMoved` | the same; no NC_REQ_NULL | `[]ExactlyAsked` |
| `FileTableProofs` | `TypeCorrect` | | `[]TypeOK` |
| | `LayersStayAgreed` | no half-way failure in the driver | `[]LayersAgree` |
| | `HandlesImplemented` | the same; safe mode; no closed ID used | `ImplementsHandles` |
| `BurstBufferProofs` | `TypeCorrect` | reads of the log do not fail | `[]TypeOK` |
| | `NeverAborting` | the same | `[]NeverAborts` |
| | `OperationsMatch` | the same; values in range; redef in collective mode; waits of one form | `[]CollectivesMatch` |
| | `LogImplemented` | reads of the log do not fail; redef in collective mode | `ImplementsLogPromise` |
| `LayoutProofs` | `TypeCorrect` | | `[]TypeOK` |
| | `AssertionsHold` | | `[]AssertsHold` |
| | `OpenersAgree` | | `[]OpenAgrees` |
| | `ElementsApart` | | `[]LayoutSound` |
| | `DataIsKept` | reads of a move do not fail; fixed-size variables are aligned the same by all hints | `[]DataKept` |
| `MetadataProofs` | `TypeCorrect` | no failing malloc | `[]TypeOK` |
| | `LookupsFindTheObject` | the same | `[]LookupAgrees` |
| | `RanksStayAlike` | the same | `[]RanksAgree` |
| | `HeaderOnDisk` | the same | `[]DiskCurrent` |
| | `HeaderStaysInItsSpace` | the same | `[]HeaderFits` |

**RecordCount.** `NoPhantom` alone is not inductive: a rank adopts the result of a
reduction long after it, and gave its own count to it long before. The inductive
invariant is `NoPhantomInv == TypeOK /\ NoPhantom /\ CallsCovered`. `CallsCovered`
says of every call in progress that its result does not exceed `written`, and
that what the rank gives to the reduction does not exceed the larger of
`written` and the records of its own data. A reduction then takes the maximum
of numbers each covered, and raises `written` by the data of all, so its result
is covered. This is where a failing wait is excluded: its count is not covered by its data.

The other invariants are about several ranks in different calls. `CollectiveProofs` first
describes one rank: the steps left of its call are in the order of the source
(`Ordered`), their collective ones are the end of what `Operations` lists for the call
and the mode it was made in (`Meets`), and what is still to happen to the root's
count is a step still to come (`CallOK`, `Settled`). The lemmas `*Entry` show it of each
API, `CallsInv` keeps it. From it follow `HeaderStaysCurrent`, `StaleIsReported`: in a
sync the root writes the field before it takes over the count, elsewhere with it.

For the ranks together `HeadInv` adds one *common history* (`Heading`): a sequence of
calls with the modes between them, the collective operations left of the last one, and
the count every call ends with. Every rank stands in it where its `todo` says
(`RankMatch`), with the count the history has there (`RankValue`); all ranks waiting in an MPI
operation therefore wait in the first one left of the last call, and none can be further.
`Counted` says that the history's last count covers `written` or, in independent mode
and until the reduction that ends it, the count of some rank; it says so only if waits
name every pending put (`Within`), when what a call gives to its reduction covers its data.
That such a wait counts all its records is `WholeWaitsCounted` of `RequestQueueProofs`. The history is quantified inside the invariant, so the
model needs no history variable for it. "Same steps on all ranks" is
`SafeMode \/ ~BadArgs` and `~FillFails`: without it the ranks have no history in common, which
`RecordCount_zeroreq` and the row `FillFails` show; `Faults` and `HeaderLimit` are
shown needed by `RecordCount_syncfault` and the row with `HeaderLimit` 0.

**RequestQueue.** `QueuesFit` is not inductive: `TakeOut` moves entries by the sizes of the marked leads,
and `Release` drops whatever lead is marked. `QueueInv` adds that between calls no lead is marked,
that the IDs of a queue are distinct, of its parity and at most `max`, and of the buffer (`GoodBuffer`)
that a table entry is in use exactly if a pending lead refers to it, that no two leads refer to
one, that the data of a lead begin where the sizes of the entries before its own end, and that the last entry is
in use. The crux is a wait for a subset: `Holds` says that the entries it gathers, in the order of the application's
array, are exactly those of the leads it marks, each once, so the number of entries `TakeOut` removes is
that of the marked leads; the running sums `Place` and `Rank` then are the new offsets and indices.
`Remains` describes what is left of a queue; it is composed along the array by `RemoveEach`, the loop
of cancel.

The refinement needs what a call did, not only what it leaves: `WaitEffect` says that the owners of the entries
transferred are the leads named, each as often as it has entries, and `RemoveEach` that a cancel takes away
the named leads and no other. A put's ID is even and a get's odd, so one array for both queues cannot
name a lead of the wrong one. An array as long as a queue is only counted: `CountedAsked` is the pigeonhole argument that it
then names every lead, for which its IDs must be distinct and pending (`RequestQueue_null` shows NC_REQ_NULL breaking it).
`WholeWaitsCounted` follows the scan of the first leads: it misses none when all are asked for.
The hypothesis on IDs is the inductive invariant's: a wait that is refused leaves leads marked (`RequestQueue_unknown`), and a
later one drops these with the entries of others, which violates `QueuesFit`.

**FileTable.** The type invariant needs `Sound`: the number of open files is the
number of used slots, so that a free slot exists whenever the counter is below
the limit and `FreeSlot` is defined. `AgreeInv` adds that each path has at most one ID (`OneIdEach`),
that the two layers agree on each handle (`Agrees`) and that a file outside define
mode stands on disk as the handle knows it (`Stands`). The refinement maps the used slots to the
one-mode handles of `FileHandles` (`Opened`, `Seen`); `AbstractStep` is proved of each
call, with a lemma for entering, changing and leaving a slot.

**Metadata.** `LookupAgrees` is not inductive: a deletion moves down every ID above the
deleted one in every list of the table, which keeps lookups right only if each list holds
exactly the IDs of its key, once and in some order. `MetaInv` says so (`Sound`: `Indexed` tables,
`Distinct` names), that all ranks hold what the root holds (`Alike`), that the
header on disk is sound and current in data mode (`GoodDisk`), and that it fits
its space also between redef and enddef (`DiskFits`), since an abort goes back to it. Each call is shown to
turn the root's objects into `Sound` ones no larger in data mode; all ranks decide
alike because they hold the same. The hypothesis leaves out only a rank that
fails in malloc alone; bad IDs, arguments that differ between ranks, and safe mode on
or off are all covered.

**BurstBuffer.** `BurstInv` describes each rank by itself (`RankInv`): the put list is two halves, the
issued request objects and the free ones (`GoodList`); a request that is not ready owns valid entries, and only
in the part of the log not yet replayed (`Owns`); and the rounds left of a flush are at least the batches left
(`JobFor`). The last is the heart of it: `Rounds` is counted before the replay by one loop over the sizes of
the log, the batches are formed by two others; `RoundTaken` shows that a batch never ends before
the first round counted for it does. So the log is empty when a wait comes to its requests, and each of them
is ready. `MatchInv` adds that all ranks in a collective call have the same steps left and, by the
reduction, the same number of rounds (`SameSteps`), that the two modes of a file agree (`Modes`)
and that no replay fails (`Clean`).

The pending puts of the promise are the valid entries from `next` on. `LogInv` adds to `BurstInv` what makes a
round write just those of its batch: the sizes of the entries before one, cancelled ones included, give the place in the data
log of its own cells, and the puts of a log ascend (`Placed`); no put is in two logs
(`Apart`); and a rank that comes to the driver's part has replayed all it had, or closes in define mode
(`Drained`). Because it rests on `RoundTaken` too, nothing is left when a log is reset (`ResetAllowed`). `RoundWrites` is a round,
of one rank or of all; values out of range and waits of mixed forms are covered, for the promise needs no
common number of rounds.

**Layout.** `LaidOut` says of metadata that they are a layout: fixed-size variables one
after the other between header and records, record variables without a gap within a record.
`NcBegins` proves that `NC_begins` makes one of anything define mode may have done to an old one
(`Extends`: variables are only added), in which no section begins earlier; the crux is that a record variable
never needs its old begin, because the sum of the lengths before it (`RecLens`) does not
change (`LensPrefix`). `LayoutInv` carries this through the calls: what is in the
file's header is laid out (`SavedLaid`), in data mode it names the variables in memory
(`Written`), in define mode the old layout is kept and only extended (`OldLaid`). `Opened` shows that
an opener recovers a layout from the begins alone; two layouts of the same variables agree where it matters (`SameLayout`).
In `ElementsApart` the offset of an element determines record, place in the record and variable
(`OffsetsDiffer`). The part about the moves (`MoveInv`) gives the types. No hypothesis is needed: failed
reads, hints that change and aborted definitions are covered by these four.

`DataIsKept` follows every element through the moves. Both hypotheses are needed: with a failed read or
another `nc_var_align_size` at a later open TLC shows data lost (section 3; `layout_align`). `DataInv` adds
to `LayoutInv` that, inside enddef, each known value is `Safe`: in its new cell, which no block
still to move covers, or on its way in one of them: in its old cell, or, in the round under way, in the
buffer or the new cell according to the phase of the one rank whose chunk it is in (`OnWay`). This survives overlapping
moves because the blocks come from the end of the file down and none moves down
(`Descending`): a chunk is written where only the round under way still had data (`BeforeRound`). What the
list of blocks leaves out need not move (`MovesCarry`); there the alignment comes in: the fixed-size
variables of an old layout are already placed apart by the same unit (`Tight`), so when the first one stays, all do (`Unmoved`), which is why
the code may decide by `begin_var` alone. `InStep` says that the ranks read together, then write together, and `Filled`
that the shares of the ranks cover a new variable (`ShareCovers`).

**Induction over data.** The library's induction theorems take an operator as a
parameter, which the installed provers cannot instantiate. `LoopLemmas` takes the way round:
`LeastNat` (a set of numbers that is not empty has a least member) gives induction by the
least counterexample; `Iterate` and `LoopInduction` derive from it what a recursive
*function* over rounds computes. `HdrLen`, `TableOf`, `Place`, `RecLens`, `FixedMoves`, `Sums` (`Used`, `Begins`), `EntriesOf` and `RemoveEach` are such loops. Out of reach remain
RECURSIVE operators (`Header`, type maps of `Aggregation`) and the folds and
selections of the community modules (`FoldLeft`, `SelectSeq`, `FlattenSeq`), which the
provers cannot unfold.

**Only model-checked:** `ReturnedIsPublished` of `RecordCount` (true with NC_SHARE and without
fill_var_rec only; its proof would follow which ranks' dirty bits are set at which barrier);
`Header` and `Aggregation`;
liveness (`CallReturns`, `FlushEnds`; liveness and ENABLED are beyond the prover).

## 5. Running it

    tlc -workers 2 -config RecordCount_default.cfg MCRecordCount
    tlc -workers 2 -config Layout_moves.cfg MCLayout
    tlapm RecordCountProofs.tla      # and the other *Proofs, LoopLemmas

A run's module and configuration are in PROJECT.json; the other configurations
belong to the module their name begins with (`Algorithms_*` to `MCAlgorithms`).

## 6. Plan

Modelled: all modules of section 2. In the order of importance, what is left:

1. A theorem: `ReturnedIsPublished` of `RecordCount` with NC_SHARE.
2. `WaitAllRanks`: queues of several ranks composed with the vote of `req_commit`: a rank's
   error and what the others' requests become (`ncmpio_wait.c:977`).
3. The mapping of the burst buffer's logs into one shared file; its direct writes.

## 7. What is not modelled, and why

* Subfiling (off by default), the HDF5 and example drivers (they forward calls),
  bindings (generated wrappers), utilities, benchmarks and examples: together most
  of the repository's lines, with no protocol of their own.
* Values of data and attributes, conversions of numbers (generated, without state); MPI's own implementation.
* Hints, inquiries, striping, the size limits of the formats, overflow of ints in offsets.
* In the burst buffer, failures of writing the log, put_vard and fill_var_rec, which write
  past the log: an older logged put may later overwrite what they wrote (`ncbbio_file.c:874`, `ncbbio_var.c:578`),
  and no document says which order is meant.
* Without safe mode the root returns a read error of the header while the others go on
  broadcasting (`ncmpio_header_get.c:388`): `Header` is the parser of one process.
* `ncmpi_create` and vard puts in `RecordCount`, whose effect on the count is that of enddef and
  put.
* Threads: the lock on the file table is optional and guards only that table.
