# yclib: a verification of its servers in TLA+

yclib is a C library for servers on one epoll loop (`src/lib_src`), and the programs
built with it (`src/src`): the TRS, to which set-top boxes and phones talk, the FOSS,
which tells them which TRS to talk to and keeps the pairs of phones and boxes in a
database, a log server, a streaming server, and programs that the top-level build leaves
out. The repository has no documentation and no tests; everything here is read from the
code.

* [The system](#the-system)
* [The modules](#the-modules)
* [How the modules correspond to the code](#how-the-modules-correspond-to-the-code)
* [What the runs show](#what-the-runs-show)
* [What is proved](#what-is-proved)
* [What is not modelled](#what-is-not-modelled)
* [The plan](#the-plan)

## The system

| component | state it keeps | operations | what is hard | what makes it correct |
|---|---|---|---|---|
| TRS service, `trs.c`, `event.c` | trees of boxes and phones, the binding (`phone->stb`, `stb->phones`), per box the waiting command, the held poll (`trs->stbs`, `trs->hconns`, `screenctx`, `timer`) | one `dispatch_cb` branch per uri; callbacks of timers, of the FOSS and of the database | a poll is kept for 20 s with a bare pointer to its connection; four code paths end it | one answer per request, never to a freed connection; the tables of a poll agree; one box per phone |
| HTTP connections, `rns_http.c` | `phase`, `destroy`, `write`, `tasks`, `read_info`, `buf`, timer | `read_func`, `write_func`, `rns_hconn_resp2`, `rns_hconn_destroy` | edge-triggered events, nested calls, destruction put off | an answer is written; nothing of one request reaches the next; no use after free; bodies arrive whole |
| HTTP client pool, `rns_http.c` | idle connections to a server, their callbacks | `rns_hconn_get`, `req2`, `req_done`, `free` | late answers, reuse | an answer goes to the request it belongs to |
| event loop, `rns_epoll.c` | timer tree, epoll set | `rns_epoll_wait`, `rns_timer_*` | timers run only in idle turns; events of one batch | a timer belongs to who set it; due timers run |
| FOSS, `foss.c` | TRS registry in two trees, contexts of queries | `dispatch_cb` branches, MySQL callbacks, `trs_login` | chained queries on two connections, answers before inserts, failing callbacks | one answer per request; a box has one TRS; the pool is kept; a living TRS stays known |
| MySQL, `rns_mysql.c`, `rns_dbpool.c` | list of connections, state of each query | `rns_dbpool_get`, `free`, `rns_mysql_query` and its continuations | failures that look like empty results | a connection carries one query; a query ends once, read to its end |
| screen data, `stbMgr.c`, `phoneMgr.c`, `screenMgr.c` | boxes, phones, histories, marks | constructors from JSON and rows, statements | the same field under four lists of names | what is read back is what was stored |
| memory pool, `rns_mpool.c` | ring of free blocks | init, alloc, free | boundaries of the list | no block twice, none lost |
| trees, lists, `rns_rbt.c`, `list_head.h` | nodes | insert, delete, search, walk | rotations, equal keys | order of keys, then of insertion |
| logs and files, `rns_log.c`, `rns_pipe.c`, `logserver.c`, `rns_fmgr.c` | pipe, open files, journal | write, rotate, load | partial writes, crashes | no lost or torn line; what was recorded is found again |
| RTMP, `rns_rtmp.c` | nodes, streams, publishers, players, chunk state, queues | handshake, commands, media | partial chunks, links between four kinds of objects, who writes what is queued | both ends stay in step; a player gets what it can decode |
| streaming, `yms.c`, `yms_live.c`, `yms_channel.c` | channels, blocks, gops, files | fetch, store, serve; keep-alive to the OCS | downloads that overlap, parts that end within a packet, a limited number of blocks | what is served and recorded is the stream |
| media formats, `ts.c`, `hls.c` | none across calls | tables, clocks, lists | bytes | read as written |
| information formats, `rns_xml.c`, `rns_json.c` | a tree | parse, search | texts in pieces | what is found is what was written |
| locks, thread pool; ffmpeg helpers; `fts`, `rtl`; toolkit; vendored headers | | | | not modelled, see below |

A request reaches a service through an HTTP connection (`cb.work` calls `dispatch_cb`);
the service answers with `rns_hconn_resp2` in the same call or in a later callback,
keeping the connection's address in a context meanwhile. TRS and FOSS talk to each other
over HTTP, and both ask a MySQL server through a pool of connections. Everything runs on
one thread and one loop, so that interleaving happens between callbacks, and an action
of a module is one callback (one system call where another party can act between two of
them: `HttpConn`, `HttpClient`, `FileMgr`, `LogPipe`).

## The modules

| module | models | proofs |
|---|---|---|
| `TrsScreen` | held polls, commands, bind and unbind of the TRS | `TrsScreenProofs` |
| `TrsStart` | the start of a TRS: the load of its boxes and phones; memory against the table | `EventLoopProofs` |
| `TrsQuery` | the database requests of the TRS: trees of queries that share a count | `TrsQueryProofs` |
| `Records` | the fields of histories, marks, boxes and commands from a request to an answer | |
| `Foss` | the TRS registry and the database requests of the FOSS | `FossProofs` |
| `Login` | how a TRS stays known to the FOSS, and the FOSS to the OCS, over time | `TransportProofs` |
| `ConnLife` | what `rns_http.c` promises of one server connection (abstract) | |
| `HttpConn` | one server connection, cut at its system calls; implements `ConnLife` | `TransportProofs` |
| `HttpParse` | the parser of messages over reads of any size | |
| `HttpWrite` | the tasks of an answer over partial sends | `TransportProofs` |
| `Request` | what the client side promises to who sends a request (abstract) | |
| `HttpClient` | the pool of client connections; each request implements `Request` | `HttpClientProofs` |
| `EventLoop` | `rns_epoll_wait`, the timer tree, batches of events and their handlers | `EventLoopProofs` |
| `MySql` | the non-blocking calls of a connection, the filling of the pool | `TransportProofs` |
| `MPool` | the ring of free blocks | `MPoolProofs` |
| `KeyOrder` | what a tree promises (abstract) | |
| `RbTree` | red-black trees; implements `KeyOrder` | |
| `FileMgr` | the journal of recordings, across crashes | `MPoolProofs` |
| `LogPipe` | the log over its pipe, which the loop reads on edges | `EventLoopProofs` |
| `LogServer` | the files of the log server | |
| `Amf`, `RtmpChunk`, `RtmpSend`, `RtmpDialog` | values, chunks read, chunks written, handshake and commands | |
| `RtmpSession` | nodes, streams, publishers and players, and the media that passes them | `RtmpProofs` |
| `RtmpFlush` | who writes the messages that were queued | `RtmpProofs` |
| `LiveStore` | a live channel: fetched, stored in blocks and files, served | |
| `Media`, `Xml` | transport stream tables and lists; trees of XML | |

The modules `MC...` make instances for TLC. Some extend one module; six of them put
modules that share nothing side by side (`MCDatabase`, `MCTransport`, `MCRtmpWire`,
`MCRtmpRelay`, `MCPrograms`, `MCLibrary`): a variable `part` is chosen at the start,
only the variables of that part move, and a property of the run is the conjunction of
those of the parts.

`ConnLife` ties two layers together: `HttpConn` refines it (with `Life` read off
`alive`, `phase`, `tasks` and the handler calls not answered yet), and each connection
of `TrsScreen` takes only the steps it allows (`TrsScreen!LivesAsPromised`, a theorem).
What `TrsScreen` assumes of its connections is then what `rns_http.c` does. `Request`
does the same for the client side. `Foss` and `TrsQuery` take a query to be what `MySql`
shows of one: rows, then one end or one error, and behind an error perhaps the same
error callback once more, when the server closes the connection later.

## How the modules correspond to the code

Every definition that models code stands in `PROJECT.json` under `map` with its lines.
This section says what the variables stand for, what is abstracted, and what the code
does that a reader of the models may not expect.

### The TRS

**TrsScreen.** `conn` is the state of an `rns_hconn_t` as the service sees it, `gone`
its `destroy` field, `left` its timer. `reg` stands for the two trees `trs->stbs` and
`trs->hconns`, which hold the same `stb_conn_t` objects; `ctx` is the connection in
`stb->screenctx`, `wake` is `stb->timer`, `sinfo` and `phones` are fields of the box,
`stbOf` is `phone->stb`. `bind` holds the contexts of requests sent to the FOSS. `Init`
is the state after `stb_fetch_done`: any binding, nothing held. A request and the
handler's answer are one action, as they are one call of `read_func`; `Flush` and
`FlushFails` are the later end of the write. `stray` records answers sent to a
connection that has no request outstanding.

**TrsStart.** The steps of `main` up to listening, the two queries that load boxes and
phones, and the table as binds and unbinds make it meanwhile. The TRS listens while
phones are still loading, so that a phone bound then gets a second object; a query that
fails at the start leaves the process running and never listening (`"stuck"`); one that
is cut off silently looks complete. `strays` are the phones for which memory and table
differ until the next start: requests that overlapped and were answered in another
order, an error answered after the write, an answer that was lost, a bind at another
TRS.

**TrsQuery.** `free` and `query` are the pool, as in `Foss`; `ctx` is `*n`, the count in
the context that the queries of one request share, `None` once `rns_ctx_destroy` was
called. The requests for a list are trees: `/third/playhistory/get` and
`/third/marks/get` go from the boxes of a user to their phones and the rows of each
(`"boxes"`, `"phones"`, `"items"`), `/stb/playhistory/get` and `/stb/marks/get` from the
boxes to their rows (`"users"`, `"hist"`). The two requests of a pair have twin
functions with the same control, so that one action stands for both and the map names
one of them. A query is `sent`, gives `rows`, and ends; a query that `rns_mysql_query`
could not start and whose connection nobody returns is `lost`.

The code gives up in places: an empty pool, a query that cannot be started, a failing
query in a tree of `/stb`, an unreachable CMS, a `/stb/switchuser` for another user. The
client is then not answered, or its context is destroyed while other queries hold it.
Such a client is `spoiled`; when memory is used after it was freed, or a second query is
started on a connection that carries one, the state is `undefined` and only a restart
follows.

A query that fails leaves its callbacks in `mysql->qcb` and the state `QUERY`
(`rns_mysql.c:157`): `stale` is what is left behind on a connection, until a query is
started on it. When the server closes such a connection at rest, the error callback runs
a second time (`Closed`): `get_error` with a context that it destroyed before
(`AgainFreed`), `third_error` with a context that may be gone, or else with a count that
it takes one off once too often (`AgainCounted`), `error_func` with a client that may have
gone, or is answered again (`AgainAnswered`). `again` records that this happened. A
query that `rns_mysql_query` could not start does set its callbacks, but its state is
`QUERY` only if it was so before; a close then calls a callback of a request that was
given up, which the model has as one of those that were left behind.

The properties say what the code keeps besides: `Counted`, `Owned` and `PoolKept` of all
other clients, `ThirdPinned` of all trees of `/third` until a callback is called again,
`StaysDefined` that nothing becomes undefined without a spoiled client or a callback
called again, and `AloneDefined` that without the requests of `/stb` the second of these
is the only way.

**Records.** A value is the name of the field it was said in, with the version of the
request, so that a value in a wrong place shows. Each kind of record goes through four
lists of names: the fields of the request, the columns of the insert, the columns of the
select with the arguments of the constructor, and the fields of the answer. `asked`
remembers what the request said. The properties name the places where the lists do not
meet: `/stb/playhistory/get` parses histories with the parser of marks (`event.c`, from
989), so that `totaltime` and `serial` show `playsecond` and `totaltime`;
`phone_playhistory_create` takes `phoneid` from the field `mobile` (`phoneMgr.c:54`), so
that the number of a phone is shown as its id; the `title` of a box's history is never
stored; texts that are NULL are stored as `"(null)"`; the FOSS
sets the stored volume to 0 at each bind.

### The FOSS

**Foss.** `number` is the key of a TRS in `ntrsmgr`, and being a number at all means
being in both trees. `open` and `free` are the pool, `query` the connection's `qcb` and
the context in it. A query is `sent`, then run by the database (`Run`), then its row and
its end are delivered to `work` and `done`. A failure is noticed (`Fails`: the `error`
callback) or not (`Silent`: `rns_mysql_query` takes only a negative result for an error,
and a row that cannot be fetched is taken for the end). The register query's `error`
field is never assigned, so that after a failing insert its connection is `lost` in the
best case; a connection is also lost in `stb_get_work` when the second query cannot be
started. `stale` are the connections whose last query failed, as in `TrsQuery`: when the
server closes one of them, `error_func` runs again with the context it destroyed
(`Again`, `undefined`). `home` and `link` are the tables `foss` and `phone` with their
unique keys (`replace into` in `stbMgr.c` and `phoneMgr.c` needs them); `told` remembers
the answers to GetServer, `spoiled` the boxes whose row the database failed to give or
take, and `raced` those for which a second lookup ran before the insert of the first:
one that found no row and is not answered yet, or whose insert has not run (`Unplaced`).
Such a box may be told two servers. The window between the answer and the insert alone
does no harm: a request made in it, whose lookup runs behind the insert, is told the
same server, and `BoxSettled` says so.

**Login.** `next` is the timer of a serving TRS, `age` how long its login has been under
way, `left` the timer of its entry, `heard` the servers the FOSS has heard of since both
started. A keep-alive that fails returns before `rns_timer_delay`, so that the timer
runs again at once: the model's timer stays due. `Timing` is what the promise needs:
`Timeout` outlasts the login after a start, and `Losses + 1` intervals with their
lateness and delay. With the 20 s and 120 s of the programs four logins in a row may be
lost.

### Connections

**HttpConn.** `gate` is `hconn->write`, `got` the progress of `read_info`, `owes` the
calls of the handler that it has not answered, `tasks` the list. A request is two
segments, so that a read may end inside one. `pc` says where the single thread is;
`back` where a nested `write_func` returns to, because `read_func` and `rns_hconn_resp2`
call it. `evIn` and `evOut` are the edges epoll has to report; `Wakeup` drops an
`EPOLLOUT` that comes with an `EPOLLIN`, as `rns_epoll_wait` does. A partly sent buffer
is put back at the head of the list; the model sends a buffer in one piece once there is
room.

**HttpParse.** A message is a sequence of atoms: the text of a line, CR, LF, the digits
of a chunk size, a byte of the body. `wpos` and `un` are the buffer, `state` to `curr`
the fields of `read_info`; a case of the parser's switch is an action. A message that
exactly fills the buffer makes `recv` ask for 0 bytes and is taken for a close; an empty
line that comes in another read than the header before it is taken for an empty header
(`cut`); a full buffer in chunked mode discards bytes. The properties say what holds for
messages that fit.

**HttpWrite.** `tasks` with what is left of each, `promised` and `wire` for the bytes,
by the part of the answer they belong to (`Count` counts those of one part);
`fp` for the file of each answer. Destroying a connection with tasks leaks its open
files (`"leaked"`); a file that is shorter than was announced ends its answer as done.

**HttpClient.** `pool` is `http->hconns`, `cb` the request whose callbacks a connection
holds, `got` an answer that was read before `recv` met EAGAIN, `cur` the connection
whose `read_func` runs. A connection goes back to the pool at EAGAIN, and its callbacks
stay set. After an answer with `Connection: close`, `read_func` goes on with the freed
connection when EAGAIN follows (`undefined`). `AnswerMatches` says that an answer goes
to its request all the same.

**EventLoop.** `timers` is the tree `ep->t` from first to last, with the owner of each;
`batch` what is left of the events that `epoll_wait` returned; `run` what the running
callback has still to do. Times are counted down to 0. An event in the batch for a
connection that a callback before it has freed is delivered to freed memory
(`undefined`, with `cut`); `StaleOnlyInBatch` says that this is the only way.

**MySql.** `state` and `wait` are the fields of `rns_mysql_t`, `query` the one whose
callbacks `qcb` holds, `wire` the packets of the server. `rns_mysql_init` sets
`ecb.read` twice and `ecb.write` never (`rns_mysql.c:285`), so that a connection that
waits for room to write is not continued; the error path leaves the state `QUERY`, so
that a server that closes later has the callback of the ended query run again (`again`);
what comes of that is in `Foss` and `TrsQuery`. A pool whose connection fails is never
reported ready.

### The library

**MPool.** `next` and `prev` are the pointers of the ring through the head (0); a block
that is given out has null pointers. One block always stays in the pool
(`rns_mpool_alloc` refuses the last).

**RbTree.** The record `tree` holds the pointers of all nodes; the loops of the C code
are recursive operators. Equal keys go to the right. `KeyOrder` is a sequence in order
of keys, then of insertion, and `rbt_delete` answers the node behind.

**FileMgr.** `journal` is the file, field by field, `root` the tree. `rns_fmgr_add`
makes three writes; a crash between them leaves a torn record that costs all behind it
when the journal is loaded (`Durable`, `OnlyTorn`). A deletion never touches the
journal, so that what was deleted comes back.

**LogPipe, LogServer.** A cell of the pipe is a size or a unit of a line. A size whose
text could not be written leaves the reader out of step until the pipe is empty
(`torn`), as `do_log` takes what comes next for a size. The log file takes a line, a
part of it, or nothing; when it takes nothing (a full disk), `do_log` returns with the
edge used up and lines in the pipe (`failed`), which wait until the next line that is
logged makes an edge. A line is not empty and fits the pipe (`Bounds`). The log server
stores and answers each part of a body; a file that is renamed twice in a second
overwrites the first (`clash`).

### RTMP

**Amf, RtmpChunk, RtmpSend.** `Amf` has the bytes of values: a command is parsed from
the beginning of `cbuf` at every chunk, so that each prefix is read. In `RtmpChunk` a
byte is `<<chunk, field, index>>`, so that the model sees when the parser takes a byte
for something else; `harm` names what the parser does not provide for (one `cbuf` for
all chunk streams, extended timestamps with format 3, messages of two streams
interleaved, a message cut by recv where it cannot wait), and the properties say what
holds without it. Both sides have the size of the peer's chunks (`outsize`,
`ichunksize`), which its Set Chunk Size changes.

A command waits for the rest of its bytes only between two of its values: one that came
without its whole name (`rns_rtmp.c:3019`), or is cut in its transaction id (1715) or in
another value, is taken as far as it has come, and the rest of the chunk is read as a
header. The same happens where chunks end within a value. `Breaks` are the places at
which a command may be cut; the model's command has those of `createStream`,
`_checkbw`, `releaseStream` and `FCPublish`. Some commands and the data messages have
fewer: a `publish` or `play` that is cut behind its NULL is not kept either, and a
`play` cut in the name of its stream is answered as one of a name that does not exist.

`RtmpSend` has the headers that are written, the buffers of answers (`freed`), and a
reader that follows the protocol. `rconn->chunkstreams` also keeps the headers of the
incoming side (`rns_rtmp.c:3449`); the model is of a connection that does not write media
on a chunk stream on which it reads them.

**RtmpDialog.** Values are pairs of kind and content. What is not understood stays in
front of the next command. A connect to another app than the first is answered `_error`
with the code of success; each property that begins with `app` is answered; the types
`append` and `record` of a publish are swapped.

**RtmpSession.** `conn[c].net` is the stream id that `createStream` gave, `on` the
stream that a player is linked to, `stream` holds a name, a publisher's id, the list of
players, metadata, the messages kept (`head`, `last`, `kinds`); `got` is what was queued
for a player since its play. Paths on which the code follows NULL or a foreign pointer
(a play before metadata, a publish of a name that another owns, a `deleteStream` of a
published stream) set `undefined`, behind which nothing is said.

**RtmpFlush.** `queued` are the connections with tasks, `waiting` is `rtmp->rconns`.
Only behind a publisher that left in the same read as its last messages (`cut`) may
queued messages be left lying.

### Streaming

**LiveStore.** A packet is `Packet` units, a block `Block`, so that a packet lies across
blocks. `flights` are downloads that may overlap (`late`): `recv_ts` is called per part
of a body and starts the next download each time. `ch` is the store: blocks, gops,
files, offsets. Parts of a body end where recv ended: `recv_ts` walks each part by 188
bytes from its beginning and keeps nothing for the next one, so that a part that ends
within a packet (`ragged`) spoils what follows of the body: `Packets` takes it for
packets of any kind in `Strays`. The model is of a channel that has a source:
`yms_live.c:709` allocates `surl` and does not fill it, so that `yms_channel_start`
fails for every channel as the code stands.

**Media, Xml.** Bytes are numbers modulo a small word where arithmetic matters. `Media`
checks that tables, clocks and lists are read as they were written, with the exceptions
that the code has (length of a PAT in 8 bits, the top bit of a clock). `Xml` builds the
tree of expat's events and checks that each element and text is found by its path,
except a text that does not fit its first buffer with its end (one that just fills it
has no end, so that what lies behind is read with it: `AsText`), and blanks at the end of
a piece.

## What the runs show

Twelve runs. A property with parts is the conjunction of the named properties of the
modules, which carry the comments.

| run | question | properties | bounds |
|---|---|---|---|
| `screen_hold` | is a poll answered once, on its connection, in time? | `HeldSafe` (types, `HeldTables`, `HeldPinned`), `AnswerSafe` (`FossPinned`, `OneAnswer`) | 2 boxes, 1 phone, 3 connections, hold 1 and expiry 2 ticks, one tick late, 1 FOSS request |
| `screen_late` | is the binding one relation, and do connections live as promised, with late and reordered answers of the FOSS? | `BoundOnce`, `LivesAsPromised` | 2 boxes, 2 phones, 1 connection, 2 FOSS requests |
| `screen_live` | does every hold end, is every left connection freed? | `Ends` (`HoldEnds`, `GoneFreed`) | 1 box, 1 phone, 2 connections |
| `foss_safety` | are the pool and the clients kept, and is a box told one TRS, under overlapping requests, failures, closed connections and restarts? | `PoolSound` (types, `PoolKept`), `OneOwner`, `BoxSettled`, `Settles` | 2 TRSs, 2 boxes, 1 phone, 2 clients, 2 connections, counts up to 1 |
| `trs_query` | do the trees count right, answer at the end, and return their connections, also when an error callback runs again? | `TreesSound` (types, `Counted`, `ThirdPinned`, `Owned`), `PoolKept`, `StaysDefined` | 2 clients, 3 connections, 2 rows per query, 1 request to the CMS |
| `database_live` | is every request answered, and does every connection come back? | `trees`: `Answered`; `foss`: `Served` (`Answered`, `ComesBack`) | 2 clients, 2 connections, 2 rows per query, 1 request to the CMS; 1 TRS, 1 box, 1 phone |
| `transport` | what lies under a request | `conn`: `RequestsApart` (types, `CleanWhenIdle`, `NoUseAfterFree`, `OneAnswerEach`), `LivesAsPromised` (implements `ConnLife`); `parse`: `BodiesWhole` (`Delivered`, `InOrder`); `write`: `AnswersWhole` (`InOrder`, `EndsWritten`, `FilesClosed`); `db`: `QueriesSound` (`Lent`, `ReadToTheEnd`, `AllGiven`, `ToldOnce`); `login`: `StaysKnown`; `conn`, `loop`, `db`, `login`: `EndsInTime` (`AnswerWritten`, `LoopTurns`, `DueRuns`, `QueriesEnd`, `PoolFills`, `Forgotten`) | 1 request under way of 2 segments; bodies of 0, 2, 19, 22 units and 2 chunkings in a buffer of 27, 2 messages; 2 answers of lengths 1 and 2; 1 connection and 1 link on the loop; 2 MySQL connections, 2 rows, 2 failures; 1 TRS, interval 2, timeout 12, 4 lost logins |
| `http_client` | does an answer reach its request? | `PoolSafe` (types, `AnswerMatches`, `PoolSound`, `NoneForgotten`), `LivesAsPromised` (implements `Request`), `Settled` | 2 connections, 3 requests, of which two have error callbacks and one frees its connection |
| `programs` | whose is a timer; does a TRS know what the table says; is a log line written whole, and soon; are streams read as written? | `loop`: `TimersOwned` (types, `OwnTimers`, `NoStrayId`, `StaleOnlyInBatch`); `pipe`: `PipeSound` (types, `InStep`, `NoneForgotten`); `start`: `StartSound` (types, `MemoryAgrees`); `media`: `StreamsKept` | 2 connections, 2 links, 2 descriptors, 4 ids; 6 cells, 5 lines of 1, 2 and 4 units; 3 boxes, of which 2 are its own, 1 phone, 2 requests, 1 failure; 4 packets, 5 lines |
| `rtmp_wire` | do both ends of the wire agree? | `send`: `ChunksDecode`; `recv`: `ChunksRead` (`InStep`, `HeaderKept`, `Delivered`, `NothingKept`); `amf`: `ValuesRead`; `dialog`: `DialogSound` | 7 messages of lengths 1 and 4; 3 chunks of 2 or 3 bytes, 2 channels, messages of 3 bytes of 4 kinds; chunks up to 3 bytes; 3 and 4 commands |
| `rtmp_relay` | does a player get what it can decode of the stream it asked for, and is all that was queued written? | `session`, `play`: `ListsAgree` (types, `Linked`, `OwnMedia`), `Playable`; `flush`: `Flushed` (`NoneStuck`, `NoneFreed`) | 3 connections, 2 streams, 2 names; 2 connections, 1 stream, 3 kinds of messages, 4 messages |
| `library` | the structures and stores under the servers | `pool`: `BlocksKept` (`RingKept`, `RefusesLast`); `tree`, `xml`: `TreeSound`; `tree`: `KeepsOrder` (implements `KeyOrder`); `journal`, `logs`, `channel`, `records`: `StoresKept` | 6 blocks; 8 nodes, each two of equal key; 10 fields, 2 starts; 3 clients, 2 paths, 1 crash; 7 events, texts of up to 4 letters in a buffer of 3; 4 fragments of 5 packets in parts of 3, 10 blocks, 1 part that ends within a packet or 1 failure |

Why the bounds are enough. The hold tables of two boxes can disagree only through a
connection they share or a phone that moves, for which two boxes, one phone and three
connections (poller, second poller, commander) suffice; the timers matter by their
order, for which hold 1 < expiry 2 and one tick of lateness give every order. Overlap of
binds needs two requests and two boxes. One connection is independent of the others in
`rns_http.c`, apart from the batch of events, for which `EventLoop` has two. The FOSS
takes at most two MySQL connections for a request, so that two clients and two
connections run the pool dry in every position. `MaxNumber` only caps the counts;
servers with equal counts are chosen in any order. In `TrsQuery` three connections hold
a box, a phone of it and a row query at once, or the trees of two clients, and still run
out; two rows give a query that starts two others. Bodies of 19 and 22 units begin in
one buffer and end in the next, or fill it; chunks of 3 bytes cut each field of a value
in every place. Eight nodes let a red-black tree take every case of its rebalancing.
Three connections give a publisher, a player and one that takes the place of either. The
theorems below lift the bounds for most of the safety properties.

The bounds that cap what the code does not: `MaxLate` (how late a timer runs),
`MaxFlight`, `MaxFlights`, `MaxReqs` (requests under way), `MaxNumber`, `MaxRows`,
`MaxCms`, `MaxFails`, `MaxCrash`, `MaxStarts`, `MaxMsgs`, `MaxSaid`, `MaxChunks`,
`MaxEvents`, `MaxAnswers`, `MaxFiles`, `MaxChunk`, `MaxLines`, `MaxPackets`, `MaxStep`,
`MaxFields`, `MaxTime`, `MaxIndex`, `MaxBacklog`, `MaxDelay`, the one kind of `Strays`
that a part has in wrong places, and `Unharmed` in `rtmp_wire`, which ends a behaviour
behind something that headers cannot tell.

### Fairness

* `TrsScreen!FairSpec`: time passes and the loop runs a due timer, at most `MaxLate`
  late. Nothing is assumed of clients, the FOSS, or the sockets. `rns_epoll_wait` runs
  timers only in a turn without events, so this holds for a server that is not kept busy
  without pause.
* `HttpConn`: the loop goes on with what it is at and takes the edges that epoll reports
  (`Running`), and the peer reads what it is sent (`Drain`).
* `EventLoop`: the loop runs (`Loop`), time passes (`Tick`), and `rns_hconn_get` of the
  keep-alive does not fail for ever while descriptors are left (`KeepAlive`).
* `MySql`: the loop takes events, and the server answers; `Foss`, `TrsQuery`: the
  database ends every query, in success or failure, and the loop runs the callbacks.
* `Login`: time passes and both programs run their timers.
* `HttpClient`: the loop runs what epoll reports, and the server answers what it has.

`CHECK_DEADLOCK FALSE` stands where a behaviour may end: all requests of a run were made
(`http_client`), a bounded history is over (`library`, `programs`, `rtmp_wire`), or an
undefined pointer was used or the start was given up (`rtmp_relay`).

### Limits that the runs make visible

* `Window = 1` in `HttpConn`: the clients wait for each answer. With two requests under
  way `CleanWhenIdle`, `NoUseAfterFree` and `OneAnswerEach` fail: `read_func` parses
  what is left in the buffer as a new request before the first is answered, and the
  answers share one `phase` and one `write` flag.
* `LateFoss = FALSE` in `screen_hold`: a FOSS that answers after the client's connection
  expired makes `foss_bind_resp` use a freed `rns_hconn_t`.
* Two lookups of an unknown box that both run before an insert (`raced`) may tell it two
  servers, since each is placed by itself; the second insert then fails, and its
  connection is lost. Once a row is stored and no lookup from before goes on, nobody is
  told anything else (`Settles`).
* A box whose row the database failed to read is placed anew (`spoiled`).
* The second call of an error callback uses freed memory in most cases. Nothing is said
  of what follows it (`undefined`), and `ThirdPinned` says nothing behind any second
  call (`again`).
* When the log file takes nothing of a line, `do_log` ends and leaves the rest of the pipe
  to the next line that is logged (`failed`); on a server that logs nothing more it stays
  there.
* A read that ends in a header, or in a value of a command, leaves the reader of RTMP out
  of step (`harm`); a part of a body that ends within a packet spoils the stream of a
  channel (`ragged`).
* The variables `undefined`, `again`, `raced`, `harm`, `torn`, `failed`, `late`,
  `ragged`, `strays`, `spoiled`, `cut` of the modules mark behaviours on which the code
  gives up what the property promises; each is set by the code path named in its comment
  and by nothing else.

## What is proved

The theorems hold for every value of the constants that satisfies the named assumptions
of the modules, which TLC evaluates in every run (`NoneAssumption`: NULL is none of the
objects; `NamesAssumption`: connections, links and ids are apart, and finitely many;
`TimeAssumption`, `TimesAssumption`, `BoundAssumption`, `LoginTiming`: the order of the
times; `MysqlsAssumption`: the pool is finite; `WriterBounds`: answers have lengths;
`StartBounds`: a TRS's own boxes are boxes; `PipeBounds`: lines are not empty and fit
the pipe; `ReqsAssumption`: the requests with callbacks are requests; `NumAssumption`,
`NAssumption`: natural numbers).

**`TrsScreenProofs`**, for any boxes, phones, connections, commands, hold time shorter
than the expiry time, and lateness:

* `HeldTheorem` and `AnswerTheorem`: `HeldSafe` and `AnswerSafe`, under `~LateFoss`. The
  invariant `HoldIInv` adds to them that a connection in a table or a FOSS context is
  busy and that these owners exclude each other: without it, an answer sent by one owner
  could go to a connection that another still keeps. The step that needs time is
  `Secure`: the expiry timer runs only as the first of the tree, and the hold of a poll
  is due before it.
* `BoundSafe`: `BoundOnce`, with late and reordered FOSS answers; it is inductive with
  the type invariant.
* `LifeKept`: every connection takes only steps of `ConnLife`.

**`FossProofs`**, for any servers, boxes, phones, clients and connections:

* `PoolSafe`: `PoolSound`, inductive with `Shape`: which fields a query has, by its
  callback, and that only a query that ran has a row. A step changes the pool in one of
  four ways (a lemma each): a connection comes back, goes on with another query, is
  taken, or is taken while another comes back or goes on.
* `OwnerSafe`: `OneOwner`. The invariant `OwnInv` states it of the function `Owner`
  (`Single`: it is injective where it is not `None`, and its range is the set of waiting
  clients) and adds `PoolInv`: a query that is taken from the pool owns nobody, so that
  passing a client on to it forgets no other client. Like `PoolSafe` it holds until an
  error callback is called a second time (`Again`), which is a step like any other.
* `SettledSafe`: `BoxSettled`, with overlapping requests and those that come between the
  answer and the insert. A query is `Loose` for a box when it found no row and goes on,
  or is the insert that this caused. The invariant says of a box that was neither raced
  for nor failed by the database (`SettledAt`): at most one query is loose for it, and
  then no row is stored; what was told is what the row says, or what the one insert on
  its way will say. That a lookup in the window does no harm is the case that it runs
  behind the insert (`RunSettled`): it finds the row, and `RowsHome` carries this to its
  answer. Each failure spoils its own box only (`Passes`).
* `SettlesSafe`: `Settles`, about the boxes that `BoxSettled` leaves out: step by step
  from the same invariant.

**`TrsQueryProofs`**, for any clients, any finite pool and any number of rows, proves
all safety properties of `TrsQuery`: `TreesSafe` (`TreesSound`), `PoolSafe`
(`PoolKept`), `DefinedSafe` (`StaysDefined`), and `AloneSafe` (`AloneDefined`: where the
CMS sends nothing, an error callback that is called again is the only way to freed
memory; no run has this as a property, since the one instance has the CMS). They share
the invariant `IInv`. `TreeInv` says of each client's tree what is counted; `ThirdInv` is
the part that `ThirdPinned` needs and `Counted` does not give: a tree of `/third` that
was spoiled counts too many queries but never too few, until a callback is called again,
because only its own queries, never those of a tree of `/stb`, refer to its context.
`LeftInv` says of the callbacks that failed queries left behind that one which still
names a client holds a context that is there (`Held`). `PoolInv` says which connections
may be used twice, and gives with it who is spoiled when they are. The proof first turns
each change of the queries into what it does to the trees (`SentEffect` and its like),
then shows `TreeInv` for each kind of change (`RootTree`, `GrownTree`, `ShrunkTree`,
`AgainTree` ...), then puts every action together.

**`HttpClientProofs`**, for any connections and requests:

* `ClientPoolSafe`: `PoolSafe`. The invariant follows one connection at a time: what is
  on its way to and from the server belongs to the request whose callbacks it holds,
  which is why a connection may keep its callbacks in the pool: nothing is on its way
  there.
* `RequestsLive`: `LivesAsPromised`, the refinement of `Request`, step by step:
  `cb.work` runs only for a request that was neither answered nor reported lost.

**`EventLoopProofs`**, for any connections, links, ids, descriptors and times with a
hold shorter than the expiry; about `TrsStart`, for any phones and boxes; and about
`LogPipe`, for any pipe and any lengths of lines that fit it:

* `TimersSafe`: `TimersOwned`. The invariant says of the tree that it is in the order of
  time (`InOrder`) and that its timers are exactly those of their holders (`Owned`). That
  does not carry itself: a connection that expires while its poll is held would leave
  `stb->screenctx` behind, so that the invariant needs, as that of `TrsScreen` does, that
  the hold comes to its end first. Here this is a fact of the tree, `Ahead`, which has to
  survive every insertion, deletion and delay of another timer; the lemmas `AddedSafe`,
  `DeletedSafe` and `DelayedSafe` say what `rns_timer_add`, `rns_timer_delete` and
  `rns_timer_delay` keep. `RunInv` lists what a callback may still have to do, so that an
  answer to the held poll and the one to the command that ends it go to two connections,
  both there. Events need less: one whose connection is gone is in the batch only if a
  callback freed it (`cut`).
* `StartSafe`: `StartSound`, with any number of requests and failures. What is to be
  shown is said of a phone at rest, when the load is over and nothing is under way, and
  does not carry itself. `Settled` says what holds on the way: a phone that is no
  exception has one request under way at most, for its only object; until the FOSS has
  done it, memory and table agree, and then the table is ahead by that request; and a
  row that has yet to come is still what the table says, unless a request has made the
  phone before. `OnePhone` carries this for the phones that a step does not concern. That
  the row of a phone without an object cannot be out of date rests on the exceptions
  being complete: all that writes the table behind the TRS's back makes the phone one.
* `PipeSafe`: `PipeSound`. That `do_log` writes whole lines as long as no write failed
  behind its size cannot be seen in the place where it reads: `Straight` says it of every
  cell of the pipe, that what the cell announces is behind it (`Whole`) and that a size
  follows, but for the last size while `rns_log` has its text yet to write. That lines are
  never out of order holds even when the reader is out of step, because the cells stay in
  the order of the lines (`Sorted`) and what was written is older than all of them
  (`Older`). `Turns` says that `do_log` holds a size only while it runs: when it returns
  from an empty pipe it is in step again, whatever failed before. Only when the file took
  nothing (`failed`) does it return from a pipe that is not empty.

**`TransportProofs`**, about four of the parts of `MCTransport`:

* `ConnSafe` and `ConnLives`: `RequestsApart` and `LivesAsPromised` of `HttpConn`, under
  `Window = 1`; with more requests under way both are false of the code, see the limits
  above. The invariant `ConnInv` has two cases. Either no request
  is outstanding (`IdleInv`): nothing is queued, `write_func` has nothing to do, and the
  segments the peer sent lie in the socket, in the buffer or in `read_info`, each once.
  Or one is (`OutstandingInv`): all its bytes are used up, which is what keeps
  `read_func`, which looks at the buffer only, from beginning another; and the handler
  owes the answer, or what is left of it is queued (`Leftovers`), or the peer has reset
  the connection and it cannot be written. For the refinement, each action is a step of
  `ConnLife` or none.
* `AnswersSafe`: `AnswersWhole` of `HttpWrite`, for any number of answers of any lengths.
  The invariant `WriteInv` says that, until something is spoiled, the tasks cut what was
  promised and is not on the wire yet into pieces, one behind the other (`Cuts`), so that
  a part taken by the kernel moves one cut only. Order alone does not say that an answer
  which ends is complete when another one was spoiled: `Balance` counts for each answer
  and part apart (promised = on the wire + left), and `TasksSorted`, by which the tasks
  are in the order header, body or file, end of each answer, makes the task that ends an
  answer the last one of it. A file is open exactly as long as its task is in the list
  (`FilesKnown`).
* `ServersStayKnown`: `StaysKnown` of `Login`, for any number of TRSs and all times that
  satisfy `Timing`. The invariant `KnownInv` bounds from below what is left of an entry
  by what may still go by until a login arrives: the sender's timer with its lateness,
  the login's way, and one interval for each login that may yet be lost (`Spare`).
* `PoolSound`: `QueriesSound` of `MySql`, for any finite pool, results of any length and
  any number of failures (`Bounds`). The invariant says for each connection which of six
  situations it and its server are in (`Talks`: not made, being made, at rest, asked,
  being read, at rest after an error), each with what may be on the wire. In the middle
  of a result that is `Result`: rows, of which no more come than the result has, then its
  end, a close, or both. That all connections are there when the program is told needs
  that `Num` counts the whole set but one (`NoneMissing`).

**`RtmpProofs`**, for any connections, streams, names and kinds of messages:

* `FlushSafe`: `Flushed`.
* `SessionSafe`: `ListsAgree`. Besides the two-way link of players and streams, the
  invariant needs `Counted`: the last id given is not smaller than the number of
  connections that hold one, because `deleteStream` counts it down for any id that is
  not the last.
* `PlayersInOrder`: `Playable`. The invariant ties `pstate`, by which the code decides
  what a player gets, to what it was sent (`Agrees`), and the message under way to the
  last one queued (`Within`).
**`MPoolProofs`**, for every number of blocks: `RingSafe` (`RingKept`: the ring holds
the free blocks once each and is joined both ways), `GivesOnlyFree` (no block that is
out is given out), `RefusesOnlyLast` (`RefusesLast`: `rns_mpool_alloc` refuses when
one block is left, and only then), and the first and the last as one, `BlocksSafe`.

It has the journal of `FileMgr` too, for any offsets, additions, failed writes, crashes
and restarts: `JournalSafe` (`Durable`, `NothingElse`, `OnlyTorn`, which are parts of
`StoresKept`). The invariant `FilesInv` says which records `rns_fmgr_load` finds: the
first ones that were returned, with their keys, and all that were returned before the
journal was torn (`Recorded`). A journal that is not torn is these records and the
fields of the one being written (`WholeJournal`). Of one that is torn, `TornStays` says
why nothing behind the incomplete record is ever found: a field stands in the place of
another, or the journal ends in the middle of a record and the next one begins there.

### What stays model-checked

* Liveness (`Ends`, `Served`, `Answered`, `EndsInTime`, `Settled` of `HttpClient`):
  reasoning under fairness and about ENABLED is out of the prover's reach.
* What is computed by recursion over data: the red-black trees (`TreeSound`,
  `KeepsOrder`), values and chunks (`ValuesRead`, `ChunksDecode`), the parsers and
  formats of `BodiesWhole`, `StreamsKept` and `StoresKept`, and the sequences of
  answers and of messages (`SelectSeq`, `FlattenSeq`) in `DialogSound` and `ChunksRead`.
  The induction theorems of the library take an operator as a parameter, which no
  installed prover can instantiate.
* Not proved yet, but in reach: see the plan.

## What is not modelled

* `rns_lock.c`, `rns_tpool.c`, `rns_thread.c`: no program uses them, and they are
  unfinished (`do_task` never takes its task off the queue, `rns_cas_lock` excludes
  nobody), so that there is no promise to state.
* The registry of channels of the streaming server (`yms.c`, and `yms_channel_create` and
  `yms_channel_start` as far as they fill it): `yms.c` does not compile at this commit
  (993 gives `rns_httpserver_create` two of its three arguments, and the timers of its
  keep-alives are commented out in `rns_timer.h:23-36`), and no channel would enter the
  registry, since `surl` is never filled (`yms_live.c:709`). What a channel does with its
  stream is modelled, in `LiveStore`.
* Programs and sources that are not built or not used: `fts`, `rtl`, `yms_vod.c`, the
  ffmpeg helpers, `flv.c`; in `yms.c` the handlers 261-597 that are never installed; in
  `rns_mysql.c` the reconnect and destroy functions; `rns_hconn_open`; `stb_saveInfo`
  (`event.c:660`) and several functions of the data access objects.
* `rns_ctx_*` (named values in a tree) and the lists of `list_head.h`, which are
  modelled where they are used.
* The wording of answers, statements and log lines; AMF3; what urls and header fields
  say.
* Wrappers of system calls, the toolkit, vendored code (cJSON, expat, the headers of
  ffmpeg and MariaDB), running out of memory, and the end of the process by SIGPIPE (a
  write after a reset; the models take the error path of the code).

Two hazards are listed without a property. The error path of `foss_dispatch_cb`
(`trs.c:321`) answers the connection of the FOSS, on which a handler called before may
have answered already; `HttpClient` has these connections as clients, and what they are
asked to answer is not modelled. Pipelined requests (`rns_http.c:648`) break the
properties of `HttpConn`, see the limit `Window` above.

## The plan

Modelled are all components that the programs use, but for the registry of channels. The
theorems cover the TRS and its start, the FOSS, both ends of HTTP, the event loop, the
database connections, the memory pool, the journal of recordings, the pipe of the log,
the logins and the RTMP relay. Next:

1. `InStep` and `HeaderKept` of `RtmpChunk`, which need no induction over data.
2. `LiveStore`, one conjunct at a time.
