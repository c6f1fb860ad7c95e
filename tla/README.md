# A verification of swiboe in TLA+

swiboe is an editor server: clients connect to it over a Unix domain socket or
TCP, register RPCs with a priority, and call each other's RPCs through it. An
RPC name may have several implementations (*layers*); the server asks them in
ascending order of priority until one does not answer `NotHandled`.

This directory holds TLA+ modules that model the server, the client library,
their wire format, the buffer and list_files plugins, the C API, the fuzzy
matcher and the terminal GUI; configurations that check them with TLC; and
TLAPS proofs about them. `PROJECT.json` is the index: components, runs, the
source lines behind every definition, hazards, the finding and the theorems.

## 1. Inventory

| component | state | operations | interacts through |
|---|---|---|---|
| swiboe thread, `server/swiboe.rs` | `api_table`, `clients`, `running_rpcs` | one branch of `handle` per `Command` | takes `Command`s from one mpsc queue; sends `SendData` to the bridge |
| API table, `server/api_table.rs` | name -> list of `ApiInfo`, sorted by priority | `register`, `deregister_by_client`, `get_first`, `get_next` | called by the swiboe thread |
| core plugin, `server/plugin_core.rs` | none | `core.new_rpc`, `core.exit` | called by the swiboe thread; queues `NewRpc`, `Quit` behind what is already queued |
| ipc bridge, `server/ipc_bridge.rs` | slab of `Connection`s, `next_serial`, registrations in mio | `new_client`, `ready`, `notify`; reader and writer jobs in a thread pool | events of mio, a notify queue, the swiboe queue |
| framing, `ipc.rs` | bytes read so far; chunks to write | `try_read_message`, `read_message`, `queue_message`, `try_write`, `write_message` | called by the jobs and by client threads |
| client library, `client/` | `remote_procedures`, `running_function_calls`, `running_rpc_calls` of the rpc loop; contexts of calls | `call`, `new_rpc`, `cancel`, `recv`, `try_recv`, `wait`; `update`, `finish`; `Drop` | read thread, write thread, rpc loop thread, pool of one thread |
| buffer plugin, `plugin/buffer/` | `buffers`, `next_buffer_index` under an `RwLock` | `buffer.new`, `.open`, `.delete`, `.get_content`, `.list` | a client in the server's process; announces `on.buffer.new` and `on.buffer.deleted` |
| list_files, `plugin/list_files.rs` | files collected since the last update | `list_files`: a thread per call | partial responses, about every 50 ms |
| log plugins | a log file | log levels | clients in the server's process |
| life cycle, `server/mod.rs` | thread handles, the socket file | `launch`, `shutdown`, `wait_for_shutdown` | `Quit` of both threads, joins |
| gui library, `gui/` | views with cursors; pending keys | `move_cursor`, `scroll`, `new_view`; `key_down`, `timeout` | RPCs served by the GUI's client; Lua mappings |
| terminal GUI, `term_gui/` | completer, shown view | `handle_events`, `draw` | calls `list_files`, `buffer.open` |
| C client, `c_client/` | boxes whose address C holds | the `swiboe_*` functions | client library |
| `subsequence_match` | a set of candidates | `insert`, `query` | called by the completers |
| GTK GUI, `gtk_gui/` | widgets | - | written for an older client library |

What is hard about it:

* **Concurrency.** Swiboe thread, event loop, reader jobs, writer jobs and the
  four threads of every client meet in FIFO queues only, but a message can be
  overtaken by what another queue carries: a reader job still delivers after
  the bridge has reported the hang-up of its client; `core.new_rpc` is put
  behind a disconnect that is already queued. `Drop` of a client races with
  calls, served RPCs and three threads that end in their own order.
* **Failure.** Clients leave at any moment, as callers, as callees and between
  the two; slots of the slab are used again; a panic in a job poisons a lock; a
  process that is killed leaves its socket behind.
* **Ordering.** The list of layers changes while a call walks through it, and
  the position of the call is only known by its callee's client id. A completer
  selects in a list that changes under it.
* **Oneshot events and partial I/O.** A socket that is not armed again is
  silent for ever; a message arrives in pieces of any size.
* **Locks and single threads.** A pool of one thread, a write lock held while
  waiting for an answer, a mapping that calls back into its own client.

What makes each part correct: the table is sorted and the walk through it asks
every layer once; a response reaches the client that called and no other,
nothing follows the last response, no call is lost between the threads; no
wake-up of a socket is lost, and the bytes on it are a queue of messages; what a
client hands over before it is dropped is written, its contexts read what was
sent in order, and nobody waits for ever who could know better; what the buffer
plugin announces agrees with the buffers it has; C owns what is allocated; the
matcher misses nothing; the GUI opens what it shows as selected. `PROJECT.json`,
"hazards", lists the places where this is at risk.

## 2. Modules

| module | models |
|---|---|
| `ApiTable` | the operators of the table |
| `Server`, `MCServer` | swiboe thread, core plugin, connection table, clients; a quiescent initial state with two layers, symmetry |
| `IpcBridge` | the bridge in detail: mio, both handles of a connection, jobs |
| `Fifo` | abstract: a queue of messages that may be closed |
| `Filter` | what a reader sees who looks for some elements of a queue |
| `Wire`, `MCWire` | the framed byte stream, in both directions; implements `Fifo` |
| `RpcClient`, `MCRpcClient` | the client library: both sides of calls, its four threads, `Drop` |
| `BufferPlugin` | buffer plugin, serving side of the client library |
| `Lifecycle` | launch, shutdown and restart of a server |
| `CClient` | the C API and the heap behind it |
| `SubsequenceMatch`, `MCSubsequenceMatch` | the matcher, against reference definitions |
| `BufferViews` | views and cursors |
| `TermGui`, `MCTermGui` | terminal GUI, key map, completer, list_files; extends `BufferViews` |
| `*_proofs` | theorems about the module of that name, and about what it is built from: `Server_proofs` about `ApiTable` too, `TermGui_proofs` about `BufferViews`, `Client_proofs` about `RpcClient` and `CClient` |

How they fit: `Server` takes each connection as a pair of queues that lose their
tail when the client leaves. `IpcBridge` shows what the bridge does to get
there, and `Wire` that the bytes in between are such a queue. `RpcClient` has
one client in full and the rest of the world as an external server that routes
as `Server` does. `BufferPlugin` and `TermGui` are two users of the client
library. `Lifecycle` abstracts the traffic to what can end a thread.

Operators whose name has an underscore and then a capital letter (`Send_Twice`,
`NextIndex_Lowest`) are the operator of that name with a mistake; no
specification uses them. Each stands for a bug that the property it is paired
with in `PROJECT.json`, "mutants", must notice.

### ApiTable

A table is a function from names to sequences of `[client_id, priority]`. An
`Option` is a set with at most one element. `register` gives the *set* of
possible tables, because `binary_search_by` may report any entry among equal
priorities. `deregister_by_client` does the same with `retain`, which is
written with increasing enumerations of the kept positions instead of
recursion so that it can be proved about.

### Server

`commands` and `ipc_bridge_commands` are the two queues; `to_server[c]` and
`to_client[c]` are everything between the threads of client `c` and the bridge.
One action per `Command` of `swiboe.rs` (`HandleNewRpc`, `HandleCoreCall`,
`HandleRpcCall`, `HandleRpcResponse`, `HandleRpcCancel`,
`HandleSendDataFailed`, `HandleClientConnected`, `HandleClientDisconnected`),
with `on_rpc_response` and `on_rpc_cancel` shared as in the code. The bridge is
`new_client`, `ReadMessage`, `Hup`, `notify`. Clients do what the client library
lets them do: `CallRpc`, `RequestNewRpc` and `InstallRpc` (the two halves of
`Client::new_rpc`, around its `wait()`), `Cancel`, `update`, `finish` and
`Receive`. A call is named by its uuid (`Contexts`); its immutable part is in
`call[context]` and messages carry the context only. `unasked`, `dropped` and
`lost` are history variables for properties; no guard reads them.

`Hup` loses what was on the way to the client and a suffix of what it had
written: all of it if no reader job was running, nothing if a job reads on.

### IpcBridge

One `poll` is one turn of mio's loop: it waits for an event or a message, takes
all events (handled in any order) and then a number of messages counted before.
Both handles of a connection are registered with the same token, level
triggered and oneshot (`reading`, `writing` are the armed ones). The `Reader`
moves between slot, job and `ReRegisterForReading`, and is named by the client
it belongs to, so that a reader in the wrong slot can be seen. Messages are
counted, contents play no role. The ways in which the event loop can panic are
values of `event_loop`. Unix domain sockets are modelled: a closed peer makes
both handles ready, with hup.

### Wire

A message is a sequence of bytes, a byte a number below `Base`; the length
prefix is four such digits, the lowest first. `direction` chooses between the
two readers: `try_read_message` in the loop of a reader job, which ends at the
first incomplete message and is started again by a readable event (`ready`), and
the blocking `read_message` of a client. The writers differ only in where they
block and are one: `to_write` with `num_written`, which `write_all` keeps in its
loop. Every turn moves any number of bytes. `Close` may leave half a message.

### RpcClient

One client with its rpc loop, read thread, write thread and pool. `commands`,
`send_queue`, `written` and `from_server` are the four queues; `values[c]` is the
channel of a call, `result[c]` says that its last response was read, `open` has
the contexts that still exist. `op[t]` is what a user thread (`owner` of the
`Client`, `thin` for a `ThinClient`, `pool` for the RPC that is served) blocks
on. A blocking call is two or more actions, so everything can happen while it
waits; `check_liveness` and `NestedCall` are the two halves of a call made by a
served RPC. A channel is closed when its sender is gone (`SenderGone`). When the
rpc loop ends it drops its queue and its handler (`LoopEnds`). A *program*,
chosen initially, says which thread makes which call, of which function and how
it uses the context; the order is free. `handed`, `answers` and `received` are
history.

### BufferPlugin

The queue of the rpc loop, the pool with its one thread (`worker`) and the
`BuffersManager`. A handler is three steps: `Start`, `Work` under the lock,
`finish`; a cancel may arrive in between. A failing `finish().unwrap()` poisons
the lock if a *write* guard is held; `Abort` is `lock().unwrap()` on the
poisoned lock, which drops an alive `Context` while unwinding. The content of a
buffer is the call that created it.

### Lifecycle

Processes are started one after the other. `main` is the thread that holds the
`Server`: `launch`, `shutdown` and `wait_for_shutdown` as a sequence of joins
(`join_bridge`, `join_swiboe`, `remove_file`). The two threads end by `Quit`, by
an error or by a panic, and a channel whose receiver is gone refuses to send
(`Sent`); each cause of an end is an action of the thread. `exit` kills the
process at any time and leaves only the socket file.

### CClient

Addresses hold boxes. `object` changes as the code boxes and frees, `owned` as the
documentation of the functions says ("deletes the 'context'", "must be deleted
using ..."); `OwnershipAgrees` says that the two are one. A program passes only
what it owns and asks `is_ok` before it unwraps.

### SubsequenceMatch

`insert`, then `query`: `Visit` takes a candidate that the prefilter lets
through, `Scan` is one turn of the loop of `is_subsequence`, `Return` its end,
`Sort` the end of `query`. Characters are their code points; positions are kept
from 0 as in the code.

### BufferViews and TermGui

A line is its length. `moved` is `move_cursor` for one view with the clamp and
the two margins in the order of the code; the cursor ids are all alike, so any
view may be the one that moves. `TermGui` runs the main thread (`gui` is where it
is) against the pool thread that serves the RPCs on the views, the thread of
list_files and the channel of its responses. A mapping is a set of keys per
chord; a key event only tells whether it belongs to the chord before it. The
fuzzy match is abstracted to "has the letters of the query". The thread of
list_files looks for a cancel at every file; in the model a cancelled walk is
gone at once, since all it could still do is send what nobody receives.

## 3. Runs

| run | bounds | distinct states | shows |
|---|---|---|---|
| `register` | 2 slots, 2 connections, 1 disconnect, 2 calls, from the empty server | 127,461 | `TypeOK`, `TableSorted` |
| `layers` | two layers in place, 1 call, 2 disconnects, a 4th client in a freed slot | 117,959 | the safety of one call through the layers, and `EventuallyAnswered` |
| `late` | two layers in place, 2 calls or registrations, no disconnects | 415,390 | `NotHandledMeansAllAsked`, `LayersInOrder` while the table grows |
| `skipped` | as `layers`, 1 disconnect | 822 | expected violation, section 6 |
| `bridge` | 1 slot, 2 connections after each other, 2 messages, socket of 1 | 90,013 | no lost wake-up; everything is written, read, reported |
| `wire` | 3 messages of 1 or 5 bytes, socket of 6, bytes of one bit | 5,908 | `Wire` implements `Fifo` |
| `buffers` | 3 calls, 1 cancel | 352,386 | `EventsTellBuffers`, `IndicesUsedOnce`, `EveryCallAnswered` |
| `client` | 5 programs of up to 3 calls, 1 partial response each | 80,683 | what `Drop` flushes, order of responses, causes of panics, who is released |
| `c_api` | 5 addresses | 142,565 | `OwnershipAgrees`, `CrashesForAReason` |
| `match` | 2 of 29 texts, 21 queries, with and without case | 256,116 | `LeftmostMatch`, `AnswerComplete`, `Ranked` |
| `gui` | 4 keys, 2 files, 3 mappings, 1 RPC of another client | 621,243 | selection, results, listing, cursor; the threads do not block each other |
| `lifecycle` | 3 processes, 3 events of clients in each | 47,733 | `StoppedCleanly`, `LaunchFailsAfterCrash`, `ShutdownReturns` |

Why the bounds are enough for the interesting cases: one slot is enough for a
stale event to meet a new client; two connections in it are needed. Two layers
and two disconnects let the callee go before, while and after it has the call,
with or without the caller following. A socket for one message makes the second
`SendData` meet a full socket. Three buffer calls allow create, delete, create.
A socket of six bytes splits the longer message, and its length needs two
digits more than the shorter one's. The programs of `client` are those in
which threads can wait for each other: an RPC waiting for its own client, one
streaming from another, a thread waiting for an RPC that waits, a second
`wait`, a cancel, and a lost connection; `Drop` may come at any moment of each.
Five addresses are a client, a call with its result, and an RPC served
meanwhile with its result. Four keys open the completer, type, move and select, or type a mapping
of two keys around other things; the two files are one line, and four lines of
which one is empty in a window of three. Three processes are a crash, a
failed launch and one more. Symmetry (tokens, contexts) is used in `register`
only, which checks no liveness.

`CHECK_DEADLOCK FALSE` is used where all bounded work can be finished: a server
without clients is idle. `match` can always go on and is checked for deadlock.

The type invariants are proved for all modules but `MC*`; `Server`'s is checked
by a run as well.

### Fairness

Weak fairness of every thread of the server (`handle`, `notify`, reader jobs,
the event loop, each writer job) and of the threads of clients: they are OS
threads that block on nothing but their queue or socket. Weak fairness of
`finish` in `Server` and `BufferPlugin`: an RPC implementation that never answers
is outside the server's control, and the library panics when a `Context` is
dropped without an answer. In `RpcClient` the same holds for the RPCs of other
clients, and for `finish` unless the RPC blocks. In `Wire`, bytes that can be
written or read are. In `Lifecycle` only the threads are fair; nobody need call
`shutdown`. Nothing is assumed about users: connecting, calling, registering,
cancelling, pressing keys, sending partial responses, dropping and hanging up
may never happen. In `IpcBridge` a client that stays reads what it is sent
(`Receive`), because its read thread does nothing else.

Liveness properties name what they except: a client that disconnects with the
call, a poisoned lock, a lost connection, an aborted process, a call that
nobody can answer any more (`Unanswerable` in `RpcClient`). These are things the
code lets happen; section 6 lists them.

### Refinement

`Fifo` has a sent and a received sequence and the messages in between; closing
may lose a tail. `Wire` implements it with a mapping that reads the queue off the
history (`Queue`, an instance of `Fifo`). `ImplementsFifo` is the safety part, in which no message is
cut, merged, lost or swapped; `ImplementsFairFifo` adds that what was written
completely arrives unless the sender closes. `TermGui` implements `ViewsSpec`,
the specification of the views alone: its steps move one view as the RPCs do, or
leave all alone. That is proved (`ImplementsViews`), so what is proved of the
views holds in the GUI.

## 4. Proofs

Checked by TLAPS for every value of the constants that meets the named
assumptions of the modules. Every safety property of section 3 - invariant,
action property or refinement - is a theorem.

| module | theorems besides `TypeCorrectness` | strengthened by |
|---|---|---|
| `Server_proofs` | `RegisterSorted`, `DeregisterSorted`, `TableStaysSorted` | - |
| | `ResponsesReachTheirCaller` | `Routing` |
| | `CallsInOrder`, `NothingFollowsTheAnswer` | `InOrder` |
| | `LedgersBalance`, `OnlyTheCalleeServes` | `Departures`, `Ledger` |
| | `NoCallIsLost` | `Kept` |
| | `LayersAreAskedInOrder` (action), `RefusedMeansAllAsked` | `NobodyLeft`, `AllFirsts`, `Ahead` |
| `IpcBridge_proofs` | `ReaderIsAtHand`, `NoWakeupLost` | `Accepting`, `Placed`, `Readers` |
| `Wire_proofs` | `FramingImplementsFifo` (refinement) | `Layout`, `Follows`, `Pending` |
| `Client_proofs` | `LibraryPanicsForAReason` | `ThreadReasons`, `UserReasons` |
| | `DropLosesNothing` | `Flushes` |
| | `ResponsesComeInOrder` | `Known`, `Ordered` |
| | `OwnershipIsExact`, `CrashesHaveReasons` | - |
| `BufferPlugin_proofs` | `AnnouncementsAreTrue`, `IndicesAreNotReused` | `Asked`, `GivenOut` |
| `SubsequenceMatch_proofs` | `GreedyIsLeftmost`, `AnswersAreComplete`, `AnswersAreRanked` | `Matched` |
| `TermGui_proofs` | `CursorsStayInText`, `MovedCursorsAreShown`, `ImplementsViews` (refinement), `GuiCursorsStayInText`, `GuiMovedCursorsAreShown` | `ViewsInv` |
| | `OpensWhatIsHighlighted`, `ResultsAreFresh`, `ListingIsComplete` | `Pointed`, `Fresh`, `Listed` |
| `Lifecycle_proofs` | `ShutdownIsClean`, `RestartAfterShutdown`, `PanicsAreExplained` | `Joins`, `QuitIsAsked`, `SocketFile` |

Three theorems have a hypothesis besides the assumptions. The two about
`MoveShowsCursor` need `Height >= 3`: the second margin undoes the first in a
smaller window. `RefusedMeansAllAsked` needs `MaxDisconnects = 0`: the finding of
section 6 is what happens to the property when a client leaves.

### Server

`RepliesReachCaller` is not inductive: that a response in a socket is in the
right one says nothing about the queues it came through. `Routing` says of every
place a message can be in - both sockets of a client, the queue of swiboe, the
queue of the bridge, a failed send on its way back - that the message is about a
call that was made, and that calls and cancels are labelled with the caller's id
where they are read and responses with the caller's id where they are sent; and
that `running_rpcs` names the caller of the call. The step that matters is
`notify`: it compares the whole `client_id` and not only the token, so a response
never reaches the client that has taken over the slot.

`NothingAfterLast` needs to know that a call is in one place. The *carriers* of a
call are the call itself on its way down and its last response on the way up;
`OneCarrier` says that there is one of them in all the queues together (or none,
while a client serves the call) and that no partial response is upstream of it,
`CarrierIsLast` that in each queue nothing said about the call is behind it. So
when it reaches the caller, all is silent (`AnswerIsLast`). `Ledger` keeps the
accounts of a call: only the callee in `running_rpcs` has the call or has sent
what is under way about it, an entry exists from the handling of the call to
that of the last response unless the caller is gone, and a send that fails was
meant for a client that is gone (`Departures`). It makes `ServedByCallee`
inductive and is what lets `Kept` follow each carrier to the next queue: a call
that was made is carried, answered, or abandoned because somebody left.

`LayersInOrder` is an action property: where a call goes next is behind where it
was in the table of that moment. It follows from `get_next` and the sorted
table. `NotHandledMeansAllAsked` needs that the handlers not yet asked stand
behind the callee in the list (`Ahead`), which registering keeps, wherever
`binary_search` puts an entry among equal priorities (`AllFirsts`).

### Bridge and framing

`ReaderAtHand` speaks of events only, and the reader travels.
`Readers` says that in a slot nobody has been reported gone from, the turn to
read is in at most one of four places - an armed handle, an event, a reader job,
the `ReRegisterForReading` that ends the job - and that it is the turn of the
client in the slot, whose reader is in the slot until the job starts. The
restriction to such slots is necessary: in one that is used again two readers
can meet (section 6). `Placed` says that connections and readers, even those
that outlive their connection, stay in their slot, so that a step in one slot
leaves the others alone; `Accepting` that the bound on serials leaves one for
every connection waiting. `NoLostWakeup` is inductive as it stands, given the
types: what matters is that `poll` makes an event of each handle it disarms,
that a hang-up removes the connection together with the event, and that a
writer job asks to be armed again exactly when something is left.

The framing proof speaks of the stream of all bytes ever handed to the writer,
which no variable holds: the invariant says that such a stream exists. `Layout`
says where each sent message and its length stand in it, `Follows` that what was
read, the buffer of the reader and the socket are consecutive pieces of it, and
`Pending` that `to_write` are the chunks behind them. A complete message in the
buffer is then the next one of the stream, because the length at its start is
that message's, and four digits determine it.

### Clients

The types of `RpcClient` are relative to the calls that were made: of a call that
was not, no queue, channel or thread knows anything. `ThreadReasons` says why
each thread ends (the rpc loop by `Quit` or because the connection is lost,
the write thread because the connection is lost or the loop has ended), which makes a
panic of the loop or of a caller evidence of a lost connection or of a drop
(`PanicsForAReason`). `Flushes` finds everything handed over before the `Quit` of
`Drop` in the socket, in the queue of the write thread or in the queue of the
loop, in this order. `Ordered` does the same for the responses to one call: what
the context has got, has in its channel and is to get from the queues is what
the server has sent, but for a tail that is lost; `Known` says that the loop
knows the call as long as a response to it can come. What a queue contributes
to such a sequence is `Only` of it, a recursive function in `Filter`; it plays
the part of `SelectSeq`, about which the provers know nothing. `OnlyType` and
`OnlyConcat`, by induction over the length, are all that is used of it.

`Agreement` of the C client needs the types only: each function frees what it
takes and boxes what it fills in, and the lemmas `FreesAgree` and `BoxesAgree` do
the arithmetic of the heap; every way to crash is a panic of the library or a
program that unwraps what is not there.

### Buffer plugin, matcher, GUI, life cycle

For the buffer plugin, `Line` is what was sent and the queue behind it. Three
things happen to it: it grows by a command, a message moves on (which changes
nothing), or a received command leaves it; one lemma for each says what becomes
of the positions. `GivenOut` (no index beyond the next one was announced) is what
makes a new announcement the only one of its index; `Asked` (handlers run for
calls that were made) is needed for the types of their results.

For the matcher, `Matched` says that what the scan has found is an embedding of a
prefix of the query; leftmost is inductive because a position that is passed
over fits no embedding that could still be extended. That the prefilter loses
nothing follows from an embedding: every character of the query is one of the
text, up to case. `Ranked` follows from leftmost, since smaller indices have a
smaller sum.

The cursor proofs go through the clamp and the two scrolls of `keep_margin` in
order. In the GUI, `Fresh` says that the results on the screen are those of the
query and the candidates as they are, or none until the next draw, and `Pointed`
that the selection is in the list or the list is empty, through every key.
`Listed` has each file of the walk in exactly one place (still to be visited,
collected, in the channel, among the candidates) until the listing fails, and
the last response behind all others.

`Joins` says that what has been joined ended without a panic, and that the phases
of `main` join in turn; `QuitIsAsked` that the event loop ends only by the `Quit`
of a shutdown; `SocketFile` that the file exists from a launch to the end of
`wait_for_shutdown`.

### What is not proved

Liveness under fairness, the liveness half of `Wire`'s refinement included
(`EventuallyAnswered`, `EverythingWritten`, `EverythingRead`, `HangUpsReported`,
`EveryCallAnswered`, `ImplementsFairFifo`, `WaitReturns`, `DropReleasesWaiters`,
`DropReturns`, `Responsive`, `ListingShown`, `ShutdownReturns`) is model-checked
only: TLAPS does not do fairness here. Induction theorems that take an operator
cannot be used either; where a proof needs induction over numbers it is done
over the *set* of those for which the claim holds, from the well-foundedness of
Nat (lemmas `Least` and `Induction`).

## 5. Plan

Done: all modules of section 2 and the proofs of section 4. What is left:

1. `LayeredRpc`: an abstract specification of one call (asked layer by layer,
   partial answers, one last answer), implemented by `Server`; the invariants
   `InOrder`, `Ledger` and `Kept` are what the mapping needs.
2. A bridge with TCP peers that close one side, and two kinds of listener.
3. The safety core of the liveness properties: that a step that makes progress
   is enabled whenever something is left to do.

## 6. Where the code and its documents disagree

`skipped` is a run that ends in a violation, with the quotations in
`PROJECT.json`, "findings": a call on its way to a layer that disconnects ends
in `NotHandled` although a later layer is there. `SendDataFailed` counts as
`NotHandled`, but it always comes after the disconnect, when the callee is no
longer in the table and `get_next` finds nothing behind it.

Observed while modelling, part of the models, without a run of its own.

In the server and the bridge:

* A layer that goes away with a call it has received leaves the caller waiting;
  `EventuallyAnswered` excepts it.
* A call answered `NotHandled` by the last layer stays in `running_rpcs` until
  the caller disconnects (`swiboe.rs:148`; the RFC says the entry exists "until
  the client gets a response").
* A call or registration that is read after its client's `ClientDisconnected`
  leaves an entry in `running_rpcs` or in the table that nothing removes.
* A layer that registers while a call runs is asked if it sorts behind the
  callee (`swiboe.rs:134`; RFC: "it will not be called").
* A client that registers one name twice and answers `NotHandled` is asked for
  ever, since `get_next` looks for its first entry (`api_table.rs:59`).
* Two events of one hang-up, with an accept between them, remove the connection
  of the client that was just accepted (`ipc_bridge.rs:344`). A late
  `ReRegisterForReading` puts the reader of the former client into it.
* A failed write panics a job and poisons a mutex; the next message for that
  client panics the event loop (`ipc_bridge.rs:329`).
* `core.exit` ends the swiboe thread only. The bridge goes on until the next
  connection or disconnect, on which it panics, so `wait_for_shutdown` alone
  never returns normally. A second `shutdown` panics on the missing socket
  file, a process that did not shut down makes the next `launch` panic on the
  present one, and `core.exit` during `launch` leaves it waiting.

In the client library and the C API:

* Between the answer to `core.new_rpc` and `NewRpc` of the client's own rpc loop
  the server may forward a call; the client forgets it (`client/mod.rs:120`).
* After a lost connection the read thread ends silently: `wait` blocks until the
  client is dropped. A failed write makes the next call of the owner and its
  `Drop` panic.
* `wait` after `wait` blocks: the channel stays open in the rpc loop.
* An RPC that waits for an RPC of its own client waits for itself, since the
  pool has one thread.
* A nested call that races with `Drop` finds the rpc loop gone after its
  liveness check, panics twice and aborts the process.
* Cancelling `buffer.new`, `buffer.open` or `buffer.delete` between the work and
  `finish()` poisons the lock; the next call of the plugin aborts the server.
* `swiboe_rpc_result_unwrap_err` panics on `NotHandled` too; the documentation
  names `Ok` only. A `NotHandled` that `swiboe_client_context_wait` returned
  can only be deleted by passing it to `swiboe_server_context_finish`.

In the GUI and its plugins:

* A directory that cannot be read aborts the server process
  (`list_files.rs:101`).
* Keys that match nothing stay pending until Esc, and no mapping can match
  meanwhile; a mapping "a" shadows "a b"; two equal mappings never run; one
  without keys runs on Esc; Ctrl-q neither quits nor clears the pending Ctrl.
* While there are no results the selection index is not clamped and drifts.
* Columns are clamped by bytes, not by the glyphs that `buffer_views.rs:74`
  speaks of; `wanted_position` drifts without limit; with several views
  `move_cursor` moves any of them, because all cursors have one id; `scroll` can
  leave the cursor off the screen; a window of fewer than three lines loses it.
* Opening a file that cannot be read, or a buffer that is deleted meanwhile,
  panics the GUI.

## 7. Not modelled

Message contents and JSON; messages of 4 GiB and more; TCP half-close (the
reader job then spins without a `ClientDisconnected`, because hup is not in the
interest set); more than one listener; parsing of chords from strings and the
access to Lua tables (conversions without state of their own); overflow of
`isize` positions; the log plugins (I/O); the GTK GUI, which is written for an
older version of the client library; the helpers of the tests.
