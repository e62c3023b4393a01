# libatbus in TLA+

libatbus is a message bus for server processes. Each process has a *node* with a
numeric id; nodes form a tree in which a node owns an aligned range of ids, and
talk over three kinds of *channel*: a lock-free ring in process memory, the same
ring in a shared memory segment, and streams (TCP, Unix sockets) driven by libuv.
This directory models the library, model-checks the models with TLC and proves
what matters most with TLAPS. Paths are relative to the repository.

## 1. The system

| component | code | state | operations | how it interacts |
|---|---|---|---|---|
| memory channel | `src/channel_mem.cpp` | ring of fixed-size nodes, `atomic_read_cur`, `atomic_write_cur`, `atomic_operation_seq`, node and block heads, the reader's timer | `mem_init`, `mem_attach`, `mem_send`, `mem_recv` | written by any number of threads or processes, read by one; called by connections and by the shared memory channel |
| shared memory channel | `src/channel_shm.cpp` | process-wide table key → mapped segment | `shm_attach`, `shm_init`, `shm_close`, `shm_send`, `shm_recv` | maps a segment, then is the memory channel |
| buffer manager | `src/detail/buffer.cpp` | circular memory with an index array, or a list; limits and cost | `set_mode`, `set_limit`, `reset`, push/pop/front/back at both ends | receive and send queue of every stream connection; libuv keeps pointers into the blocks |
| io stream channel | `src/channel_io_stream.cpp` | connections of a loop with status, flags, receive head, read and write buffers; outstanding requests | listen, connect (DNS, TCP, pipe), accept, read, send, disconnect, close | libuv callbacks in, callbacks to the connection out |
| connection | `src/atbus_connection.cpp` | state DISCONNECTED, CONNECTING, HANDSHAKING, CONNECTED, DISCONNECTING; flags; its endpoint | `listen`, `connect`, `push`, `proc`, `reset`, `disconnect`, callbacks | between a channel and the node; belongs to an endpoint once registered |
| endpoint | `src/atbus_endpoint.cpp` | id and children mask of a peer, control connection, data connections, listen addresses, statistics | `add_connection`, `remove_connection`, `get_ctrl_connection`, `get_data_connection`, `reset` | owns connections; is kept by the node |
| node | `src/atbus_node.cpp` | father, tables of children and brothers, connecting list, pending check list, ping list, state and flags | `start`, `proc`, `listen`, `connect`, `send_data`, `add_endpoint`, `remove_endpoint`, `on_disconnect`, … | drives everything from one loop; routes messages |
| message handler | `src/atbus_msg_handler.cpp` | none of its own | registration, forwarding, its answers, ping, connection hints | called on every received message, changes node, endpoint and connection |
| address parsing, checksums | `src/channel_utility.cpp`, `src/detail/crc*.cpp` | none | pure functions | |

What is hard, and what makes each component correct:

* **Memory channel.** Writers race for `atomic_write_cur` with one
  compare-and-swap computed from two separate loads; `flag |= …` is a plain
  read-modify-write; the reader frees nodes while their writer may still be
  checking them; writers and the reader crash between any two accesses; the
  reader gives up blocks by a timeout. Correct: the cursors never close the
  hole, a reserved node has one owner, a message reported as sent arrives, once
  and in order, one reported as failed does not, calls return, a dead writer
  does not stop the ring.
* **Buffer manager.** Two resources (memory and index slots) are used up in
  different orders from both ends, with wraps. Correct: blocks in use never
  overlap, the calls are those of a double-ended queue, the cost behind the limits
  is exact, an empty buffer is as good as a new one.
* **io stream channel.** Status and flags change in callbacks that run after a
  close was asked for; a send is queued before it is written and may fail later; one
  callback may start the next operation. Correct: every connection is closed
  and reported once, bytes come out whole and in order, no callback is left
  without its request.
* **Connection and endpoint.** Resets run from inside callbacks of the same
  object; a connection may be in the node's connecting list and in an endpoint.
  Correct: state and ownership agree; a connection is never reachable from an
  endpoint that does not own it.
* **Node and message handler.** Registration is a handshake of two nodes with
  timeouts and retries on both sides; lists of pending work refer to
  endpoints by id; ranges of children must stay disjoint. Correct: `find_child`
  finds the owner of an id, a node that lost its father registers again, a
  healthy endpoint is not removed, a forwarded message ends within its hop
  limit.

## 2. Plan

| module | models | status |
|---|---|---|
| `MemChannel`, `MsgQueue` (abstract queue), `MemChannelQueue` (refinement), `MemChannelBlocks` (its invariants), `MemChannelProofs` | the ring | done, section 3 |
| `ShmChannel`, `ShmChannelProofs` | one segment and the processes that share it | done, section 3 |
| `BufferManager`, `Deque` (abstract deque), `BufferDeque` (refinement), `BufferManagerProofs` | the buffers | done, section 4 |
| `NodeTable`, `NodeTableProofs` | father, children, brothers, check list of one node | done, section 5 |
| `IoStream`, `IoStreamProofs` | streams and requests of one io channel, and its end | done, section 6 |
| `Framing` (proofs in `IoStreamProofs`) | messages cut out of a byte stream | done, section 7 |
| `Connection`, `ConnectionProofs` | connections of one node, who holds them, their end | done, section 8 |
| `Registration`, `RegistrationProofs` | a node and its father: handshake, time-outs, reconnecting, restart | done, section 9 |
| `Forwarding`, `ForwardingProofs` | messages through a tree of nodes | done, section 10 |

Each module stands on what the one below promises: `Connection` assumes of streams what
`IoStream` shows (`RequestsEnd`), `Registration` of connections what `Connection` shows,
and `Forwarding` takes registration as one step and the domains of `NodeTable` as given (that
brothers share no id is its theorem `DomainsDisjoint`).
Each `MC` module gives a specification its instance and the filter `WithinExplored`.

**Windows.** Some orders of events make the code break a promise that it keeps in all
others. A model records them in `hz`, a history variable that nothing reads, where it
takes the step that makes the difference. A property that a window breaks is either
stated up to that window (its formula names it), or checked in a run whose
`Explored` leaves the window out: the CONSTRAINT `WithinExplored` follows no behaviour
into other windows. So "passes" means: in every behaviour but those. A liveness property
under such a CONSTRAINT is checked on the behaviours that stay inside; what lies behind a
window is left open, not shown.

## 3. The ring: `MemChannel`

State. `rpos`, `wpos`, `opseq` are the three atomics; `head`, `blk`, `data` the node
heads, block heads and payloads; `waiting`, `elapsed` the reader's
`first_failed_writing_time`; `pc`, `wc`, `rc`, `op` a writer's place in `mem_send` and
its locals, `rpc`, `rb`, `re`, `rw`, `rv` those of `mem_recv`. Cursors are positions that
never wrap; `Idx` gives the index the code stores, and all the code's arithmetic is
done on `Idx`, so a wrong modulo or a full ring that looks empty is visible.
`order`, `returned`, `delivered` and `hz` are history.

Actions. `mem_send`: `Send` (argument checks), `Begin` (operation number, load of the
write cursor), `LoadReadCur`, `CasWriteCur` and its failures `CasLost` and
`CasSpurious`, `Reload`, `MarkFirst`/`MarkNext`/`MarkNextConflict` (heads of the
reserved nodes), `StoreSize`, `Fill`, `LoadFlag` and `Publish` (the two halves of
`flag |= MF_WRITEN`), `FinalCheck`. `mem_recv`: `Recv`, the scan (`ScanSkip` over a node
without a start flag, `ScanWait` and `ScanTimeout` at a block that is not written,
`ScanBlock`, `ScanEnd`), `ResetNode` (give a block up), `TakeBlock`, `CleanNode`,
`StoreReadCur`. `Crash` and `ReaderCrash` stop a process between any two of them; a
reader that is started again sees only shared memory, and finds it as it was if it attaches to it
(whether it can is the subject of `ShmChannel` below). `Tick` lets time pass.

Race windows. Some interleavings make the code break a promise, and the code accepts
them (its documentation relies on time-outs and on rings that are large compared with
the number of writers). The model records them in `hz`: `lap` (a compare-and-swap
succeeds although the write cursor went once round since it was loaded), `early` (the
reader passes a reserved node before it is marked), `late` (the reader frees a block
before its writer's final check), `timeout` (a block of a live writer is given up),
`readercrash`, and `wrap` (the 32-bit operation number is given out again while a node, a
writer or the reader still goes by it). Each property names the windows up to which it holds, and the runs
explore exactly the behaviours that hit the windows in `Explored` (with a
CONSTRAINT), so the reader sees for every promise what it survives. Liveness
properties speak of the behaviours without the other windows.

Abstractions. Memory is sequentially consistent. The checksum is ideal: a block
head names the message it was computed from. Lengths are counted in nodes. Clock values
are the time since the first failure, saturating at `MaxElapsed`. The numbers behind
`mem_show_channel` are left out.

### Runs

Two writers and one reader throughout; a ring of 4 nodes (5 in `ring_room`, one of them
protected, and in `ring_progress`), empty just before its end, so that the first reservation already
wraps, messages of one and two nodes (one and three in `ring_room`), so that two of them fill
the ring, and an operation number that wraps between the calls (`SeqMod` is 4 in `ring_crash`, so
that three calls take it past the zero that is skipped). In `ring_room` two messages of three
nodes overlap, so that a writer meets the mark of one the reader passed by (`MarkNextConflict`);
the try after that is explored in no run, a try after a block that was already read is in
`ring_crash`.
Two writers are what a compare-and-swap race needs; a third changes who loses, not
what is lost. The number of calls and crashes is bounded by `MaxSend`,
`MaxReaderCrash`, `Mortal`.

| run | question | result |
|---|---|---|
| `ring_room` | Do the cursors keep the hole and the protected nodes free in every window, and is the ring the queue of `MsgQueue` up to the first one? | yes; with one call and one try for each writer `lap` and `wrap` do not come up in the run, in them `RoomInv`, the inductive form, is proved only |
| `ring_crash` | What do crashes of a writer and of the reader and the `late` window leave of the promises? | ownership, "refused is not delivered" and clean nodes survive; duplicates are excluded where `late` is |
| `ring_progress` | Do calls return, and do accepted messages arrive behind a dead writer's block? | yes |

Fairness. `WritersRun`: a process inside `mem_send` is scheduled, and a
compare-and-swap that is tried again and again succeeds once (strong fairness: the
loop at channel_mem.cpp:414 has no other guarantee). A crash disables it. That the
reader polls (`ReaderRuns`) is a premise of `Delivery` and not part of the
specification: `SendReturns` holds when nobody reads.

### Limits of the ring

Seen while modelling; the model does what the code does, and the properties say what is
left.

* `mem_recv` steps for good over nodes that are reserved and not yet marked
  (channel_mem.cpp:547); their writer goes on and reports success (window `early`).
  doc/README.md:121 has it otherwise.
* The node heads are cleared (610-611) before the read cursor moves (674): a reader
  that dies in between has lost the block (window `readercrash`), against doc/README.md:124.
* An inner `ret` shadows the outer one (506): a sequence conflict on the last try
  returns success, against doc/README.md:122.
* A block freed in the `late` window is sent again and arrives twice. In the `lap` window
  two writers own the same nodes.
* The reader gives up after `block_timeout_count` milliseconds, a counter, not after
  `conf_send_timeout_ms` (566).
* `mem_send` may report a full ring that has just been emptied, since the cursors are
  loaded one after the other.
* `mem_init` copies the bytes of a pointer if it is given a configuration (373). Byte layout
  is below this model.

### Shared memory: `ShmChannel`

`MemChannel` begins with a ring that is there. `ShmChannel` is how processes get it: `size`,
`magic` and `ring` are the segment, which outlives everybody; `mapped` is each process' entry in
`shm_mapped_records`, `at` where its call stands, `open` and `valid` its connections and
those of them whose channel is still mapped; `left` is history, what a listener left unread when it
died. `connection::listen` and `connection::connect` try `shm_attach`
(`Open`, `Attach`) and, if that fails, `shm_init` (`Create`, `Wipe`, `WriteHead`): `mem_init` writes
`node_magic` last. `Close` is `connection::disconnect`; `Send` and `Receive` are one step each;
`Die` ends a process in any of them. `Map` leaves open whether `shmat` returns the address a stale
connection still holds. A `Send` between `Wipe` and `WriteHead` may report success and send nothing.

`mem_attach` compares the name with `node_magic` as strings (channel_mem.cpp:338), but the eight
letters fill `node_magic` (80, 386), and the comparison goes on to the first byte of `node_size` behind
it. `Terminated` says that this byte is zero: on a little-endian machine only if the constant `NodeSize`
(ATBUS_MACRO_DATA_NODE_SIZE, 128 by default) is a multiple of 256. On a big-endian machine the byte is always
zero; a multiple of 256 stands for it.

Finding *(`shm`)*: in the default build `shm_attach` fails on every ring that `mem_init` made, and
`shm_init` then clears it, at every opening (the same for `mem:`, whose connections call `mem_attach` and
`mem_init`; benchmark_shm_channel_send.cpp:45, which only attaches, always fails). doc/README.md:124
says that a reader that crashed goes on at the next start and no data is lost; `ReaderResumes` says that what a
listener left unread stays in the ring until it is received. TLC finds the message gone:

| run | question | result |
|---|---|---|
| `shm` | doc/README.md:124: a reader that crashed goes on where it stopped | violated |

The run has a listener and a sender, one connection each, one message, one death (of the listener) and the
default node size. The window `overlap` is excluded from the property, so the trace has no two makers.
`overlap` itself is two processes that find no channel at the same time and both make it, the second over the messages
of the first (atbus_connection.cpp:167, nothing is locked between the two calls). A ring
that is wiped by a benchmark tool, which calls `shm_init` at once, is not meant.

`ShmChannelProofs` says what would hold of the same protocol if the comparison ended in time. From
`Parameters` (the ranges of the constants) and `Terminated`, for any number of processes, connections,
messages and deaths, and up to `overlap`: `NeverWiped`, whoever opens the
channel wipes nothing that was sent and gets a ring that is whole (`RingKept`), and `ReaderGoesOn`, which
is `ReaderResumes`. So the text without an end is the only cause of the finding. The invariant
says that at most one process is making the channel
(`Makers`), only while there is none (`~magic`), and that without one there are no users and no messages.
`Terminated` is a premise of the theorems and no assumption of the module: nothing here says that the default
build keeps a ring.

Seen while modelling: there is one mapping per process and key, and nobody counts its users. When one of two
connections to a segment closes, the other is left with an address that is not mapped any more
(channel_shm.cpp:83); `valid` shows it, and only sends and receives through valid channels are
steps, as the others fault. The result of `shmat` is not checked (222).

### Proofs (`MemChannelProofs`)

For every number of nodes, protected nodes, writers, message lengths, retries and
every bound:

* `TypeCorrect`: `Spec => []TypeOK`, one lemma per action.
* `RoomSafe`: `Spec => []RoomInv`. What users need is `CursorSafe`, the distance of the
  cursors. It is not inductive: a writer swaps the cursor on the strength of two
  values it loaded earlier. `RoomInv` adds what a writer knows: its loaded cursors are
  not ahead of the shared ones (`WritersSeeThePast`) and the room it computed was
  there; and what the reader knows (`ReaderStaysInside`). At the swap the write
  cursor is unchanged (outside `lap`) and the read cursor has only moved on, so the room
  is still there. `AvailableBound` and `FreeNodes` do the modular arithmetic.
* `CursorsSafe`: `Spec => []CursorSafe`.

The assumptions are the named ASSUMEs of `MemChannel`, which TLC evaluates in every
run.

### Proofs: the blocks of the ring (`MemChannelBlocks`)

`MemChannelBlocks` says why the ring keeps its promises, and `MemChannelProofs` proves it,
for the same constants, with crashes of writers and of the reader between any two steps:

| theorem | states | up to the windows |
|---|---|---|
| `NodesExclusive` | `ExclusiveNodes`: the nodes a writer fills are its own | `lap`, `early`, `timeout`, `wrap` |
| `NoBlockIsBad` | `NoBadBlock`: `mem_recv` meets no bad size and no bad checksum | the same |
| `HandsOutOnce` | `DeliveredOnce`: at most once, and nothing that was refused | and `late` |
| `NothingIsLost` | `NoSilentLoss`: what was accepted is delivered, waiting or in hand | and `readercrash`, but in `late` |

None of these is inductive. Underneath lie four invariants:

* `CallsInv` (`CallsCorrect`): where a call stands, that its message is its writer's newest, and that
  no result is of a later call.
* `BlocksInv` (`BlocksCorrect`): every used node is part of a whole published block
  (`PublishedInv`), of the block of one writer (`FillingInv`) or of the reader's (`ReaderInv`), or a remnant;
  free nodes are clean (`FreeInv`). The part that is easy to miss is `NumbersInv`: the reader finds the end
  of a block by its operation number, so that number must be on no other node. It is why a remnant
  of a dead writer behind a block is not freed with it, and where the window `wrap` comes from.
  `SeenWhole` is the other: the write cursor the reader loaded lies before or
  behind a block, never within it.
* `OnceInv`: a message has one place (`OneBlockEach`, `OnePlaceEach`), what was handed out has none
  (`GoneForGood`), and up to its final check a writer's block waits untouched (`Unchecked`), so that
  the block it gives back as lost is really lost. `late` is what breaks the last.
* `LossInv`: a message that was accepted, or is about to be, is in the ring, in hand or delivered.
* `PlacesInv`: what became of every place that was ever reserved, up to the first window. Places lie
  one behind the other (`InTurn`). Each belongs to a call that died in it, to the call that is at work
  on it, or to one that returned success (`Fates`), and the block of the last waits until the reader
  comes to it (`NotTaken`). What the reader stepped over belonged to calls that died (`Passed`), what
  it has in hand lies where it stands (`Held`).

TLC checked all five on the bounds of `ring_crash` and `ring_room` before they were proved.
It found the window `wrap`: without it `PublishedInv` is false, since a number that comes round
while a dead writer's nodes still bear it makes the reader free too much. Only liveness is left to TLC.

That the ring implements the queue of `MsgQueue` is the theorem `QueueKept`. The mapping
(`MemChannelQueue`) cuts `order`, the history of the reservations, at the read cursor: `InTurn` makes
the cut unique, and what comes after it is pending. A compare-and-swap that succeeds is `Reserve`; that
there is room is a sum over the pending messages, bounded by the distance of the
cursors (`SizeBelow`), which `RoomInv` bounds. A return is `Commit` or `Refuse`: what is given back as
refused has no place. A crash is `Die`. The step that stores the read cursor is `Receive`: by `Passed`
all it leaves behind are orphans, and by `Held` and `InTurn` the message it hands out is the next one
after these. Every other step changes nothing the queue sees, in particular not the part of the receiver
that frees nodes: they are still before the cursor. The prover cannot instantiate the library's
induction theorems; `Upwards`, induction as a statement about sets, is proved from the well-foundedness of < instead.

## 4. The buffers: `BufferManager`

State. `area`, `slots`, `index`, `head`, `tail` are `static_buffer_` (an address is an
offset into its memory), `mem` the blocks that lie there, `list` the dynamic mode,
`limit` and `cost` the members of `limit_`, `ret` the last result.
Each call is one action, whole: checks, placement, the block's head written over
whatever lay there, cost. `Create` turns every block it overlaps into garbage, so a
wrong placement is seen by the reader of the overwritten block, as in the program.
A failed malloc is a choice. The framing integers (`read_vint`, `write_vint`) are
in `Framing`.

`buffer_ops` runs all sequences of calls on a circular memory of 10 units with heads
of 2 and payloads of 0, 1 and 3 units (padded to words of 2), with four index
slots, so three blocks; memory runs out first for large blocks, slots for small ones,
and every relation of head, tail and wrap occurs. Three blocks are enough for a
block in the middle whose neighbours come and go. The dynamic list is cut at two blocks.
Nothing obliges a caller to call again, so CHECK_DEADLOCK is off for this and for the
ring, whose callers stop after `MaxSend` calls.

It shows that blocks never overlap nor leave the memory (`LayoutInv`), that both
modes implement `Deque` (`DequeSpec`), that the cost is exactly what is queued
(`CostExact`), and that an emptied buffer accepts at its back whatever would fit a new one
(`EmptyTakesAll`). At its front it does not: `push_front` refuses a block that fills the memory
exactly (buffer.cpp:457).

### Proofs (`BufferManagerProofs`)

All five properties of `buffer_ops` are theorems, for every size of the memory, number of slots,
padding unit, head size, mode, limit and sequence of calls, from `LayoutAssumption` (a head is a
multiple of the unit) and `CallerAssumption` (what callers give are natural numbers). The
inductive invariant `IInv` is `TypeOK`, `LayoutInv` and `CostExact` together. The argument in layers:

1. *The circle.* `Laid` says of n addresses and lengths, apart from any buffer, what `LayoutInv` says of
   the blocks. `LaidBack` and `LaidFront` say that it still holds with one more block where
   `PlaceBack` or `PlaceFront` put it (the `>` beyond the wrap is needed there), `LaidPopBack` and
   `LaidPopFront` that it holds with one less; the last shifts the origin, so what was wrapped may no
   longer be (`FirstGone`). `BlocksApart` turns the order into the fact that no two overlap.
2. *The slots.* Arithmetic of `circle_index_` modulo its size (`CountBetween`, `SlotShift`, `SlotsApart`).
3. *The memory.* What does not overlap the new block is not touched by writing it (`CreateKeeps`).
4. *The sum.* `LeftIn` is a recursive function; that it grows by what is left in the block that is added at
   either end (`LeftInAppend`, `LeftInBefore`) needs the induction over its domain, done with the least
   counterexample (`Upwards`), since the induction theorems of the library cannot be instantiated.
5. *The calls.* `EveryStep`: each call keeps the queue (`Kept`), empties it (`Emptied`), puts a block at one
   end (`Pushed`) or consumes from the block at one end (`PoppedBack`, `PoppedFront`), in both modes. From this
   `CostCorrect` and `Refinement` (`Spec => DequeSpec`) follow without looking at memory again.
   `EmptyTakes` needs the invariant to know that an empty buffer begins at address 0 and costs nothing.

## 5. The peers of a node: `NodeTable`

State. `father`, `children`, `brothers` are `node_father_.node_`, `node_children_` and
`node_brother_`; the two tables are functions from the last id of a domain to an
endpoint, as the maps are. `ep` holds the endpoint objects: id, domain, process, the
control connection (`none`, `up`, or `dead`: closed and still referred to) and the number
of data connections that are being tried, running, local (memory or shared memory) or
dead. `pending` is `pending_check_list_`, `checked` the list a running check has still to go
through. An endpoint that no table and no list refers to is destroyed (`Become`), and its
place may be used for another. A mask is given as the width of the domain it stands for.

Actions. `RegReq(p)` is the whole of `on_recv_node_reg_req` for the process `p`: the lookup,
the process check (`Join`), the refusals, `add_endpoint` with `insert_child` (`Placement`,
`CanInsert`, `Insert`), the connections begun (`Register`). `RegRspError`, `CtrlLost`,
`DataLost`, `DataUp` are what happens to connections, `Fault` is `add_endpoint_fault` beyond
its limit, `UserDisconnect` is `node::disconnect`. The check at the end of `proc` is
`CheckBegin`, one `CheckOne` for each endpoint, and `CheckEnd`; between them
`Callback` runs, the user's `on_endpoint_removed`, which may call `disconnect`.
`FindChild`, `GetEndpoint` and `Route` are the lookups.

Windows. Three orders of events break promises of the table; the model records them in
`hz` and the properties name the ones they exclude: `reused`, an id registers again while
an earlier endpoint with that id waits for the check (which removes by id); `callback`, an
endpoint is reset from a callback inside the check (whose list is then cleared
again); `cousin`, a father arrives whose domain does not contain a brother that is
already there (which then can be neither reached nor removed).

| run | question | result |
|---|---|---|
| `table_ops` | Do the tables stay a partition, do lookups and messages reach the owner of an id, is what was reset checked, and only that removed? Are refusals justified? | yes, outside the windows each property names |

Bounds. The node 6 owns 4 .. 7. Peers are a father of 0 .. 7 whose own id lies in the domain
of a brother (2, 3), and children 4, 5 (with 4, 5: it meets child 4), and 7 as two processes.
So domains that are equal, nested, adjacent and apart all register in every order.
Three endpoints are alive at once, which is what `insert_child` can look at: the
next, the one before, and the new one. One data connection each: the count matters only as
zero or not. `table_ops` explores behaviours with the window `callback` and only streams;
local connections, which never go down, only restrict what can happen.

Two limits, in the model as in the code. An error answer to a registration closes the
connection without taking it out of its endpoint (atbus_msg_handler.cpp:408): with a running
data connection the endpoint stays, without a control connection, though
atbus_endpoint.cpp:171 says it goes down. For a child, `node::disconnect` removes the id
from the table of brothers (atbus_node.cpp:437); the next check repairs it.

Left out: the state of the node and its timers (`Registration` has
them), statistics, global routers (the modelled node is none, nor are its
children, so a request is never denied for it and what has no other way goes to the father), `node::reset` and
`shutdown`, `on_endpoint_added` and callbacks outside the check, and a request on a
connection that is registered already, which at worst resets that connection
(`CtrlLost`, `DataLost`). A node may register with this node's own id as a child; routing
treats that id as the node itself, so `DirectRoute` speaks of other ids.
`table_ops` compares states without `ret` (VIEW) and takes the places for endpoints to be
alike. Nothing obliges a peer to come, so CHECK_DEADLOCK is off.

### Proofs (`NodeTableProofs`)

All seven properties of `table_ops` are theorems, for every set of peers, any ids and
widths and any number of endpoints, from the ASSUMEs of `NodeTable`. The one that carries
weight is `WidthAssumption`: of two widths the greater is a multiple of the lesser, as powers
of two are.

The argument has three layers.

1. *Arithmetic.* A domain is the interval from its first to its last id; two aligned
   ones are nested or apart (`CoversInterval`, `Nested`, `MeetOrApart`).
2. *One table.* In a sorted table (disjoint domains under their last ids) the first key not
   less than an id is the key of its owner (`FindChildFindsOwner`); a domain that meets neither
   the next entry nor the one before it meets none (`AcceptedIsApart`, by the least and the
   greatest key around it), so an insertion overwrites nothing and keeps the table sorted.
3. *The node.* The inductive invariant `PeersInv` has four parts. `TableInv`: both
   tables are sorted, children lie in the node's domain and brothers neither in it nor around
   it; without it, disjointness of children and brothers would not follow. `FatherInv`: the
   father has an id of its own, outside the node's domain, and (outside the window
   `cousin`) contains the brothers; routing and removal need it to reach the right table.
   `PendingInv`: what waits for the check and what is registered under its id are one
   endpoint (outside `reused`), which is why a removal by id hits the right one. `CheckInv`: inside
   a check what was reset has left its table, so that clearing the list at the end
   loses nothing (outside `callback`). Every action is shown to register nobody (`Harmless`) or
   exactly one peer (`Adds`), so three of the parts need two cases only.

## 6. Streams: `IoStream`

State. A place of `Streams` is a libuv handle with what is bound to it; `stage` says which:
a lookup, a connect request, a connection in the pool, one that is closing, or a handle that is
closed without having been a connection. `pool` is `conn_pool` (by descriptor), `buffers` the
blocks of `write_buffers`, `uv` the writes libuv has still to report, `active` is
`active_reqs`, `phase` where `io_stream_close` is, `owner` the flag `EN_CF_IS_LOOP_OWNER`.
`told` is history: what the user has been told of a handle.

Actions. The user's calls are `Listen`, `Connect`, `Lookup` (either call with a name),
`Send`, `Disconnect`, their failures, `CloseBegin` with its loops (`PoolEmpty`,
`CloseEnd`), and `Reopen`. libuv's callbacks are `LookedUpListen`, `LookedUpConnect`,
`Connected`, `Accept`, `Receive`/`Received`, `Written`/`WrittenPop`, `Closed`/`ClosedErase`,
`Discarded`. A callback that calls the user in the middle is two steps, with the user's calls
between them (`running`): so a user disconnects, sends or listens from inside any callback.

`io_stream` runs it with two handles and two descriptors: a listener and what it accepts,
or two connections, one closing while the other is set up, which is every pair of stages. Two
writes on a connection are what it takes to take one back behind another. It shows that a
connection is opened once and gone once (`ReportedOnce`), that blocks and writes agree when
`on_written` frees them (`WriteQueuesAgree`), that nothing can call back once
`io_stream_close` has returned (`ClosedIsQuiet`), and that it returns (`RequestsEnd`).

Fairness. The loop is run, which inside `io_stream_close` is the code's own doing: the user's
code returns (weak fairness of `Return`), and libuv, which goes through all its handles,
reports each (strong fairness per handle, since a callback of another handle, or the user in it,
disables a report for a moment). A peer or a name server that stays silent times out.

Window `fdreuse`. `uv_close` gives the descriptor back at once, but the connection
stays in `conn_pool` under it until its close callback. A new connection with the same
descriptor overwrites the entry (channel_io_stream.cpp:660), and with it frees the handle
libuv has not finished with; `on_close` then finds the wrong connection (558). `io_stream`
stays outside. The system gives out the lowest free descriptor, so the window needs only one
connection that opens in the loop's iteration in which another closed.

### Proofs (`IoStreamProofs`)

From `StreamAssumption` and `SendAssumption`, for any number of handles, descriptors and
writes. `StreamsCoherent` is the inductive invariant; its two halves are

* `AlwaysInv`, in every behaviour, `fdreuse` included: a connection in the pool is filed under its descriptor
  (`FiledRight`), the callback that is running has its connection (`RunningRight`), and the two write queues
  agree. `CountRight` defines the set of requests libuv has still to answer
  (`Requests`: one for a handle that looks up or connects, one for each write) and says that `active_reqs`
  is never below its size, and equals it until `fdreuse`. From it `TypeCorrect` (the counter, which nine places
  lower, stays at or above zero) and `QueuesAgree`.
* `QuietInv`, until `fdreuse`: every connection is in the pool (`AllFiled`), one at most is in its last callback
  (`OneClosed`), nothing else has writes (`OnlyConnectionsWrite`), the user was told what the handle is
  (`ToldRight`), and `io_stream_close` is as far as `phase` says (`ClosingRight`). With the counter exact,
  `active_reqs = 0` means that nobody waits for an answer (`NothingPending`), which is `CloseLeavesNothing`:
  `ClosedIsQuiet` for every instance. `ReportsOnce` is `ReportedOnce`, one lemma per action.

`QuietInv` stops at `fdreuse`, where `on_close` takes the wrong connection for its own: that one's writes are
then not reported any more, and the counter stays above what it counts. `RequestsEnd` is liveness and stays with TLC.

Left out: `io_stream_connect` with an unknown scheme (section 8), the second
`io_stream_disconnect` of a stream, which replaces the callback of the first
(channel_io_stream.cpp:1333; all callers pass none), socket options, addresses.

## 7. Bytes: `Framing`

State. `stream` is what the peer has written, message by message, `got` how many bytes of it
have been read, `head` the bytes in `read_head`, `big` the message being read into
`read_buffers`, `heard` the user's callbacks, `closed` that the stream was given up.

Actions. `SendMessage` is `io_stream_send` with its limit. `Read` is one call of
`io_stream_on_recv_read_fn` with any number of bytes that fit (`Room`): into the head, where
`Cut` takes out every whole message and moves the rest of a big one to a block of its own,
or into that block. `ReadFails` is its call with an error. `Digits`, `WriteVint` and `ReadVint` are the
vints, digit by digit, since where a piece ends inside a vint matters.

`framing` cuts every stream of three messages into pieces in every way. Sizes are scaled down:
a checksum of 2 bytes, digits to the base 4, a head of 8, a buffer of 14, a limit of 9. The
lengths are 0 and 1 (several fit the head), 5 (more than the head; a vint of two digits),
10 (too long for the limit, not for the buffer), 13 and 14 (too long for the buffer; refused
by `SendMessage` above 13). Three messages are a predecessor, the one that is cut, and a
successor in the same piece. It shows that the calls are those of the messages that have
arrived, whole, in order, at once (`HeardIsRead`), and that libuv always has room to read
into (`HeadHasRoom`; the comment at channel_io_stream.cpp:285 argues for it).

A message that does not fit the buffer ends the stream. The comment says the error is
reported first: it is when bytes of the message are left in the head, otherwise the stream is
closed without a word. A checksum is good or bad by choice. After a bad one the code goes on
with the next message, and so does the model.

### Proofs (second half of `IoStreamProofs`)

`HeardInOrder` and `AlwaysRoom` are the two properties for any messages, any base of the vints, any
limits and sizes of buffers. They assume `SizeAssumption`, that the constants are numbers, that there are
two digits at least and that the head is not empty; and `HeadAssumption`, that a checksum and the longest
vint fit the head (4 and 10 bytes of 512, libatbus_config.h:26). The module extends `IoStream` and
`Framing`, so the definitions of `Framing` that both would have bear its name (`FramingInit`,
`FramingNext`, `FramingSpec`).

*Recursion.* Four definitions are recursive functions: `Digits`, the value in `ReadVint`, `EndIn` and
`Cut`. `CHOOSE` says what such a function is only if one exists. `RecursionExists` shows that, for a function on
`0 .. n` that computes each value from those before it (`Looks`), and `FromBelow` is the induction, on a set
of numbers instead of a predicate, so that the library's theorem on well-founded sets can be used.

*Vints.* `DigitsMean`: only the last digit is unmarked, and read from left to right they mean the number.
`ReadsVint` reads it back, `ReadsNothing` finds nothing in a part of them. Hence `LengthRead`: the length is known
exactly when the whole header is there.

*Cutting.* `CutOne` has four cases (`CutCases`): not the whole header, a whole message, a block, no room for one.
`CutMakes` follows by induction on the bytes left: what is made of the bytes from the end of the `k`-th message on are
the calls of the messages up to some `j`, and `Outcome` says what becomes of the next one.

*The invariant* (`FramesInv`, checked by TLC first on the instance of `framing`). `HeardIsRead` alone does not
say where the reader is. For some `k` the place reached lies between the end of message `k` and that of the next; the
user has heard of exactly the first `k`, or the stream is closed and an error follows; and an open stream
keeps the rest (`Keeps`): either its head holds what has come of message `k + 1`, less than the header, or the head is empty and the
block wants exactly the bytes that are missing. The first half of `Keeps` is why there is always room, which is what the comment
at channel_io_stream.cpp:285 argues: what stays in the head is less than a header.

## 8. Connections: `Connection`

State. A connection has its `state`, the endpoint it is bound to (`binding`), its stream
(`io`, and `back` the way from the stream to it). Endpoints have `ctrl` and `data`. References
are held by the connecting list (`timers`), by outstanding requests (`asked`), by polled
memory channels (`proc`) and by endpoints: what nobody holds at the end of a step is
destroyed in it (`Become`). `stream` is the io channel's side, reduced to what
`IoStream` promises.

Actions. `Listen`, `ListenMem`, `Connect`, `ConnectEnd`, `RemoveEnd` are the user's and the
node's calls; `ListenAnswer`, `ConnectAnswer`, `Accept`, `StreamFails`, `StreamGone`
the callbacks; `Register`, `RegisterNew`, `Refuse`, `Mismatch`, `UserCalled` what the handlers
of messages do to connections; `TimeOut` is the list in `node::proc`; `NodeReset`,
`ChannelClose`, `NodeDown` are `node::reset`. They are composed of `Disconnect`, `Reset`,
`ResetEnd`, `AddConnection`, which work on a record of the shared variables, as the methods
call each other.

`connection` runs it with three connections, one foreign endpoint and the node's own: a listener
with what it accepts, or an endpoint's control and data connection with a newcomer. Endpoints
do not share connections, so a second one would only repeat the first. It shows that no plain
pointer outlives its target (`LinksMatch`), that a connection without an endpoint gets
one or is destroyed (`HalfOpenEnds`), and that `node::reset` returns and leaves nothing
(`ResetReturns`).

Fairness. `node::proc` is called and time passes (`Expire`), `node::reset` goes on (`GoOn`,
`Finish`), and the io channel keeps `Promised`: what is asked is answered, what is closed
is reported (`RequestsEnd` of `IoStream`). Nothing is assumed of peers or users.

Windows, none of which `connection` enters:

* `scheme`: `io_stream_connect` answers an unknown scheme with success and never calls back
  (channel_io_stream.cpp:1325, against the comment at 783). `node::reset` then waits at
  atbus_node.cpp:185 for ever.
* `freed`: a handler resets or the user disconnects the last holder of the connection the
  handler was called with, and the handler goes on to use it.
* `selfctrl`: the first listener of a node is the control connection of its own endpoint;
  when it goes, endpoint.cpp:171 resets the endpoint and all other listeners with it.

Left out: `iostream_on_accepted` without a connection of libuv's (it writes through a null
pointer, atbus_connection.cpp:473); `node::reset` with several polled channels (it walks
`proc_connections_` while `reset` erases from it, atbus_node.cpp:145); the messages that a
connection that has let go of its stream still gets, which are dropped in silence (the comment
near atbus_connection.cpp:445 wants them processed); failures of `malloc`. The deadlines of
the list pass in any order.

### Proofs (`ConnectionProofs`)

`TypeCorrect` and `NoDanglingLinks` are `TypeOK` and `LinksMatch`, for any number of connections and
endpoints, from `NameAssumption` alone and with no window left out: in the window `freed` it
is the running handler's own variable that dangles, no link that stays behind.

Steps call methods that call each other (`RemoveEnd` resets an endpoint, which resets its connections,
which lose their binding), each in the middle of the change. So the invariant is stated of
the record they work on: `Fit` says of it that a stream and its connection point at each other
(`StreamLinks`), that an endpoint lists exactly the connections bound to it (`EndLinks`) and that
what a request holds is alive (`AskedLive`). One lemma per method says that it keeps a record fit and what
it leaves alone; a step is a chain of them and ends in `Become`, which destroys what nobody holds.
That needs `EndLinks`, as the dead must be in no endpoint. `StreamHeld` is what makes a stream's way
back safe: a stream whose callback is to come is held by its request.

## 9. A node and its father: `Registration`

State. `child` and `father` are the two processes: the node's `state`, its flags `regdone` and
`actived`, the number of its process (`start`), the endpoint each has for the other (`end`,
`has`, `check`), its side of every connection (`at`) and the connections on its connecting list (`held`).
`stale` is a child's entry of the pending check list whose endpoint was reset and dropped: the check goes by
id, and removes the father that has been registered since. `toC` and `toF` are the messages
under way per connection. `calm` says that from now on nothing fails. Data connections
that were made at registration are one bit (`whole`): there until the endpoint is reset.

Actions. `Connected`, `ConnectFails`, `ChildFails`, `FatherFails`, `ChildDataFails`,
`FatherDataFails` are the network; `ChildReceives` and `FatherReceives` the handlers of
request, success and refusal (`ChildReg`, `RspOk`, `RspErr`, `FatherReg`); `Proc` and
`FatherProc` one call of `node::proc` each, in its order: connections to time out, the
father's timer (`FatherOp`), pings, the check; `Stop` and `Restart` end and start the node's
process; `UserDisconnect` drops the father and leaves its endpoint on the check list (`stale`).
`ResetEnd` drops the reference to the control connection without closing it
(atbus_endpoint.cpp:59-62): it is closed with it, unless the connecting list still holds it (`LetGo`);
then it stays open, bound to nothing, and its messages and failures are handled until it is.
A connect that fails after its time-out only closes, since `connection::disconnect` returns at once (301).

| run | question | result |
|---|---|---|
| `registration` | Does a node go up only if accepted, is the father's endpoint of one process, and do both come together once the network is calm? | yes, outside the windows |
| `reg_late` | atbus_msg_handler.cpp:418: an answer with success brings the node up | violated: see below |

Two connections at once are an old and a new attempt, whose messages overtake each other.
Two starts are an old and a new process; a third would meet the same remains. Messages on one connection
stay in order and are lost only with it, as on a stream.

Fairness. Both nodes' `proc` are called, messages on open connections arrive, a connect is
answered, the failure of a connection closed on one side is seen on the other. The rest is a
premise: `ComesUp` and `AcceptedGoesUp` speak of behaviours in which `calm` becomes
true. Before that everything may fail and every timer fire; after it a timer fires only
when nothing is under way.

Finding *(`reg_late`)*: an older attempt that times out sets `LOST_PARENT`
(atbus_node.cpp:937) while a newer one is being answered. Success counts only in
`CONNECTING_PARENT` (418), so the node has its father's endpoint and a control connection, and is never
`RUNNING`: the father's timer sees the control connection and does not connect again.
The window `late` marks it. The window `refused` marks the error answer on a connection that
the endpoint has already taken (section 5): the connection is closed, the endpoint keeps it.

Left out: the ids and domains (`NodeTable` has them), so the father refuses only another process;
the hostname is part of the process; pings are there with their effect, the removal of
an endpoint.

### Proofs (`RegistrationProofs`)

`TypeCorrect`, `UpIsAccepted` and `OneProcess` are the three safety properties of `registration`, for any
number of connections (at least one) and any `MaxStarts`, from `BoundAssumption` alone and with no window left out.
`SameProcess` is not inductive: a connection enters the father's endpoint when a request is
handled, so one must know what requests are under way. The invariant `IInv` says of the two
processes and the messages between them:

* `MessagesInv`: on a connection the node has open, a success is under way only if this process was
  accepted, and requests are its own;
* `RequestsInv`: every request comes from a process that was started;
* `FlagsInv`: `regdone` and `actived` are set only in an accepted process;
* `PlacesInv`: the father's endpoint lists open connections only, and a place in which the node is
  still connecting is not in use at the father;
* `ProcessInv`: `SameProcess`, of any two processes;
* `Silent`: a side that has closed a connection has nothing coming on it.

All but the last are stated of two processes as values (`Coherent`), because the actions build their
result by composing operators on values. Most of these only take something away: `Calmer` says so of
the node, `Less` of the father, and one lemma (`Harmless`) that this keeps `Coherent`. What is left is a connect that succeeds, the
registration at the father, and the answer at the node.

## 10. The tree: `Forwarding`

State. `peers` are the endpoints each node has, `links` those it can send on, `net` the
messages between two nodes, `faults` the counter of each endpoint, `met` the nodes that were
introduced to each other. `fates` is history.

Actions. `SendData` and `SendCommand` are the user's calls; `Receive` is `node::on_recv` with
the handlers of a data transfer, of its notice, of a command and of an introduction, and with
the counting of faults (`Account`); `Break`, `Check` and `Join` are links that fail, the
check that removes endpoints, and registration. `NextHop` is the choice of `node::send_msg`;
`Push` writes router and source before it tries, as the code does; `Resend` is the second
attempt through the father; `Notice` is `send_transfer_rsp`.

The tree is a root `f` with children `a` and `b` and a grandchild `g` below `a`; users are at `g`
and `b`, the two ends of the longest way; `y` is an id nobody has. Up, across, down and the
short cut of two introduced brothers all occur, with two messages, one broken link, and a push
failing at any attempt. `a` has a hop limit of 2, which a message from `b` to `g` uses up, so the limit
is met too. `Tolerance` is 1: the second fault in a row removes a peer.

| run | question | result |
|---|---|---|
| `forwarding` | Does a request have one fate (`OneFate`), does none circle (`NoLoop`), and are tables and fault counts what they should be (`TypeOK`)? | yes |

Seen while modelling: `on_recv_custom_cmd_req` (atbus_msg_handler.cpp:258) runs a
command on whatever node it reaches, as its message has no target, and `on_recv_data_transfer_rsp`
(246) does not look at the target of a notice: both end at the first hop, though
atbus_node.h:227 calls `tid` the target. A message that cannot be delivered counts as a fault of the healthy
neighbour it came from, and may cost that neighbour its endpoint; with `require_rsp` a success
notice is sent by hops on the way as well as by the addressee; the test "it did not come from the father" reads
the source field after a failed push has overwritten it. The control and data connections
of two nodes overtake each other, so `Receive` takes any message under way, and order
between nodes is not claimed.

Left out: user code inside callbacks (it may send, which is `SendData` a moment later),
global routers, failures of `malloc`; a link breaks for both sides at once, and
registration is one step.

### Proofs (`ForwardingProofs`)

`TypeCorrect`, `RequestsHaveOneFate` and `NeverCircles` are the three properties of `forwarding` for
any tree, any number of requests and broken links, and any hop limits. `TreeAssumption` is used for what
`NodeTable` proves of each node: a father's domain holds its children's, and brothers, which roots are to
each other, share no id.

Neither property is inductive. The invariant `IInv` adds:

* `PeersFine`: endpoints exist only between father and child and between brothers, and `MetFine`: only
  brothers are introduced to each other (an introduction under way says so of its two nodes);
* `NetFine`: a request on its way to a node (`OnWay`) is either for somebody in that node's domain,
  in which it has not been, or goes up, is for nobody below the node it leaves, and has been nowhere else.
  Hence none comes to a node that it has left;
* `FatesFine`: a request is in at most one place, in none once it has ended, and in none before it is
  sent.

`NextHopCases` says that `node::send_msg` goes down, up or across. With `AtNode`, which is `OnWay` at the
node that has got the request, `Comes` and `GoesOn` are the two halves of a hop. The second attempt of
`Resend` starts where the first did, because a push that fails leaves the network as it was
(`PassedOn`); notices, commands and introductions touch no request (`Aside`).

## 11. What is proved and what is not

Proved for every value of the constants: every safety property of the ring, the refinement of the
queue included; everything `buffer_ops` checks, the refinement included; the safety properties of
`io_stream`, `framing`, `table_ops`, `connection`, `registration` and `forwarding`. So every safety property a
passing run checks is a theorem.
`RingKept` and `ReaderResumes` of the segment are theorems only for builds in which `mem_attach` can succeed
(`Terminated`, section 3); no passing run checks them, and in the default build they are false. Two runs, `shm` and
`reg_late`, show violations.
Apart from that each theorem has the windows (section 2) its property has, no more, and no assumption but the
named ASSUMEs of the modules, which TLC evaluates.

Only model-checked:

* liveness (`SendReturns`, `Delivery`, `RequestsEnd`, `HalfOpenEnds`, `ResetReturns`, `ComesUp`,
  `AcceptedGoesUp`) and the fairness it rests on: ENABLED is beyond the prover;
* everything where the window a property names has been hit: what the code does there is what the runs show.

No module has a RECURSIVE operator: recursion is by functions on `0 .. n`, which `RecursionExists` (section 7) and the
sums of sections 3 and 4 reason about.

Nothing obliges users or peers to go on, so CHECK_DEADLOCK is off in all runs.

## 12. Not modelled

* Address parsing and checksums: pure functions that tests reach.
* The choice among several data connections, listen addresses of endpoints, statistics,
  `node_sync` (its handlers do nothing), configuration, global routers.
* The byte layout of memory channels, msgpack, logging. `1 << mask` is an int shift in
  atbus_endpoint.cpp:82: masks from 31 on are outside the models.
* Tools, samples and vendored code.
