# NanoRedis in TLA+

NanoRedis is a single-threaded key-value server: `server` (an epoll loop, a
per-connection state machine, command handlers over a chained hash table) and
`client` (sends one command, prints the reply). This directory holds its formal
model, the TLC runs that check it, and the TLAPS proofs about it. Paths below are
relative to the repository.

## 1. The system

| Component | Where | State | Operations | Talks to |
|---|---|---|---|---|
| Start-up and event loop | `src/server.cpp`, `accept_new_conn`, `conn_put` | `fd2conn`, the batch `events_buf` and its index | set up the listening socket and epoll, wait, accept, dispatch, destroy a connection | the kernel (epoll, accept, close); `connection_io` |
| Connection state machine | `src/server_utils.cpp` 86-256 | `Conn`: fd, state (`STATE_REQ`, `STATE_RES`, `STATE_END`), `rbuf`, `wbuf`, `wbuf_sent` | read, take requests out of the buffer, write replies, change the epoll interest | sockets; `parse_req`, `do_request` |
| Command handlers | `src/server_utils.cpp` 96-108, 294-365 | none of their own | `keys`, `get`, `set`, `del`, anything else | the hash table; the `out_` functions |
| Hash table | `src/hashtable.cpp` | two tables `tb1`, `tb2`, the resize cursor | lookup, insert, pop, scan, move nodes from `tb2` to `tb1` | callbacks of the handlers |
| Wire format | `parse_req`, `out_*` | none | parse a request, encode a reply | the client's `send_req`, `on_response` |
| Client | `src/client.cpp`, `read_full`, `write_all` | one socket | send a request, read and print a reply | the server |
| AVL tree | `src/avl_tree.cpp` | nodes with depth, count and links | rotations, rebalance, delete | the sorted set only |
| Sorted set | `src/zset.cpp` | a tree and a hash table over the same nodes | add, lookup, pop, update | no command reaches it |

Everything in the server runs on one thread, and the handlers never block. What
makes it hard is the other side of the system calls: clients write frames in any
number of pieces, several frames at once, stop reading, or hang up between any
two calls; the kernel takes only part of a reply, reports several descriptors at
once, and gives the number of a closed descriptor to the next connection. Inside
the process the one long-lived piece of state is the hash table in the middle of
a resize: the cursor, the two sizes and the place of every key must agree.

What makes each component correct:

* **hash table**: each key is linked once, in the chain a lookup searches; sizes
  are exact; the cursor leaves no node behind; the load stays bounded; commands
  behave like those of a dictionary; every command ends.
* **connections**: requests are executed once each and in the order they were
  sent, wherever the stream was cut; the replies arrive byte for byte in the same
  order; a client is only dropped for a frame that is too long or malformed; a
  complete request is answered.
* **event loop**: `fd2conn`, the kernel's descriptors, the epoll set and the `fd`
  of each `Conn` agree; an event reaches the connection it was raised for.
* **wire format and client**: `parse_req` accepts exactly what encodes a command;
  what a client prints is the answer to its own command, which took effect once,
  while the client was running; no buffer is outgrown; every run of it ends.
* **tree**: links to children and to parents agree, the order of a search tree and
  the sizes of subtrees survive every rotation and delete, a climb or a search ends.
* **sorted set**: its two indexes hold the same members between calls.

## 2. The modules

| Module | What it is |
|---|---|
| `Commands` | the commands `do_request` tells apart and the replies it builds |
| `KVStore` | what the key space promises: one command at a time, its whole effect at one instant |
| `HashMap` | `hashtable.cpp` under the handlers of `server_utils.cpp` |
| `HashMapProps` | its properties, its inductive invariant `IInv`, and the mapping under which it implements `KVStore` |
| `HashMapProofs` | proofs of the invariants of the hash table |
| `HashMapRefinement` | proof that it implements `KVStore` |
| `MCHashMap` | the instance TLC checks |
| `Server` | the event loop and the connection state machine, with the kernel and the clients |
| `ServerProps` | its properties and the inductive invariants `TablesInv` and `StreamsInv` |
| `ServerProofs` | proofs about the descriptor tables |
| `StreamProofs` | proofs about the byte streams |
| `LibraryProofs` | what `Min` and `FlattenSeq` of the community modules return, for all of these |
| `MCServer` | the instances TLC checks |
| `WireFormat` | `parse_req`, the `out_` functions, `on_response`, as operators on sequences of bytes |
| `NanoRedis` | the client program and the request handlers, joined by those bytes |
| `Service` | what the two promise together: each command takes effect at one instant and its client prints that answer |
| `NanoRedisProps` | the properties, and the mapping under which `NanoRedis` implements `Service` |
| `NanoRedisProofs` | proofs about the parser, the replies and the calls of the clients, and that `NanoRedis` implements `Service` |
| `MCNanoRedis` | the instance TLC checks |
| `AVLTree` | `avl_tree.cpp`: nodes in a heap, rotations, `avl_fix`, `avl_del` |
| `ZSet` | `zset.cpp` over it: the calls of a sorted set |
| `ZSetProps` | the properties of both and their inductive invariants `IInv`, `CountsInv` and `OrderInv` |
| `AVLTreeProofs` | proofs about one operation of the tree on any tree |
| `ZSetProofs` | proofs about the tree and the sorted set over every sequence of calls |
| `MCZSet` | the instance TLC checks |

In each component module the definitions called *Mutant* in the comments are
faulty variants of the definition that follows them. No specification uses them:
they show that each property can fail, by putting them in the place of the
original.

### HashMap

A bucket is the sequence of nodes reached through `next`, a node is the record of
its entry's key and value, and `hcode & mask` is a remainder because `h_init`
asserts a power of two. `str_hash` is an arbitrary function `Hash`. The
variables `tb1`, `tb2` and `resizing_pos` are the fields of `HMap`; `n_work` and
`moved` belong to one call of `hm_help_resizing` (`moved` is a history variable:
the code counts nothing).

One command runs from `do_request` to `Return`. It is one atomic step except
that the loop of `hm_help_resizing` takes a step per node, so a half-moved table
is a state of the model:

    idle --do_request--> dispatch --do_del | do_keys | UnknownCmd--> reply --> idle
                         dispatch --hm_lookup--> help --LeaveHelpResizing--> search
                         search --do_get | do_set_update--> reply
                         search --hm_insert--> help --LeaveHelpResizing--> reply

`hm_insert` includes `h_init` of the first table, the load test and
`hm_start_resizing`. `DetachNull` is the loop body reaching a second empty
bucket, which ends in `segv`. `DestroySwapped` is the possible `free` of
indeterminate memory at the end of a `do_set` that inserted (its `Entry` was
never constructed), which ends in `badfree`; `Return` is the other outcome.

### Server

The thread is cut at its system calls, since that is where clients and kernel
take their turns: `pc` is first the next call of start-up (`socket`, `bind`,
`listen`, `set_nb`, `epoll_create1`; clients connect from `listen` on, before
anything is monitored), then `wait` (before `epoll_wait`), `dispatch` (between two
events of a batch), `fill` (before `read`), `parse` (`try_one_request`), `flush`
(before `write`), `after` (back in `main`), or `abort`, `killed` and `died`, where
the process has died: of an assertion, of SIGPIPE, in `die()`. The last is what the
`Fault` actions lead to: any call of start-up that fails, `epoll_wait` with EINTR or
another error, `fcntl` or `epoll_ctl` for a new connection. `malloc` and `accept` fail
too, and the loop goes on (`ConnMallocFails`, `AcceptError`).

`batch` holds the events of `events_buf` not handled yet; the
kernel passes only the descriptor, the model also remembers which connection the
event was raised for, to be able to say that it reaches it.

A byte of a request is the pair of its frame's number and its place in the frame;
bytes of replies are likewise. So the model needs no payloads: the length field
of a frame is `BodyLen`, `parse_req` accepts the requests in `WellFormed`, and
`OutLen` is the length of what `do_request` builds. A `Conn` is named by the
client it belongs to.

The kernel and the clients are modelled from how the code uses them. `sock`
tells what the server's end of a connection is: `open`; `fin`, when the peer has
closed with nothing unread; `finsent`, when something was written after that;
`broken`, when the reset that answers it has arrived (the next write raises
SIGPIPE); `reset`, when the peer closed with unread data (the next write returns
ECONNRESET); `dropped`, `refused` and `gone`, when the server has closed it.
Readiness is level-triggered, end of file and errors are reported under any
interest, `accept` returns the lowest free descriptor, and a close with unread
input may discard output that is still queued.

### WireFormat and NanoRedis

`WireFormat` keeps the bytes: a length field is `WordSize` bytes, least significant
first, an offset counts from 0. Where a C function reports failure by its result
(`parse_req`, `on_response`) the operator returns a set: its one element is what was
read, the empty set is the failure. `Encoded` puts together what the handlers append
to `out`. The name of a command is a word of its set of `Spellings`, since
`strcasecmp` accepts several. The text of an error is kept, because its length field
is at issue.

In `NanoRedis` a program is in `write` (the loop of `write_all`), `header` or `body`
(the two calls of `read_full` in `read_res`), or `end`: before its first and between
two runs. `printed` is what `on_response` put on the screen and what `read_res`
returned; they differ, since the reply is printed before its length is compared.
The server takes a whole frame in one step and its reply leaves at once: `Server`
shows that this is what the connections of such a client amount to (up to the
assertion of violation 4, which the longest request fails), and `HashMap` that the partial
function `store` is what the tables amount to. `Peers` are programs other than
`client.cpp` and send frames of their own; they are what makes `parse_req` fail.

### AVLTree and ZSet

`heap` maps the address of a node to its `AVLNode`; depths and sizes are numbers
modulo `Word`, which is where `avl_tree.cpp` is peculiar: the depth of NULL is
`Word - 1`, a node with one child has depth 0 like a leaf, and `avl_fix` compares an
unsigned difference with -1. `avl_fix` takes three steps for each node on its way up
(its update, the preparation of one side, the rotation), so that each is seen on the
tree the step before has left; `avl_del` takes one for each link it follows to the
victim, keeps the calls that wait for it in `frames`, and copies the node over the
victim (`SwapVictim`) when the rebalancing has reached the root. What dereferences
NULL leads to `segv`.

`ZSet` is `zset.cpp` from one call to the next. Its hash table is a set of nodes,
since `HashMap` has the chains. Two callbacks have answers the code does not fix:
`hcmp` declares its arguments in the order opposite to that of its caller
(`src/zset.cpp:150`, `src/hashtable.cpp:37`), so for nodes of one hash code it reads
memory behind the key and at the address that the bits of a score make, and may find
them equal, different or not mapped; `zless` compares names with `strcmp` that no zero
byte ends (`src/zset.cpp:163`), so the order of a name and its prefix is open.

No tree of two nodes comes about by `tree_add`: its call of `avl_fix` lifts a NULL
child at the new leaf (the defect that `AddDies` states). So that deletes and rotations
meet trees, a caller may also link nodes by hand and call `avl_update` up to the root
(`AppendByHand` to `UpdateByHand`, an assumption on the caller, not code of the
repository); any shape comes about, and all the calls of `zset.cpp` run on them.

## 3. The runs

| Run | Module, cfg | Shows |
|---|---|---|
| `hashmap` | `MCHashMap` | the invariants of the table, that it implements `KVStore`, and that every command ends |
| `hashmap_progressive` | `MCHashMapProgressive` | violation: a call moves more than `k_resizing_work` nodes |
| `hashmap_detach` | `MCHashMapDetach` | violation: the loop detaches from an empty bucket |
| `event_loop` | `MCServer` | from start-up on: one client that pipelines a long stream, or three with two descriptors: both byte streams, when a client is dropped, tables, events, interest |
| `server_live` | `MCServerLive` | two clients that wait for replies: requests are answered, descriptors released |
| `pipelining_stall` | `MCServerStall` | violation: the same property for a client that pipelines |
| `full_buffer_assert` | `MCServerAssert` | violation: a legal request fails the assertion behind `read` |
| `write_error_kills` | `MCServerPipe` | violation: a write error ends the process |
| `end_to_end` | `MCNanoRedis` | two clients, commands again and again: types and buffers, and that clients and server implement `Service` |
| `any_payload` | `MCNanoRedisPeer` | for every small payload: what `parse_req` accepts, what it reads, when a peer is dropped, and that every run of a program ends |
| `reply_refused` | `MCNanoRedisReply` | violation: the client does not accept the reply to `del` |
| `sorted_set` | `MCZSet` | trees of every shape of up to eight members: links, search order, counts, the two indexes; every call ends |

**Bounds.** *Hash table*: five keys in a table of two buckets with
`k_max_load_factor` 0, that is a resize as soon as there is one node per bucket.
The first resize moves two nodes and the second four out of four buckets, with
two keys in one bucket, an empty bucket in the middle, and deletes before, during
and after. The real 8, 4 and 128 only make the same steps rarer; `k_resizing_work`
is 3 so that four moves are more than it allows. *Streams*: a length field of two
bytes and buffers of seven, so that a length field can be cut in two, two frames
fit the buffer together, and a reply of three bytes needs three writes into a
socket that holds one. Scripts mix a good request, one whose reply is too big, one
of the greatest legal length, one that does not parse and one that is too long.
*Event loop*: more clients than descriptors, so that `accept` fails and descriptors
are reused, and batches of at most two of the three events that may be ready.
The run has both kinds of start: one client sends a long script and the others stay
away, or all three send one short frame, good or bad. Clients are interchangeable
there (symmetry; no liveness in that run). *End to end*:
words of one byte and a limit of eight, so that the longest `set` fills a request,
keys of one and two bytes fill the longest listing exactly and two keys of two bytes
are one byte too many; one command line is over the limit; a value may be empty and
an error message is longer than what its length field says. Two clients are enough
for two commands to be under way at once, and each runs any number of times.
*Payloads*: all sequences of up to five bytes 0 to 3 behind their length, that is up
to three strings and every way in which a length field can be wrong by little.
*Sorted set*: eight members make every form of both sides (`LL`, `LR`, `RR`, `RL`),
victims that are a right child and victims further down, and rotations above a
deleted node; depths and sizes need no more than four bits, and `WideSum` shows that
sums do wrap. "b" is a prefix of "bb", "d" and "e" share hash code and length; scores
that `zset_update` gives move a member across the order of names.

`CHECK_DEADLOCK FALSE` is in the cfgs of `HashMap`, `Server` and `ZSet`: a dead
process takes no step, and neither does a server whose clients have nothing more to
do. `NanoRedis` never stops, since a program may always be run again.

**Fairness.** `WF(Progress(c))` and `WF(try_one_request(c))` in `NanoRedis`: a client
is a program that does nothing else, and the server takes every complete request of
a client that waits for its reply (`RequestsAnswered` of `Server`).
`WF(Handler)` in `HashMap` and `WF(Running)` in `ZSet`: a call is straight-line code
and loops on the only thread; which call comes next is nobody's duty. `WF(Thread)` in
`Server`: the loop runs whenever it is not blocked in `epoll_wait`. `Fault` is not part
of `Thread`: a failing call is possible at any time and never due, and
`RequestsAnswered` excepts a server that has died. `WF(Read(c))`: a client reads what
it is sent; without it no server could finish a reply. Nothing is assumed of a client's
writing or hanging up, and `server_live` uses batches large enough for every ready
descriptor, as `MAX_EVENT_LEN` is for up to a hundred (beyond that the kernel's rotation
would have to be modelled).

### What the violations say

1. `hm_help_resizing` never increments `n_work` (`src/hashtable.cpp:132`): a resize
   is not progressive, the command that triggers it moves every node.
2. Its loop steps over at most one empty bucket before `h_detach`
   (`src/hashtable.cpp:133-136`): a drained bucket followed by an empty one, with a
   node beyond, is a NULL dereference.
3. A reply completed by an EPOLLOUT event does not lead back to `try_one_request`
   (`src/server_utils.cpp:89-90`): a complete request already buffered waits until
   the client sends something else.
4. `try_fill_buffer` asserts that the buffer is not full after a read
   (`src/server_utils.cpp:208`); a request of exactly `k_max_msg` bytes fills it.
5. SIGPIPE is not masked, so a write to a connection that was reset after its end of
   file (`src/server_utils.cpp:224`) ends the process before line 232 can handle it.
6. `out_int` writes eight bytes (`src/server_utils.cpp:388`), `on_response` takes four
   and `read_res` rejects the reply to every `del`, after it was printed.

`ImplementsService` holds in spite of the last because it compares the number and the
error code that are printed, not the status of `read_res` nor the text.

### Further defects, without a run of their own

* `out_err` writes the number of bytes before the message as the message's length
  (`src/server_utils.cpp:398`; the comment at line 394 says "4b - msg length"). Five
  bytes of the text are printed, the rest is left over, and `read_res` rejects the
  reply: a second way to violate `RepliesAccepted`.
* No insertion into a sorted set survives. `avl_fix` compares `lh - rh < -1` in unsigned
  numbers (`src/avl_tree.cpp:88`): every difference but the greatest number is less, so
  the new leaf, with equal depths on both sides, is taken for right-heavy and
  `avl_fix_right` dereferences its missing child. `include/avl_tree.h:35-38` says
  "rebalance the tree after insertion / deletion" and returns the root,
  `include/zset.h:51` "true if successfully insert". `AddingIsFatal` proves the fault
  for every tree; it is the extent of a defect, not something the code promises, and so
  `AddDies` is no property of `sorted_set`.
* `avl_height` is to return "0 if node is NULL" (`include/avl_tree.h:93`) and returns -1
  (`src/avl_tree.cpp:220`), which the model has as the code does it.

No handler calls the tree and the sorted set yet.
`src/zset.cpp` does not compile as it stands (`zset_pop` returns without a value when
its set is NULL, line 98); the model leaves that case out, since no caller passes NULL.

## 4. The proofs

### The hash table

`HashMapProofs` proves, for all finite or infinite `Keys` and `Values`, every `Hash`,
every power of two `InitSize` and all limits:

| Theorem | Says |
|---|---|
| `InvariantHolds` | `Spec => []IInv` |
| `TypesHold` | `Spec => []TypeOK` |
| `NodesStayInOwnBucket` | `Spec => []NodesInOwnBucket` |
| `KeysStayUnique` | `Spec => []KeysUnique` |
| `SizesStayExact` | `Spec => []SizesExact` |
| `CursorStaysOK` | `Spec => []CursorOK` |
| `LoadStaysBounded` | `Spec => []LoadBounded` |

None of the properties is inductive alone, not even the types: `size - 1` is a
natural number only if `size` counts the nodes, and `tb2.tab[resizing_pos]` is a
chain only if the cursor is in range, which holds only because a positive `size`
means that there is a node and the cursor has left none behind. `IInv` therefore
joins the types, for each table `GoodTable` (a proper array, nodes in their own
buckets, no key twice, exact size), that no key is in both tables, that `tb1` is
allocated whenever `tb2` is (nodes are moved into it), and the cursor.

The argument is by layers: lemmas about sequences and sets of numbers
(`RemoveAtProperties`, `MinOfNaturals`); what each operation on one table does to
`GoodTable` and to the set of keys it has (`InitGood`, `InsertGood`, `DetachGood`,
`SetValueGood`, `LookupProperties`), with `OneCellMore` and `OneCellLess` relating
`size` to the cardinality of the set of linked cells; one lemma per action that
touches the tables; `NextKeepsIInv`; the theorems. The assumptions used are
`HashAssumption` and `InitSizeAssumption` of `HashMap`.

`LoadBounded` needs more than `IInv`: that no resize is half done between commands,
which holds because `hm_help_resizing` never counts its work and so always ends with
an empty `tb2`, and that the two tables together are below the limit of the newer one
while nodes move. `LoadInv` says so; `NextKeepsLoad` proves it inductive relative to
`IInv`. `LimitsAssumption` is used in addition.

**Refinement.** `HashMapRefinement` proves `HashMapImplementsKVStore`, that is
`Spec => ImplementsKVStore`, by `InitRefines` and `StepRefines`: relative to `IInv`,
`do_request` is `KVStore`'s invocation; `do_get`, the two ends of a `do_set`, `do_del`,
`do_keys` and an unknown command are its step of effect; `Return` is its response; the
moves of `hm_help_resizing`, the lookups and a process that dies stutter. `Contents` of
the mapping is a function of the set `Nodes`, so the lemmas about tables say what an
operation does to the set of linked nodes (`InsertLinks`, `DetachLinks`,
`SetValueLinks`, `MoveNodes`, `DelNodes`) and those about `Contents` what that means for
the dictionary (`ContentsAdd`, `ContentsRemove`). `IInv` is what makes it so: a key has
one node in both tables together, so `Contents` is well defined and a delete takes the
only one; a key is in its own bucket, so a lookup that finds nothing means that there is
nothing. `ScanKeysEnumerates` shows that `keys` lists every key once: `h_scan` is the
flattening of the chains, which is enumerated by `ListsConcat` and `ChainsListed`.

### The event loop

`ServerProofs` proves, for any set of clients, any finite set of descriptors, any
requests, lengths, scripts, buffer sizes and limits:

| Theorem | Says |
|---|---|
| `TablesStayConsistent` | `Spec => []TablesInv` |
| `TablesStayInAgreement` | `Spec => []TablesAgree` |
| `EventsStayWithTheirConn` | `Spec => []EventsFindTheirConn` |
| `InterestFollowsState` | `Spec => []InterestMatchesState` |

That an event finds its connection is not inductive: it depends on what may close a
connection or reuse a descriptor while events are waiting. `TablesInv` adds that no
two events of a batch are for one descriptor, that none of them is for the connection
being processed (the only one that can be destroyed), that a waiting listen event has
a connection to accept, that a client is queued once and before it has a descriptor
(so `accept` cannot overwrite an entry), and that every connection but the current
one waits for what its state and buffer need, where the current one is excepted
exactly as far as `pc` allows. TLC has checked `TablesInv` on the instance of
`event_loop`. There is one lemma per action (`AcceptStep`, `ConnectionIoStep`,
`DestroyConnStep`, ...); those that move only `pc`, only the network or only the
current connection share `PcStep`, `NetStep` and `ConnStep`. Buffers enter only as
sequences with a length (`IsSeq`). The assumptions used are the three of `Server`,
among them that a length field has at least one byte, so that no reply is empty:
with an empty reply a connection would wait for room to write nothing.

`StreamProofs` proves, under the same assumptions and for streams of any length:

| Theorem | Says |
|---|---|
| `StreamsStayWhole` | `Spec => []StreamsInv` |
| `RequestsStayAligned` | `Spec => []RequestStream` |
| `RepliesStayInOrder` | `Spec => []ReplyStream` |
| `OnlyBadFramesEnd` | `Spec => []DroppedOnlyIfBad` |
| `TypesStayCorrect` | `Spec => []TypeOK` |

`StreamsInv` is a statement about each client on its own (`Strand(c)`), so a step is
proved for the one client it is about and the others are `Same` (`StrandStep`).
`RequestStream` becomes inductive with the bound on `served`; `ReplyStream` with what a
connection looks like before it is accepted (`Untouched`: `accept_new_conn` resets the
buffers, and loses nothing only because nothing of that client is in them) and which
states of a socket can still be in the table; `DroppedOnlyIfBad` with the same fact for
the connections in `STATE_END` that `conn_put` has not closed yet. `TablesInv` is used
throughout: that `cur` is accepted and that its write buffer is empty when a request is
executed.

The streams are frames put together by `FlattenSeq`, whose definition is a fold. What it
computes is proved in `LibraryProofs` by an induction on a set of numbers: the least
number for which a claim fails (`MinOfNaturals`) is not 0 and has a predecessor for
which it holds (`NaturalsFromZero`). `FlattenSeqNext`, that one more frame is joined to
the rest, is all the streams need. The step that matters is `BufferBegins`: if the
buffer holds a whole length field and body, then it begins with the next frame of the
script, whatever `rbuf`, `recvq` and `todo` are otherwise, so `try_one_request` parses
what the client meant and drops exactly its bytes (`FrameExecuted`).

### The tree and the sorted set

`ZSetProofs` proves, for any set of names, any scores, any table of hash codes and any
`Word > 2`, and whatever `hcmp` and `zless` read behind the end of a name:

| Theorem | Says |
|---|---|
| `InvariantOfZSet` | `Spec => []IInv` |
| `ZSetTypesStayCorrect` | `Spec => []TypeOK` |
| `LinksStayAgreed` | `Spec => []LinksAgree` |
| `AddingIsFatal` | `Spec => AddDies`, a defect and not a promise |
| `IndexesStayEqual` | `Spec => []IndexesAgree` |
| `CountsStayInvariant` | `Spec => []CountsInv` |
| `CountsStayExact` | `Spec => []CountsExact` |
| `OrderStays` | `Spec => []OrderInv` |
| `SearchOrderStays` | `Spec => []SearchOrder` |

`LinksAgree` alone is not inductive: on nodes that form a cycle the links can agree, and
a rotation there makes a node its own child. `Acyclic` therefore says that some rank `k`
falls with every link to a child (below a bound `top`, so that a rotation has room
above). A rotation, splice or swap is proved to keep it by giving the new ranks. The
other parts of `IInv` say how far the running call has come, which is what its next step
relies on:

* `Seeking` and `Waiting`: the calls of `avl_del` that wait for their victims to be
  removed are about different nodes, each waits for the next, the first is about the
  node to be removed, and all of them are above the node reached, in *every* rank of the
  tree. So the search for a victim never meets a node whose removal waits.
* `Removed`: while `avl_fix` repairs the tree, exactly one node, `Gone`, is in the hash
  table or the caller's hand and not in the tree. It is what `SwapVictim` puts back in.
* `Added`: what `tree_add` has linked is still a leaf when `avl_fix` begins.
* `Placing`, `ByHand`, `Repairing`, `AtRest`: the same for the descent, for trees made
  by hand, for the sides a rotation dereferences, and between calls.

TLC has checked `IInv`, `CountsInv` and `OrderInv` on the instance of `sorted_set`: the
first with `Cardinality(Subtree(n))` for the rank and the last with places in the list for
the numbers of `InOrder`, since the quantifiers over functions are infinite.

The argument has three layers, the first two in `AVLTreeProofs`: what an operation does
to a tree given as three functions for the left, right and parent links (`Turn`,
`TurnBack`, `NewLeaf`, `PlacedAbove`, `SplicedOut`, `SwappedIn`); that the heap
operations of the model make that change of links, stated as `HeapTree` before and after
(`TreeTurned`, `TreeLeaf`, `TreeSpliced`, `TreeSwapped`, `TreeRelinked`); and one lemma
per action of `ZSet` (`StepRotate`, `StepSeekVictim`, ...).

`IndexesStayEqual` needs that the recursive `Subtree` means anything. In a tree the
least set of nodes closed under children (`ReachedFrom`) solves its equation
(`ReachedStep`), and a solution is unique because of the rank (`ReachedIsUnique`); every
node is reached from the root, since a node of greatest rank that is not would have a
parent that is not either (`ReachedFromRoot`).

`CountsExact` holds between calls only, and speaks of whole subtrees. `CountsInv` is
local and holds in every state: the `cnt` of a node is one more than those of its
children together, except at the nodes in `Stale`, which are the node that `avl_fix` (or
the caller who links by hand) is at, until `avl_update` has run on it, and the node above
it. That a rotation keeps this is the point of the order in which it updates its two
nodes (`RecountTwo`, `TurnedCounts`); that `SwapVictim` keeps it is because the copy
takes the count of the node as the climb has left it (`SwappedCounts`); that a climb
leaves only the next node up stale is because the update of a node can disturb no sum but
its own and its parent's (`TreeUpdateCounts`). The actions are the lemmas `CountsRotate`,
`CountsSplice` and so on. Between calls `Stale` is empty, and then the counts are the
sizes of subtrees (`SumsAreSizes`): of the nodes for which they were not, one of least
rank has children for which they are, whose subtrees are apart (`SubtreesApart`). The sum
does not wrap since the tree has fewer than `Word` nodes, which `CountsExact` supposes
(in the code `Word` is 2^32, and that many nodes take hundreds of gigabytes).

`SearchOrder` speaks of whole subtrees, and of a relation that is no order: of a name and
a prefix of it `zless` may say either, and what may be put side by side need not be
transitive. What is in the tree between calls is in order for another reason. It was
linked by hand, in the order of `List`; an insertion by `tree_add` never returns
(`AddingIsFatal`); and a removal keeps the order of the rest. So `OrderInv` has two
halves:

* `Listed` and `InOrder`: the nodes that stay (`Members`) are entries of `List`, and there
  are integers `i` that put the tree in order and agree with the places in the list. That
  `i` puts the tree in order is said locally, by bounds `lo` and `hi` for what is below
  each node (`Between`; `Spans` and `Spread` in the proofs). Each turn of the tree is
  proved to keep `i` by giving new bounds for the nodes it moves (`TurnedSpans`,
  `TurnedBackSpans`, `SplicedSpans`); a victim takes the number of the node whose place it
  takes (`SwappedSpans`); a new leaf needs room beside its parent, so `i` is doubled first
  (`LeafSpans`), and a node linked by hand comes after all others (`PlacedSpans`).
* `Descending`, for the node that `tree_add` brings in, which no list orders: the answers
  of `zless` on the path from the root to it. `SearchOrder` for this node is that path
  (`UpToTop`); nothing is turned before the process is gone.

The other three parts say where the running call is: `Appending`, that a caller who links
by hand is on the right edge; `Succession` and `Leftmost`, that a victim is the next node
after the one it replaces *among the nodes still in the tree*. With victims of victims
that last part is not obvious: the frames are in ascending order, each one's victim is the
next one's node, and the swap that puts a victim back in is at the end of the chain, so it
puts nothing between an earlier node and its victim (`OrderSwapVictim`).

The assumptions used are `NodeAssumption` and `WordAssumption` of `AVLTree` and
`ZNodeAssumption`, `NameAssumption` (that `strcmp` does not put two names before each
other), `ScoreAssumption` and `ListAssumption` of `ZSet`.

### The client and the server

`NanoRedisProofs` proves, for words of any size, every `k_max_msg`, any clients and any
commands:

| Theorem | Says | Peers |
|---|---|---|
| `BytesStay` | `Spec => []BytesInv` | any, sending any bytes |
| `ParserIsExact` | `Spec => []ParseExact` | any, sending any bytes |
| `OnlyMalformedDropped` | `Spec => DroppedOnlyIfMalformed` | any, sending any bytes |
| `EncodedIsRead` | `parse_req` reads of an encoded command that command and no other | |
| `CallsStay` | `Spec => []CallsInv` | none |
| `BuffersSuffice` | `Spec => []TypeOK` | none |
| `ClientsAreServed` | `Spec => ImplementsService` | none |

The last three suppose `Peers = {}`, as the run `end_to_end` does: a program that sends
frames of its own may send several at once, so that replies pile up beyond one frame, and
may change the key space by commands that `Service` knows nothing of.

**The parser.** `BytesInv` is what the first three need of the state: that what is under
way is bytes. They are about the operators of `WireFormat`, three of which are recursive
functions, and a recursive function is one that is chosen because it solves its
equation; so each is first shown to have a solution:

* `Number` folds from the right, over subsets of the places in the word. `FoldsExist`
  extends a solution by a first place at a time; `Remainders` are its values on what
  follows each byte.
* `Bytes` divides by 256 again and again (`HalvesExist`). On the number in a word the
  quotients are the remainders (`HalvesAreRemainders`), so writing the number gives the
  bytes of the word back (`WordOfNumber`).
* `Strings` of `parse_req` is one row of offsets for each number of strings
  (`RowsExist`); rows that begin alike are alike (`RowsAgree`), so there is one function
  for all numbers (`AllRowsExist`).

That the command encodes to the payload (`ParseReads`) is an induction on the number of
strings: each string with its length is the piece of the payload it was read from
(`StringThere`), and the pieces join up. That the payloads accepted are the requests
(`ParseAccepts`) is another: a string in front is one more cut (`AddCut`), and where a
payload has more than one cut there is a string at the first (`DropCut`). The limit on the
number of strings (`src/server_utils.cpp:265`) refuses no request that `BodyLen` has let
through, since each string takes at least one byte.

**The way back.** `EncodedIsRead` is the converse of `ParseReads`, by induction on the
strings of the command. `Has(data, at, s)` says that `s` stands in `data` at an offset;
`HasParts` takes a concatenation apart and `HasWord` reads a number there. Where a number
is written and read again something is divided by 256 as often as a word has bytes:
`NothingLeft` says that this leaves nothing of a number up to the limit
(`LengthAssumption`), and `NumberOfBytes` that the number is then the one written.

`Readable(reply)` says of a reply that its encoding is bytes that fit in a frame, and that
`on_response` finds something there and finds nothing but this reply. It holds of every
reply a handler sends (`NilReadable`, `StrReadable`, `IntReadable`, `ErrReadable`,
`ListingPacked`). `on_response` is a recursive function of the offset, and `ArrAt` in it a
recursive function of the number of entries, which uses the first one. Responses are
therefore built from the end of the data backwards (`RespFrom`, `ResponsesExist`): what is
found at an offset takes at least one byte (`Fits`), so the entries of a list lie behind
its tag and what `ArrAt` is depends on the responses at later offsets only (`ArrAgrees`,
`RespAgrees`). A list of strings is then an induction on the entries read (`ReadSoFar`,
`NextEntry`).

**The calls.** What is under way of a call is a statement about one client (`Phase`):

* `Idle`: nothing is.
* `Asking`: what the server has and what is not written yet are together the frame of the
  command, nothing has come back, and the handler has not chosen a reply.
* `Answered`: what the client has read and what is under way are together the frame of a
  `Readable` reply, the one that was chosen, and nothing is left of the request.

`CallsInv` says that each client is in such a phase, and of the key space that its
values are strings whose reply fits in a frame (`StoreInv`): a value arrived in a
request, which holds a command, a key and four length fields besides (`SetLength`), so
`get` never answers `ERR_2BIG`, which `Service` would not allow. Bytes move from one
half of a frame to the other by pieces of any size (`Moved`, `FrontOfFrame`); when the
server finds a whole frame, nothing else is in the buffer, `parse_req` gives the command
of that client (`WholeFrame`, `RequestIs`), and no connection is ever dropped
(`NoneDropped`). TLC has checked `CallsInv` on the instance of `end_to_end`.

**Refinement.** Relative to `CallsInv`, `send_req` is the call of `Service`, a request too
long to send its refusal, the five handlers its step of effect (`GetHandled`,
`SetHandled`, ... give the answer and the new key space, `GetPromised`, ... what `Service`
allows), the piece that completes a reply its return; every other write and read stutters
(`StepKinds`, `StepImplements`).

The assumptions used are those of `WireFormat` and `NanoRedis` and one of `NanoRedisProps`;
TLC evaluates each of them on the instances:

| Assumption | In the code |
|---|---|
| `WordAssumption`, `MaxMsgAssumption` | a word has at least one byte, and there is a limit |
| `ArgvAssumption`, `FrameAssumption` | arguments and frames are bytes |
| `LengthAssumption` | `k_max_msg` is less than 2^32 (it is 4096) |
| `SpellingAssumption` | no word is equal to two of `get`, `set`, `del`, `keys`, ignoring case |
| `TextAssumption` | "Unknown cmd" and "response is too big" have at least the five bytes that `on_response` takes for the message, and an error reply fits in a frame |
| `CommandAssumption` | `Keys` and `Values` hold the strings of the commands |

### Only model-checked

* Liveness (`CommandEnds`, `RequestsAnswered`, `DescriptorsReleased`,
  `CallsReturn`, `CallEnds`): it rests on fairness and on ENABLED, which the prover does
  not handle.
* The six violations, which are behaviours of the code that a run exhibits.

Every safety property and every refinement that a passing run checks is the statement of a
theorem.

## 5. Not modelled

* **Memory**: `malloc` and `calloc` do not fail in the hash table and in `do_set`,
  where the result is not checked and what follows is undefined; leaks are not
  counted.
* **Ignored results**: the `epoll_ctl` calls at `src/server.cpp:60` and 85 and
  `src/server_utils.cpp:166` and 251 do not fail. Nothing in the code would answer it.
* **A client that writes without end**: scripts are finite, so that the starvation the
  loop at `src/server_utils.cpp:175` allows does not appear. No part of the code
  prevents it and no document promises otherwise.
* **The composition** of `NanoRedis` with the connections of `Server` and the tables of
  `HashMap` is argued above, not checked: together they are beyond the runs' time.
* **The exit status** of the client, texts of messages except the one whose length is
  at issue, and logging.
* **Code that nothing calls**: `avl_fix_recursive`, and `avl_offset`, which is only
  declared.
  Scores are integers here, so the comparisons with NaN are left out.
* **Build files** and what CMake generated under `cmake-build-debug`.
