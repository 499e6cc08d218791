# RamseySearch in TLA+

This directory is the verification development of RamseySearch, a distributed
search for two-colourings of complete graphs without a one-coloured 7-clique
(counterexamples for R(7,7)). A *server* keeps directories of seed graphs and
hands them to *clients*; clients search for graphs with fewer 7-cliques and
upload what they find. The specifications are translated from the C sources
under `src/src`. Five source files of the repository hold unresolved merge conflicts
(`server.c`, `server_transfer.c`, `search.c`, and the headers `server_transfer.h` and
`client_transfer.h`), as does the log client's Makefile; in the sources the two sides
differ in line ends only, and line numbers here are those of the first side.

## 1. Inventory

| Component | State | Operations | Hard because of |
|---|---|---|---|
| Seed server (`server.c`, `server_transfer.c`) | `broadcast_list`, `send_count`, `collect_count`, `clique_count`, `g`, `gsize`, the directories `seed_0`, `seed_1`, `ce_<n>`, the file `temp/temp` | accept, register, receive a request / graph / log request, send a graph, judge an upload, end a round, broadcast | directories swap roles by parity; counters compared in three handlers; uploads cut off; process death and restart over persistent directories; clients that leave |
| Status printer (`server.c:191-210`) | none of its own | print the counters every 5 s | reads without a lock, prints a shadowed global |
| Search client (`client.c`, `client_transfer.c`) | `recv_flag`, `search_mode`, `best_ever`, the files `old_graph`, `new_graph`, two threads | check, request, listen, receive a graph, load, search, upload | main and listener receive at the same time; flag tests and clears; replies lost half way |
| Tabu search (`search.c`, `recursion.c`) | the graph, best flip so far, taboo list, recursion | breadth-first and depth-first search, neighbours, recursion | every path must restore the graph, caches stale, uninitialized locals, `best_ever` moving |
| Clique counting (`clique_count.c`, `list.c`) | `cache_6`, `cache_7` | full count, cache, incremental count of a flip | incremental count must agree with the full one; bounds; key precision |
| Taboo list (`fifo.c`) | a FIFO and an index of it | insert with eviction, find | two structures kept in step with duplicate keys; edge and count packed into one key |
| Graph files (`graph.c`) | none | print, read, copy, compare | fixed line buffer, truncated files |
| Containers (`jrb.c`, `jval.c`, `dllist.c`) | a red-black tree threaded by a list | find, insert, delete, free | rebalancing with equal keys; links kept in four places |
| Log client, tests (`ask_for_log.c`, `test_clique_count.c`) | none | | not part of the search |

How they interact: a client sends `c` (start) or `r` (after a breadth-first
search) and gets *mode, target, graph* on the same connection; after a
round the server connects to each active client's listener and sends the same
message there; a client connects and sends a graph file to upload it. Client
and server share no memory; main and listener of one client share
`recv_flag`, `search_mode`, `best_ever` and the file `old_graph`.

## 2. Plan

Most important first. A module that is proved about declares no RECURSIVE
operator.

1. `SeedRounds`, `SeedServer`, `SeedServerProps`, `MCSeedServer`,
   `SeedServer_proofs`: the server and what it promises. *Done.*
2. `SearchClient`, `SearchClientProps`, `MCSearchClient`,
   `SearchClient_proofs`: the two threads of a client against a server that
   answers and broadcasts. *Done.*
3. `CliqueCount`, `CliqueCountProps`, `MCCliqueCount`, `CliqueCount_proofs`:
   the caches of a search and the incremental count of a flip, against the set
   definition of a one-coloured clique; the key and its precision. *Done.*
4. `JrbTree`, `TabooKey`, `TabooList`, `TabooWindow`, `TabooListProps`, `MCTabooList`,
   `TabooWindow_proofs`, `JrbTree_proofs`, `TabooList_proofs`: FIFO and index down to the
   tree's nodes, refining a bounded window, with the proof of the tree. *Done.*
5. `GraphFile`, `Search`, `SearchProps`, `MCSearch`, `GraphFile_proofs`,
   `Search_proofs`: both searches and the recursion over abstract clique counts,
   with the files they print and compare: the caches are fresh whenever they are used
   (an assumption of `CliqueCount`'s environment), uploads meet the target, the graph is
   restored. *Done.*

All safety properties of the passing runs are proved. What is left to prove: when the
properties that the findings refute do hold (that a client whose two threads never receive
at the same time loads whole graphs, and aims at the server's target once nothing
is under way), as the first finding already has its theorem `TargetsAreMet`.

Left out of the plan: a composition of `SeedServer` with several `SearchClient`s. Each
of the two models already has the other side's part of a connection in it (the
uploads and departures of clients there, replies, broadcasts and their loss here),
and what goes wrong between them (a splice, an old target) shows in the client's
model alone. A composition has not been tried.

How the modules of the client fit together: `SearchClient` has the two threads and takes
a search as its start and its end; `Search` opens the search up and takes
the listener as a step that changes flag and target; `Search` takes the cliques
of a graph as a parameter, and `CliqueCount` shows that the caches compute them
under the discipline `CachesFresh` states; `Search` uses the window of `TabooWindow`,
and `TabooList` shows that FIFO and tree implement it.

## 3. The seed server

`SeedServer` has one action per step of `main`. `pc` is its place in the loop:

| pc | code | actions |
|---|---|---|
| `accept` | `server.c:98` | `Accept(ip)`: accept and registration in `broadcast_list` |
| `receive` | `server.c:141` | `ReceiveRequest`, `ReceiveGraph(f)`, `ReceiveOther` (error, log request) |
| `reply` | `server.c:144-153` | `Reply`: `send_file` in the mode chosen by `receive_file` |
| `judge` | `server.c:157-165` | `Judge`: ReadGraph, CliqueCount, the verdict; an obsolete graph goes straight to `EndOfUpload` |
| `saveCE`, `writeCE` | `server.c:160-161`, `server_transfer.c:335-347` | `OpenCE`, `CloseCE`: the copy into `ce_<n>`, if that directory exists |
| `keep`, `writeSeed` | `server.c:162-167`, `server_transfer.c:335-347` | `OpenSeed` (counts), `CloseSeed`: the copy into `seed_<d>` |
| `round` | `server.c:170-180` | `NextRound`: target, `ce` directory, `delete_graph`, resets |
| `broadcast` | `server_transfer.c:280-319` | `BroadcastSkip`, `BroadcastSend`, `BroadcastFails`, `BroadcastDone` |
| `down` | - | `Crash` from anywhere; `Start` as the operator does it |

Abstractions. A graph is a record of its size and its number of 7-cliques.
Files are functions from indices to contents, and a content is a graph,
`Broken` (ReadGraph rejects it) or `NoFile`. `Garbage` is memory that holds no
graph: what `CliqueCount` makes of it is any number up to `MaxCliques`.
A random choice of `send_file` is any index the expression can give. What a
client receives is the variable `reply`; the connection may break before
(nothing counted) or while the file is sent (counted). `active = -1` is
`FALSE`. `copy()` has two steps, as it empties the file with `fopen("w")` and fills it
through stdio: a process that dies in between leaves it `Broken`, empty or cut off.
The other two places that write files are one step each, because what a death
leaves of them is written again before it is read: `temp` by the next upload, and a
directory `delete_graph` was cleaning by the operator (`seed_0`) or by the copies of the next
round (`seed_1`). The history variable `torn` remembers which files of `ce_<n>` a
death has cut short. The port, `recv_count`, `ip_log` and the printing are left out;
`fclose(NULL)` (`server.c:138`) and SIGPIPE are `Crash`.

Constants: the code's `GRAPH_COLLECT_NO`, `RECURSION_THRESHOLD` and the length
`MAX_DES` of `broadcast_list`; `ClientsAssumption` states what the program does
not check, that the addresses fit into the list; `ThresholdAssumption` states
that the threshold is even, without which the wrap would clean the directory
that was just filled. `MaxCliques` and `MaxGsize` bound the model only:
`MaxGsize` bounds the sizes garbage has, and uploads that are broken stop once
`gsize` has reached it, for `gsize` grows at each wrap that reads no graph.

`SeedRounds` is the promise: rounds with a target, a pool and a list of
collected graphs. The mapping (`SeedServerProps!Rounds`) reads the collected
collected graphs from directory `clique_count % 2` and the pool from the other.
A graph is collected when its copy is whole (`Kept`, one less than `collect_count`
while main writes it), and a death loses what the round has collected (`Die`): what is
left in the directory nobody counts any more.

`CEWholeOrTorn` is what `ce_<n>` promises: counterexamples of `n` nodes, but for the file
main is writing and for those a process died writing. These stay, as `ce_<n>`
outlives the process and nothing repairs it. `CEComplete` says that what the
round has collected is there too. Neither forbids that a later round, or a restarted
server, finds another counterexample and puts it into the same `ce_<n>/<k>`: the
code does so, and the earlier one is lost.

### Runs

| Run | Instance | Shows |
|---|---|---|
| `server_rounds` | 1 address, 2 graphs per round, targets 3..0, all uploads whole, 2 sizes; 4 106 709 states | `TypeOK`; collected graphs meet the target; the pool is complete; replies are graphs; `ce_<n>` is whole but for what a death cut short, and complete; `ImplementsRounds` |
| `server_cut` | 2 addresses, 2 graphs per round, targets 1..0, uploads may be broken; 756 708 states | replies open existing files; one slot per client; counters never jump; depth first is stable |
| `server_live` | the same with sizes to 1, `FairSpec`; 277 918 states | back to `accept` always; targets 0 and top again and again |
| `server_target` | 1 address, broken uploads | **violated**: see Findings |

Two graphs per round and two or four targets are enough for each comparison of
a counter with a limit to be met from below and at the limit, for both
directories to be filled, deleted and filled again, for the wrap to happen
with each parity, and for a crash to leave old files behind. Two addresses let a
broadcast meet a client that has retreated between two that have not or the
other way around. `MAX_DES` is the number of addresses.

Deadlock is checked in every run: the server can always do something.

### Fairness

`main` is a thread that is always runnable, so its own steps (`Serve`) and a
restart by the operator (`Start`) are weakly fair. `recv` has no timeout: weak
fairness of `Receive` *assumes* that a connected peer sends or closes, and
`BackToAccept` depends on it (one silent client blocks the server for ever).
Weak fairness of `Accept` says that clients come. `RoundsGoOn` needs clients
that keep finding graphs without a clique and get one through repeatedly
(strong fairness, as other connections lie in between), and is claimed only for
behaviours in which the process finally stays up.

### Proofs

`SeedServer_proofs` proves for every value of the constants that satisfies the
assumptions:

- for arbitrary uploads, broken ones included: `TypeOK`, `RepliesExist`,
  `OneSlotPerClient`, `SendCountStops`, `RoundNotFull`, `DepthFirstStable`;
- if all uploads are whole (`Uploads \subseteq Graph`): `SeedsMeetTarget`,
  `PoolComplete`, `RepliesAreGraphs`, `CEWholeOrTorn`, `CEComplete`
  and the refinement `ImplementsRounds`.

The first group rests on `Inv == TypeOK /\ CountersInv /\ FilesInv /\
OneSlotPerClient /\ RepliesExist`. `RepliesExist` is not inductive: a reply finds
its file because the pool directory is complete and the target directory is
complete below `collect_count` (`FilesInv`), which in turn needs that a round
ends only when `collect_count = GRAPH_COLLECT_NO`. `SendCountStops` needs two
facts that are not in the code's tests: a broadcast counts at most one per slot, and there
are at most `MAX_DES <= GRAPH_COLLECT_NO` slots (lemma `ListBound`, by
cardinality, from `OneSlotPerClient`); so `send_count` cannot jump over the value the
equality test compares with. The second group adds `WholeInv`. Parity is isolated in the lemmas
`Parity`, `TopTargetParity` and `NextRoundParity`: the directory cleaned at the end of
a round is always the old pool. In the refinement proof each action maps to the
abstract action of the same meaning or to a stutter; `CloseSeed` is `Collect`,
`NextRound` is `Advance`, a reply is `HandOut` or `TakeBack`, `Crash` is `Die` and
`Start` is `Restart`. `CEWholeOrTorn` and `CEComplete` need `CopiesInv`: between the verdict
and the last copy `gsize` is the size of what is in `temp`, which has no clique on
the way through `ce_<n>`, and the first copy is done when the second begins. The index of
a copy is below `GRAPH_COLLECT_NO` by `RoundNotFull`.

Only model-checked: the liveness properties, which are out of the prover's
reach.

### Findings

`server_target`: the comment at `server.c:23` calls `clique_count` "the clique
count of the seeds we are currently waiting for", but an upload that `ReadGraph`
rejects is judged by the graph read before it (`server.c:157` ignores the
result), or by uninitialized memory before the first one, and is stored as a
seed. `TargetsAreMet` proves that this is the only way: with whole uploads the
property holds.

## 4. The search client

`SearchClient` has the client's two threads. They share `recv_flag`,
`search_mode`, `best_ever` and the file `old_graph` without a lock, so an action
is one access to these by one thread, and everything else a thread does is part
of such an action. `at[t]` is the place of thread `t` in `receive_file`, which
both run; `pc` is the place of `main` outside it.

| place | code | actions |
|---|---|---|
| `at = "mode"`, `"target"` | `client_transfer.c:94-109` | `RecvMode`, `RecvTarget`, `GiveUp` |
| `at = "open"`, `"file"` | `client_transfer.c:111-132` | `OpenOldGraph` (truncates), `RecvUnit`, `CloseOldGraph` |
| `at = "flag"` | `client_transfer.c:133` | `SetFlag` |
| `at["listener"] = "none"` | `client_transfer.c:188-213` | `ListenerAccepts` |
| `pc = "check"`, `"request"`, `"await"` | `client_transfer.c:64-86`, `217-241` | `Connect`, `Refused`, `ServerReplies` |
| `pc = "poll"` | `client.c:40-41`, `51` | `Poll`, `Sleep` |
| `pc = "load"`, `"rest"` | `search.c:220-224` | `LoadFirst`, `LoadRest` |
| `pc = "choose"` | `client.c:43` | `Choose` |
| `pc = "df"`, `"bf"` | `search.c:26-197` | `DFsearch`, `BFsearch`, `SearchGarbage` |
| `pc = "test"` | `client.c:47` | `Test` |
| `pc = "exited"` | - | `Restart` |

Abstractions. A file is a sequence of *units*, the stdio buffers that reach the
file system one by one; each unit remembers its graph and its position. A write
goes to the offset of its own stream, so two streams over one file truncate
and overwrite each other, and a write past the end leaves a hole (`Junk`); `fp[t]` is the
offset. The last buffer reaches the file in `fclose`, before the flag is set; if the connection
broke, it is a part of a unit (`Junk`) or nothing. The searches are
their start and their end: depth first ends through the flag only, breadth
first also by itself. The server is an input: it answers with its current target and
lowers it with each broadcast, as `SeedServer` does; `queue` holds the broadcasts
that are sent and not yet received, at most `Backlog`. Each kind of trouble can be
switched on in `Faults`: connections that break before or within the file,
short reads (`recv` returns part of a header block, and all that follows is out of
step: up to 2046 bytes of the header come in front of the graph, and the file has
`Units` or `Units + 1` units of `Junk`), and a server that cannot be reached (`create_connection` exits, also in an
upload during a search). A restarted client finds the old file. A client that loads what is
not a graph may go on or die of it. Not modelled: a short read that ends between two
digits of the target.

### Runs

| Run | Instance | Shows |
|---|---|---|
| `client_threads` | 2 graphs of 2 units, 1 target, 1 waiting broadcast, all faults, `FairSpec`; 237 057 states | `TypeOK`, `LoadedIsFile`, `RunsAsTold`, `FlagNoticed`, `NeverIdle` |
| `client_torn` | 2 targets, no faults | **violated**: `LoadsWhole` |
| `client_newest` | 2 targets, no faults | **violated**: `AimsAtTarget` |

Two units are the fewest for which a file can be read, written or cut in the
middle; two graphs tell a splice from a graph; with one broadcast waiting, one in
the listener and a reply in main, three messages are under way at once, one more than
there are threads. `client_threads` has one target: no guard of the client looks at `best_ever`, so
that only `AimsAtTarget` depends on how many there are, and with two the counter of targets
goes round. Without liveness the other properties were also checked with two (944 740 states).

### Fairness

Both threads are scheduled (`Main`, `Receive`), a search looks at the flag
after each candidate, the server answers a request and the listener accepts.
`Receive` is fair because the server closes each connection after sending; a
breadth-first search is *not* assumed to end by itself, a broadcast is not assumed
to come, and after an exit nobody need restart the client. `NeverIdle` therefore
has the exceptions its definition names: the client has died, or its last
reception gave up before the file (`client_transfer.c:96`, `106`, `117`), when it sleeps
until a broadcast comes.

### Proofs

`SearchClient_proofs` proves `TypeOK`, `LoadedIsFile` and `RunsAsTold` for any graphs,
any number of units, any backlog and any faults. `TypeOK` contains that `old_graph` is at most
one unit longer than a graph, and is inductive through
`ConnOK`, which ties what a connection still holds to the place of its
thread and to its offset: what is written and what is to come make one file.
`LoadedIsFile` needs `LoadInv`, which adds that main, between its two reads of the file, holds the first unit of what is still there
unless the flag is up again or a thread is inside the file. `RunsAsTold` is inductive
together with `TypeOK`.

### Findings

`client_torn`: `main` in `send_request` and the listener may be in `receive_file` at
the same time, on the same file. One truncates it while the other writes, and the
search starts on the beginning of one graph and the end of another, with no fault of the
network. `ReadGraph` is documented to read "a graph of the correct format"
(`graph.c:57`) and accepts the splice, as both are matrices of one size.
`client_newest`: a reply sent before a broadcast and processed after it sets
`best_ever` back to the target of the round that is over. Each overlap needs only that the reply is
still in the socket's buffer when the round ends.

## 5. Clique counting

A search flips each edge, asks `CliqueCountUseCache` how many 7-cliques the graph
then has, and flips it back; the best flip is kept and the caches are made anew.
`CliqueCount` has one action per turn of a loop.

| pc | code | actions |
|---|---|---|
| `cache` | `clique_count.c:130-181`, `list.c:18-53` | `AddClique`: the next 6-clique and the 7-cliques that continue it; `CacheCreated` |
| `ready` | the callers, such as `search.c:166-189` | `Call(edg, st)`: the flip and `clique_count.c:114-119`; `Flip(edg)`: the flip that is kept |
| `search` | `list.c:191-207` | `Bisect`, `Bisected`: `binary_search_first` |
| `scan` | `list.c:129-188`, `clique_count.c:121-127` | `Scan`: one turn of `search_6`; `Scanned` |
| `done` | `search.c:179` | `Restore`: the flip back |

Abstractions. A clique is a set of nodes, its place in the nested loops of
`CliqueCountCreateCache` is the order `Before`. As the loops go to the next clique in that order, that
`cache_6` has every 6-clique once is partly a matter of this abstraction; that `cache_7` and the
count agree with it, and that both still fit after a flip and its undoing, is not. `cache_6` is a sequence, since the
binary search depends on its order; `cache_7` is the set of its elements and
`length_7` the counter. The clique sizes 6 and 7 are `K - 1` and `K`. `Nodes` may be
any part of the graph's nodes, so that a graph with high node numbers can be
checked: nodes outside are in no clique. `CliqueCount` itself is the operator `Cliques`, the
reference the caches are compared with. `Key` is the exact value of `MAKE_KEY` in doubles (radix
211, round to nearest even at the two sums that can pass 2^53), as a pair of numbers that fit
TLC's integers; it is exact for up to seven nodes whose lowest is at most 203, for which the key stays
below 2^54. The capacities of the arrays are not modelled. The callers' discipline, that the caches
are those of the graph whenever `CliqueCountUseCache` is called, is read off `search.c` and
`recursion.c` and is part of `Next`: each kept flip is followed by `CliqueCountCreateCache`.

### Runs

| Run | Instance | Shows |
|---|---|---|
| `count_flips` | all graphs of 5 nodes, `K` = 4, limits 0, 1 and 3, `FairSpec`; 165 026 states | `TypeOK`, `CachesExact`, `FlipCountExact`, `CallReturns` |
| `count_keys` | 8 nodes 103..110, `K` = 7, one graph | **violated**: `FlipCountExact` |

With 5 nodes and cliques of 3 and 4, caches have from 0 to 10 entries, a flip makes and breaks up
to three cliques, each is found from one or from two entries of the cache, and the
limits are met from below, exactly and from above. The loop's length, not `K`, is what
the binary search and the early exit depend on. Deadlock is checked.

Fairness: the search is one thread that does not wait for anything, so its own steps
(`Step`) are weakly fair; which edges it tries is up to `Next`.

### Proofs

`CliqueCount_proofs` proves for every finite set of nodes, every `K >= 3`, every set of
start graphs and every set of limits:

- `TypeCorrect`: `TypeOK`, with the bounds of the binary search and of the scan;
- `CachesAreExact`: `CachesExact`;
- `FlipCountIsExact`: `KeysDiffer => (Spec => []FlipCountExact)`.

`CachesExact` speaks of the time between calls only. Its strengthening `CacheInv` is about
`Base`, the graph the caches were made of, which during a call is the graph with the
edge flipped back: every cached clique is a clique of `Base`, entries are in order, no
clique before an entry is missing, and `cache_7` is what continues an entry. That
`cache_7` is complete uses that a set of nodes has a last one (lemma `HasLast`, by
well-foundedness), and that the two sizes agree uses that a clique continues only one
smaller clique (`SameEnd`).

`FlipCountExact` needs `CountInv`: the entries after the end of the search hold only nodes later
than the edge, *except perhaps the last*, and the keys seen are those of the cliques
grown so far. That skipping the last entry is harmless is lemma `AllFound`: a new clique
contains both nodes of the edge, so two entries grow to it, one is not the last, and each
holds a node no later than the edge. The key set is there because of this double finding;
`KeysDiffer`, that cliques of `K` nodes have different keys, is therefore a hypothesis, and
`count_keys` shows that it cannot be dropped. Only model-checked: `CallReturns`.

### Findings

`count_keys`: from `gsize` 111 on two cliques can share a key, since a lowest node of 103 times
211^6 is beyond 2^53. `search_6` then counts one of two new cliques, against its
comment ("the number of new cliques that will be generated", `list.c:13`), and the search
believes a flip better than it is. The comment at `list.c:55` bounds the keys by the greatest
double, which is not the bound that matters.

## 6. The taboo list

A search keeps the last `TABOOSIZE` flips, each with the count it led to, in `fifo` (a
linked list) and in `findex` (a red-black tree), and refuses to make a flip that is in the
tree. `TabooList` has one action per function the searches call.

| Definition | Code |
|---|---|
| `FIFOInitGraph`, `FIFODelete` | `fifo.c:29-67`; `jrb.c:121-132`, `602-613` |
| `FIFOInsertEdgeCount` | `fifo.c:426-487`: evict the head from both at the limit, append, index |
| `FIFOFindEdgeCount` | `fifo.c:489-512` |
| `MakeEdgeCountKey` (`TabooKey`) | `fifo.c:412-424`: `(i * 2^16 + j) * 10^8 + count` |
| `jrb_find_gte_dbl`, `jrb_insert_b` | `jrb.c:203-234`, `273-304` |
| `recolor`, `single_rotate`, `Hang`, `Plant` | `jrb.c:306-394` |
| `jrb_delete_node`, `Shortened`, `Raised`, `Settled`, `Rotate23` | `jrb.c:396-515` |

`JrbTree` is the tree as operators on its memory: a record with the set of nodes `malloc` gave
out and, for each field of a node, a function from nodes to its value. Internal nodes have their
children and, in place of a key, the leaves on either side; leaves hold the keys and are
linked into a list. Everything the calls above reach is there, with every case of a deletion;
where the code prints an error and calls `exit`, the flag `exited` is set and the program
does nothing more. A loop of the code is `Loop`, its body applied as often as there
are nodes; a body that has met the loop's condition changes nothing, and that no loop of the
code needs more turns is proved (`LoopEnds`). A `Jval` is the number in it and a `Dllist` a
sequence. The key is exact: the code computes it in a double, which holds it for graphs
of fewer than 1374 nodes.

The memory is any finite set of nodes with room for the list: `MaxSize` leaves, one internal node
fewer, and the head (`TabooAssumption`). The code does not check what `malloc` returns.
`Entries` are taken to be packable (columns and counts below their radix). The entries the
searches may insert unassigned (`recursion.c:119`, and `search.c:82` after a scan that takes no
edge) need not be: two such entries may share a key, and a lookup may then answer for one
that is not in the queue. `Search` has these entries, in the window.

`TabooWindow` is the promise: the entries that are taboo are exactly the last
`Size`. The mapping (`TabooListProps!Window`) takes the window from the queue and what
is taboo from the lookups.

Run `taboo_tree`: three entries, a list of seven, any order of inserts, evictions
and ends of searches; 11 525 states. It shows `NeverStuck`, `NeighboursKnown`,
`IndexHoldsQueue`, `Balanced` and `ImplementsWindow`. With three keys every key is in the list
several times, next to itself and to both others, so that the eviction of one of
several equal keys is the common case; with seven leaves the tree is three or four
levels deep and every branch of the deletion is taken. The three entries differ in the
count or the edge only and have consecutive keys. The radices of the key are small
(4 and 2); what matters of them is proved. The memory has room for one key more than
the list may hold, so that a list that grew too long would show.

The run uses a view. In the model `malloc` gives one fixed free address, but no code compares two
addresses, so the view numbers the nodes from left to right. It also leaves out
the flag `left` of the root, which every reader in `jrb.c` tests only after
`root`, and what is still in memory that was freed. The properties depend on none of these.

### Proofs

`TabooWindow_proofs` proves for every set of entries and every size that what is taboo is
what is in the window, that the window never exceeds its size, and that only the oldest
entry of a full window becomes free (`WindowTaboo`, `OldestLeaves`), under the
hypothesis that the size is positive.

`JrbTree_proofs` is about the operators of the tree, for any memory and any integer keys. A
set of nodes reached from the root cannot be written without recursion, and what is proved
by induction over trees elsewhere would need one; here the shape of a tree is a state of
affairs between neighbours:

- `Linked`: the head knows the root, parents know their children and children their parent
  and side.
- `Listed` and `Spans`: there are a *position* `pos` for each node and a *stretch* `lim` between
  two positions for each node, such that the children of a node share out its stretch
  at its position and the list has the leaves in the order of positions. A rotation
  (`RotateShaped`) moves two stretches and no position. A stretch gets shorter on every
  way down, so `Width` is the rank by which loops up and down the tree end.
- `Known`: the leaves an internal node remembers are the two that meet at its position.
- `Sorted`: keys are in the order of positions.
- `Heights` and `Reds`: the number `h` of black nodes below, the same on all ways down, but for
  one *short* node while a deletion repairs itself; no red node below a red one, but for one
  while an insertion does.

`RedBlack` is all of it. `LoopEnds` is the induction over a loop's turns: a loop in which a rank of
finitely many values rises cannot still be running after as many turns as there are values, by
counting. With it come `RecolorKeeps` (the loop of `recolor` keeps all but one pair of red nodes, and
the rotations mend that), `InsertFirst`, `InsertGrows`, `FindFacts` (what a lookup answers, and
where a new leaf belongs), `ShortenedMends` (every case 2.3b to 2.3f of a deletion makes up for
the missing black node, and the heights exclude the errors the code would print),
`DeleteKeeps`, `DeleteLast` and `FreeTree`.

`TabooList_proofs` proves for every memory that holds the list, every set of entries and
every `MaxSize`:

- `IndexAlways`, the inductive invariant `IndexInv`: the index is `RedBlack`, and there is a
  bijection `Numbers` from its leaves to the places of the queue that agrees on the keys. The
  bijection is what makes equal keys harmless: a deletion takes *some* leaf of the oldest key,
  not the oldest leaf, and the leaf that had the first place takes the place of the deleted one
  (`NumbersShrink`). The number of nodes, twice that of the keys, is what gives `malloc` a free node.
- `TabooTypes`, `TabooNeverStuck`, `TabooNeighbours`: `TypeOK`, `NeverStuck`, `NeighboursKnown`.
- `KeysDiffer`: the packed keys of different entries differ while columns and counts are below their
  radix, by uniqueness of division.
- `TabooWindowKept`: `ImplementsWindow`. An insert maps to `Put`, and a lookup answers for the queue
  by `FindFacts`, the bijection and `KeysDiffer`.
- `TabooHoldsQueue`: `IndexHoldsQueue`. The i-th leaf of the list has i - 1 leaves before it, so that
  walking the list is a second bijection, and two bijections have as many leaves of a key.
- `TabooBalanced`: `Balanced`. The black nodes above a node and those below it make a
  constant sum (`BlacksAbove`).

Every property of the run is thus proved.

## 7. Search and graph files

`Search` is the thread of `main` inside `BFsearch` and `DFsearch`. A scan over all
edges is one step, since it leaves graph and file as they were, so that `best_ever` does not
move in the middle of one. The code reads it there only in the lucky scan, where it decides how
dear a random choice may be (`search.c:171`); every kept flip, upload
and step of the recursion is one of its own, and `Listen` may raise the flag and
change `best_ever` between any two.

| pc | code | actions |
|---|---|---|
| `wait` | `client.c:38-52` | `Start` |
| `begin` | `search.c:26-57`, `114-120` | `Begin`: a counter-example grows by a node |
| `clean`, `keep` | `search.c:58-85`, `121-148` | `Clean`, `KeepClean`: down to the target |
| `seek` | `search.c:150-153` | `Seek`: the second phase of `DFsearch` |
| `offer`, `send` | `search.c:87-93`, `156-162`, `recursion.c:117-129` | `Offer`, `Send` |
| `scan`, `lucky` | `search.c:94-107`, `163-193` | `Scan`, `KeepLucky` |
| `enter` .. `return` | `recursion.c:101-195` | `Enter`, `Judge`, `Spread`, `Descend`, `Return` |
| any end | `search.c:72-76`, `107-111`, `194-197` | `End` |
| `exited` | `client_transfer.c:217-241` | `Restart` |

`stack` holds the calls of `recursiveSearch`: the edge, the level, the neighbours
found and the next of them. `goal` is its parameter `best_ever`, which shadows
the global. Locals that are read before they are assigned (`best_i` and `best_j`
if a scan takes no edge, `last_i` and `last_j`, the taboo entry of a success in the
recursion) have any value of `Held`; an edge outside the matrix flips nothing the
graph's cells hold. A flip whose count exceeds its limit is not counted (`-1`), as
`CliqueCountUseCache` does. `rand()` is a choice. `new_graph` is the file, which survives a
client that exits in an upload; `LeftFiles` are the files a killed client can leave,
whole lines or not. An upload that fails is noticed by nobody: the file stays and the graph is
later taken for one already sent. That behaviour is the code's and in the model; no document
promises otherwise.

`GraphFile` models the file at the level that matters to its properties: digits,
spaces and line ends, `fgets` with its buffer, the reading of digits from a line, and
`compare_graph`. `LineBuffer` is the 254 of the code.

### Runs

| Run | Instance | Shows |
|---|---|---|
| `search_rounds` | triangles in graphs of 2 to 4 nodes, targets 0 and 1, recursion of depth 3 with 2 neighbours, a taboo list of 2, three left files; 190 814 states | `TypeOK`, `CachesFresh`, `CountsStillTrue`, `UploadsMeetTarget`, `NoneIsSkipped`, `FlagStopsUploads`, `ReadsBack`, `FlagEndsSearch`, `RecursionEnds` |
| `graph_rows` | the same with a buffer of 8 and rows of 9 | **violated**: `ReadsBack` |

The bounds. Four nodes have six edges and up to four triangles, enough for flips that
lower the count, raise it and leave it, for graphs that differ in at most two edges and in more, and
for counts between the target and the recursion's limit. `BIGCOUNT` 1 lets the case
happen in which no count is low enough and nothing is chosen. Depth 3 with
two neighbours makes the recursion return to a call that goes on with its next
neighbour at each level. A taboo list of 2 fills and evicts. The start graphs hold a
counter-example that grows (2 nodes), one that misses the target by one (3 nodes) and
graphs with too many triangles for each strategy (4 nodes); the files are none, one cut within
its last line, which `ReadGraph` accepts, and one cut before it, which it does not.
`late` stops at 2, one more than the property allows.

### Fairness

The searching thread is runnable except while `main` waits for the flag, so `Step` is
weakly fair. `Fairness` is weak fairness with its `ENABLED` written out: `Ready` says
when a step is possible, and each step changes `pc` or `stack`. `Listen`, `Start` from
outside and `Restart` are not fair. `FlagEndsSearch` has the exception of a client that exits at a
refused connection. `RecursionEnds` holds without the flag: the recursion is bounded
by its depth and by the neighbours, whatever becomes of `best_ever`.

### Proofs

`Search_proofs`, for any operator `Cliques`, any depth, neighbourhood and list size:

- `SearchTypes`, `SearchCaches`, `SearchFlag` from `SearchInv == CallsInv /\ TabooInv /\
  TypesInv /\ FlagInv /\ CachesInv`. `CachesFresh` lists the places where the caches are used;
  `CachesInv` adds those in between (`keep`, `send`), for an upload goes back to a scan
  without making the caches anew. `FlagStopsUploads` needs `FlagInv`: from a late
  upload only places are reached that look at the flag before the next one. `CallsInv` has
  what the level of a call owes to its depth on the stack.
- `SearchReadsBack`, `SearchUploads`, `SearchSkips`, under two hypotheses: `StartsFit`, that
  the graphs to start from are matrices with room for one more node in `MAXSIZE` and in the line
  buffer, and `CliquesAreCounted`, that the number of cliques of a graph is a
  natural number. `FileInv` says that between a test and an upload the file is the
  printed graph, and that a graph passed over resembles what is in the file.

`GraphFile_proofs` proves `PrintedIsRead`: for every graph whose rows fit into the
buffer `ReadGraph(PrintGraph(g)) = g`. Each line is shown to begin where a row was printed: the
least row for which that fails contradicts the row before (`RowStarts`, with the end of a line
in `RowEnd` as a minimum by witness); then the j-th digit of a line is at place `2j`
(`DigitRead`), as the digits up to there are counted by a bijection.

`SearchCounts` proves `CountsStillTrue`, under `StartsFit` alone. Its invariant `UndoInv` says that there
is a graph `h[k]` for each call `k` on the stack: the call's neighbours were counted on it, the
caller's is the same with the call's own edge flipped, and the last is the graph at hand (before
`enter`, with the edge still to be flipped). A return flips that edge once more, and two flips of
one edge undo each other, so the graph is again the caller's. That the neighbours were all
counted on the graph is a fact about the loops of `findNeighbours`, which are a recursive function
here: its values exist, and the least turn after which a count is wrong would be
preceded by a right one.

Only model-checked: the two liveness properties.

### Findings

`graph_rows`: `PrintGraph` "prints in the right format for the read routine"
(`graph.c:30-31`), which passes a buffer of 254 to `fgets` (`graph.c:79`, `123`): from 127 nodes on a
row is longer and is read as two, although sizes up to 541 are accepted (`graph.c:8`). The server
starts at graphs of 107 nodes, so that the searches are still below this bound.

## 8. Not modelled

- The status printer (`server.c:191-210`): it reads counters and writes a log. It changes
  nothing another part reads, and any mixture of old and new values is a legal output. That it
  prints a global `gsize` which `main` shadows (`server.c:173`, `205`), always 107, concerns a reader of
  the log only.
- `cur_graph` (`graph.c:33-54`), a copy of the graph at hand for a person to look at: no code
  reads it. `PrintGraph` and `PrintGraphNew` differ in the file name only.
- The log client and the timing test, the Makefiles: no state of the search.
- The capacities of the clique caches (`list.h`): whether they are exceeded depends
  on seed graphs far larger than an instance.
- Functions no program of the repository calls: `send_to_des`, `DegradeGraph`,
  `create_edge_stat`, `CliqueCountFast` outside the test, the parts of `fifo.c` for whole graphs and plain
  edges, `FIFODeleteEdgeCount`; of `jrb.c` the lookups and insertions for other
  keys, `jrb_nblack`, `jrb_plength` and printing; the accessors of `jval.c`. `dllist.c` is a
  sequence.
- The second side of the merge conflicts: it is the first with other line ends.
- A composition of server and clients (see the plan).
