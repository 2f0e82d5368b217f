# A verification project for rstreppa/blockchain-rsblockchain

The repository is a small teaching blockchain in C++ (`src/blockchain_1`). Every
process is one node. It listens on the first free port of `Config.h`, makes
transactions with the other ports, mines blocks and broadcasts them. Four threads
share the members of the singleton `Node`, and no member has a lock.

This directory holds TLA+ modules translated from that code, TLC configurations
that check them on small instances, and proofs that TLAPS checks for every value
of the constants. `PROJECT.json` ties every definition to its source lines.

## 1. The system

| component | state | operations | talks to |
|---|---|---|---|
| `main.cpp` | the four threads | starts the server thread, makes, places and sends the genesis block, then starts the transaction and the mining thread | calls `Node`, `Peer2Peer` |
| `Node` | `m_balance`, `m_portList`, `m_blockchain`, `m_unconfirmedPool`, `m_candidateblock`, `m_candidatechain`, `m_transactions`, `m_blocks`, `m_inMsgs`, `m_outMsgs` | `makeTransaction`, `mineBlock`, `sendBlock`, `manageIncomingMsg` (`manageTransaction`, `manageBlock`, `manageChain`), both `updateChain`, both `sendBackToPool`, both `removeFromPool`, `validateChain`, `updatePortList` | shared by all threads; uses all of the below |
| `BlockChain` | a vector of owned blocks | `validateBlock`, `addBlock`, `isValid`, last block and its hash, raw copy | `Block` |
| `Block`, `Transaction` | value types | constructors, hash, merkle root, validity, `operator<` | `Merkle.h`, `sha512` |
| `Message`, `Json` | value types | wrap, write, read, decode | the wire |
| `Peer2Peer` | a socket | `server` (one connection per call), `broadcast` | `Node`, other processes |
| port discovery (`Utility.cpp`, `Config.h`) | none | `accepting_connections`, `serverPort` | other processes |
| `sha512` (`Utility.cpp`) | `tempfile.txt` in the working directory | writes the file, opens it again, reads and hashes it | every other thread or process in that directory |
| `Merkle.h` | a vector of leaves | `add`, `root` | `sha512` |
| `powSolver` | the last nonce and its hash | a random search for a hash below the target | `sha512` |
| `Decorator.h` | none | compiled into nothing that runs | |

What is hard about it:

- **Interleavings.** The balance, the pool, the chain and the port list are read,
  computed with and written back in separate statements, by up to three threads.
- **Undefined behaviour.** Uninitialised numbers (`Transaction()`, the index of a
  block, the loop counter of `BlockChain::isValid`), `back()` of an empty vector,
  a reference to a destroyed local (`Message::decode`), racing containers.
- **Exceptions half-way.** `time_from_string` throws on an empty timestamp, and the
  coinbase of a genesis block has one. The server catches; the other threads die,
  and the process with them.
- **Delivery.** The receive buffer is never cleared, a port scan is a connection
  without a message, a long message is cut and may be read as a splice with the one
  before it, the listening socket is opened anew for
  every message and drops what waited there, and nothing is sent twice.
- **Shared outside the process.** Two processes can run on one port, and all that were
  started in one directory hash through one file.
- **Stops.** A process can end between any two steps; it keeps nothing, and is started
  again as a new node, perhaps on another port.
- **Time.** Blocks are stamped with the local clock, which can be set back.

What makes each part correct, and is therefore stated as a property: the chain only
grows and stays linked; a block on it extends an earlier one; nothing enters the
pool that nobody sent; a transaction leaves the pool only for a block; the balance
is made of whole receipts and payments; what was announced is on the chain; the set
difference by which the pool is updated is one; a hash is that of the string it was
asked for; a broadcast comes to those who listen, and never back; every thread comes
back to where it waits.

## 2. The modules

| module | models | contents |
|---|---|---|
| `Block` | Block, Transaction, Message, Json | the values, their constructors, and what a read makes of what a write produced |
| `SetDifference` | `std::set_difference` with `operator<` of Transaction | the loop as a recursive function, when it throws, and the result |
| `BlockChain` | BlockChain | the outcomes of `validateBlock` and `isValid`, the transactions of a chain |
| `Node` | Node, main, `Peer2Peer::server`, `broadcast` | the state machine: four threads, one action per step; the properties |
| `Ledger` | | abstract: what a node promises of its chain |
| `NodeLedger` | main's threads | `Node` as an implementation of `Ledger`; fairness and liveness of the threads |
| `Json` | Json.cpp | writing and reading as nested documents |
| `Merkle` | Merkle.h | the tree of hashes |
| `Wire` | | `Node` together with `Json` and `Merkle`: the codec and the tree run on its messages and blocks |
| `HashOracle` | | abstract: what `sha512` promises its callers |
| `TempFile` | `sha512`, `powSolver` | the file operations of every call, by threads of several processes |
| `Network` | `serverPort`, `accepting_connections`, the port scans, the sockets of `Peer2Peer` | several processes that start, find a port, scan, broadcast, serve and end |
| `MCNode`, `MCTempFile`, `MCNetwork` | | values for TLC |
| `NodeClaims` | | sentences of the repository's comments and documents about a node, as properties that fail; `UniquePort` (`Network`) is one more |
| `Lemmas` | | the least element of a set of naturals, that a recursively defined function satisfies its equation, and lemmas on the operators of `Block`, `SetDifference` and `BlockChain` |
| `NodeProofs`, `NodeChainProofs`, `NodeBalanceProofs` | | the theorems about `Node`: types, the links of the chain, and what chain and pool can hold; the ledger and the validity of the chain; the balance |
| `WireProofs` | | the theorems about `Wire`, and about `Json` and `Merkle` alone |
| `TempFileProofs`, `NetworkProofs` | | the theorems about `TempFile` and `Network` |

Three modules look at the same program from three sides, and fit together as follows.
`Node` is one process in full detail with an open network: what its server reads is
any message a peer can send, or what the buffer held before. `Network` is several
processes with their messages reduced to names; `NoEcho` says that what a server reads
is indeed a peer's, fresh or stale, which is the input `Node` assumes. `TempFile`
is the one function that processes share; `HashesWhatItWasGiven` says that a call that
is not overlapped is the injective hash of `Block` (`HashesHold`), and that an overlapped
one can return the hash of something else, which the constants `SpoiledHashes` and
`SpoiledRoots` of `Block` stand for.

### How `Node` corresponds to the code

Each member of class `Node` is a variable of the same name without `m_`. Locals
that live across two steps are variables as well: `tx` (the transaction in hand),
`loaded` (the balance as read), `index` (the drawn position in the port list),
`block` (the block in hand), `difference` (the local result of `removeFromPool`),
`oldchain`, `buffer` (the receive buffer) and `outgoing` (what has been broadcast
and not yet recorded). `pc` says what each of the threads `main`, `server`, `txn`
and `miner` does next.

An action is one access to shared state, or a run of statements with at most one
access that another thread can notice. `m_balance -= x` is `Load` then `Store`;
`removeFromPool` is `RemoveFromPool` (compute) then `Assign`; `addBlock` is
`Validate` then `Push` (or `ValidatePlace` then `Place` on an empty chain); the copy
and the clear of the pool in `mineBlock` are `BTake` and `BEmpty`. `m_candidateblock`
and `m_blocks` are written by three threads: `Candidate` sets the one, `Keep` appends to
the other, `Reset` empties the candidate that `updateChain` has refused. `updateChain` is
the same steps for each of its three callers; `AfterTrue` and `AfterFalse` say how the
caller goes on. `SReceive` is `server` up to the handler. Each handler's
early returns are the alternatives of its actions. `Raise` is an exception: the
server goes back to listening, any other thread takes the process with it
(`running' = FALSE`). After that no action is enabled.

Peers are not processes here but an input: `PeerMessages` is what a node running the
same code can send. That is transactions, its genesis block or ours, a block mined on
either, and a chain of these. `Received` adds what the socket can leave in the
buffer otherwise: what was there before (a port probe), text that is not JSON, and a
message of which only the first part has come, in front of the rest of the previous one
(`Spliced`).

### How `TempFile` corresponds to the code

The callers are the threads of all processes in one directory (`home` says whose). One
step is one operation on the file: `Open` is the `ofstream` (it truncates; if it fails
the function goes on), `Write` the flush in `close` at position 0 of a file that others
may have filled since, `Reopen` the `fopen` of the second overload (without a file it
is `exit(-1)`, which ends every thread of the process), `Read` one turn of the read loop
with a position of its own in a file that may shrink and grow meanwhile. `Call`,
`Return` and `Judge` are the callers': `Judge` is the comparison with the target in
`powSolver`, which draws again or returns. A hash is named by the string that went into
it, so that `text # got` is a wrong hash. `alone` is a history variable: no other call
has been open since this one began, and both opens have worked.

### How `Network` corresponds to the code

`Start` to `Up` is the constructor of `Node`: `ProbePort` is one turn of `serverPort`,
`NoPort` its missing return statement, `Look` one turn of the first scan. `Reopen`,
`Listen`, `Accept` are one call of `server`. A thread that broadcasts runs `Clear`,
`Scan` (one port per step), `ScanEnds`, `Copy` and `Send` (one port per step); a thread
of `Payers` scans once more before, as `makeTransaction` does. `Accepting` connects and
leaves: whoever listens there gets an empty connection (`Probe`), which `Accept` takes
like any other, leaving the buffer as it was. `End` is Ctrl-C or the end by an
exception; the process can then be started again. `reached`, `quiet` and `steady` are
history variables: what has come to a socket in this life of its process, which
thread's scan no other thread of its process has disturbed, and who has been alone at
its port with room in its queue since a thread's scan began.

### How `Json`, `Merkle` and `Wire` correspond to the code

A text of `Json` is the document it parses to, wrapped, so that a string inside a
document has to be parsed on its own, as `read_b` does with the coinbase and the data.
`Block!read_message` gives in one step what these levels give together; `WireAgrees`
compares the two on everything a running node sends and is sent. `Merkle!root` is the
tree over the leaves, its `while` loop a function of the number of turns;
`RootsCommit` compares it with the list of leaves that `Block`
takes for it, on every pair of lists that `validateBlock` can come to compare.

### What is abstracted

- A **hash** is the list of the headers that lead to it, and a **merkle root** the
  list of its leaves. Both are injective. The tree in `Merkle.h` doubles an odd tail, so
  the real root is not; `RootsCommit` says that no two lists a node meets collide. The
  digest itself (SHA-512) is injective everywhere.
- **Overlapped hashes.** Where a hash or a merkle root is computed, which is where a block
  is sealed and where it is checked, the result is the right one or any member of
  `SpoiledHashes` or `SpoiledRoots` (`HashesOf`, `RootsOf`). The same wrong hash can come
  twice, so that a wrong block passes. Any call can be overlapped, since other processes
  of the directory share the file.
- **Difficulty and nonce** are one number `pow`, 0 or 1. No check of the node reads
  them.
- **Timestamps** are natural numbers, `NoTime` is the empty string, and a waiting step
  moves the clock on by one (or, with `FallsBack`, to any earlier time).
- **Amounts and the balance** are integers that count thousandths. `RandomAmount` keeps
  the subtraction in `size_t`: a draw below `ACCOUNT / 2` wraps by `SizeCount`. The
  rounding of the `double` is left out. The configurations take an account of 1000 and
  16 bits instead of 10^6 and 64.
- `ID` is 0 in a default-constructed transaction, and 1 in any other: it is a member,
  and the constructors increment it once.
- **Ports** are 16 bits wide, as in the code: a number that is read or left over in
  one is taken modulo 2^16 (`ToPort`).
- An **uninitialised number** takes any value of `Garbage`, which may be negative. One
  such value stands for the three fields of a default-constructed coinbase.
- A **destroyed body**, of which `decode` has returned a reference, is intact, not
  readable at all, or emptied: strings and vectors are empty and every number is any
  value of `Garbage`, since the memory is used again (`EmptiedTransactions`,
  `EmptiedBlocks`).
- A **cut message** is cut between two fields of a transaction or of a block's header,
  between two transactions of a block, or between two blocks of a chain. Of a cut
  inside one of these, or inside a coinbase, only the outcome that it is not JSON is
  modelled.
- In **`Json`** difficulty and nonce are again one number, the copy of the header in a
  block's document is left out with the copy itself, and numbers are written exactly.
- In **`Network`** a connection is made and its message complete in one step, a message
  is a name, and of two sockets bound to one port (`SharedBind`, as address reuse on Windows
  allows it; the socket library is external) either may get a connection. Between
  accept and the next call of `server` the old socket still listens.
- `validateBlock` reads the chain in one step. `SChain` takes `validateChain`'s copy of
  the chain in the step that receives the message.
- One **port scan** appends what it found in one step, and one broadcast scans
  once per message.
- **Racing containers**: with `RaceCorrupts` two unlocked accesses, one of them a
  write, may end the process (`DataRace`); whatever the constant says, two concurrent
  `push_back`s may lose an element (`Pushed`). Other outcomes of such a race are not
  modelled.
- **`back()` of an empty vector** has the outcomes in `EmptyBack`. Most builds
  crash there, and a node that crashes while it places its own genesis block shows
  nothing else; so `Node_messages` and the `claim_` runs set `{"accept"}`, `Node_rounds` and
  `Node_raced` all four.
- The **stack** is assumed to hold the ten-megabyte buffer of `server`.
- The few statements that do not compile as published (`newchain.getRawChain()` on a
  `vector<Block>`, `Node.cpp:235`) are read with the smallest repair: the call is on
  the empty `BlockChain` that the line before declares. `BlockChain(newchain);` declares
  a local variable `newchain` and leaves `m_blockchain` alone; it is modelled as that.

Left out because nothing calls it: `addToPool`, `replaceChain`, `BlockChain::getBlock`,
the comparison operators of `BlockChain`, `Decorator.h`, the unused members of
`Peer2Peer`.

## 3. What is checked

`tlc -config <run>.cfg <module>` repeats a run. All bounds are in the
configurations: `MaxReceived` messages read by the server, `MaxMade`
payments, `MaxMined` puzzles solved, `Sends` the kinds of messages.

| run | bounds | shows |
|---|---|---|
| `Node_messages` | two receptions (any kind, a probe, a splice), one payment whose amount has wrapped, the genesis block | `BalanceOfSome`, `WireAgrees`, `OwnBlocksOnly`, `RootsCommit` |
| `Node_rounds` | one message of any kind with any outcome of `decode`, two mined blocks, clock set back, container races, every outcome of `back()`; fair threads | `ChainValid`, `AnnouncedOnChain`, `MinedExtends`, `PoolKnown`, `AppendOnly`, `KeepsLedger`, `RemovalKeepsOthers`, `RoundsEnd` |
| `Node_raced` | no messages, two mined blocks, hashes and roots of an empty file, garbage 0 and -1, with and without a peer, otherwise as in `Node_rounds` | `TypeOK`, `ChainValid`, `MinedExtends` |
| `TempFile` | three callers of two processes, one of them a solver; one text of three characters, two nonces, reads of two characters, opens that may fail; fair callers | `TypeOK`, `NothingInvented`, `SolutionsSolve`, `HashesWhatItWasGiven`, `EveryCallEnds` |
| `Network` | two processes, two ports, one of them perhaps taken by another program; two threads that broadcast once each, one of which scans twice; a backlog of two, one life each; fair servers | `TypeOK`, `NoEcho`, `ListedOncePerThread`, `QuietBroadcastArrives`, `ServerReturns` |

They range from a hundred and fifty thousand states (`Node_raced`) to half a million
(`Node_messages`, `Network`) and take between a quarter of a minute and two and a half
minutes each.

- `BalanceOfSome`: the balance is the account plus some of the receipts less some of the
  payments. Of two unlocked updates one can be lost, but as a whole, and none is counted
  twice or before it is made. The receipts are read off `m_inMsgs`, which only the
  server writes and which holds a message as often as it was handled, the payments off
  `m_transactions`, from which a race of two
  `push_back`s can drop one: the property speaks of states where it has not (`AllRecorded`,
  the payments on record against the rounds begun).
- `AppendOnly`: no received chain replaces or shortens the node's own.
- `OwnBlocksOnly`: no block that another node mined is ever adopted. The coinbase does
  not survive `Json::read_b`, so the merkle root never matches.
- `MinedExtends`: a mined block names an earlier block of the chain and is younger,
  although another thread may push between validation and push.
- `PoolKnown`: what is pooled, and mined from there, was made here or came in
  a transaction message; a received block or chain adds none. Came in means as it was
  sent, or as the splice or the destroyed body that the server has made of it.
- `ChainValid`, `AnnouncedOnChain`: until a block of a peer has been read, the chain is
  one that the node's own `isValid` accepts, and every mined block that is announced is
  on it, whatever transactions and chains arrive and whatever the machine does
  (`Node_rounds`). Neither is so once a peer's genesis block races with the
  node's own (`claim_linked`). With raced hashes (`Node_raced`), "accepts" means that
  every hash and root on the chain is one the node can compute again, by the same race if
  it must; that they are the right ones is `claim_raced_hash`, and fails.
- `RemovalKeepsOthers`: a block that has been added takes no transaction out of the pool
  whose time is not one of its own, although the pool is not sorted and the set difference
  expects it to be. It may leave some of its own there, or drop another one of the same
  time, which the code does.
- `KeepsLedger`: seen from outside, the node is an append-only ledger of its own blocks,
  each after an older one, whose transactions were made here or heard of. It is the
  abstract specification `Ledger` under the mapping `heard <- Heard`.
- `RoundsEnd`: no thread stays half-way in a round, whatever verdict, exception or early
  return it meets: `main`, `miner`, and the server with transactions, blocks and chains.
- `WireAgrees`, `RootsCommit`: see above.
- `HashesWhatItWasGiven`: `TempFile` implements `HashOracle`. What an overlapped call
  returns is left open there; in `TempFile` it can be the hash of another string, of
  the empty string, or of a mixture.
- `NothingInvented`: a mixture is at least one of what callers wrote, each character in
  its place.
- `SolutionsSolve`: an accepted nonce solves the puzzle unless its call was overlapped.
- `EveryCallEnds`: the read loop ends although others write to the file it reads, and a
  call that finds no file ends the process instead.
- `NoEcho`: no message of a process comes back to it.
- `ListedOncePerThread`: overlapping scans list a port more than once, but not more
  often than the process has threads that scan.
- `QuietBroadcastArrives`: a broadcast whose scan and copy no other thread of the
  process disturbed has come to everyone who could be reached all along. When it
  misses somebody, one of the two conditions was broken: the other thread's `clear`
  came in between, or the socket of the receiver was closed between two calls.
- `ServerReturns`: the server comes back to an empty queue and listens, whatever is
  sent to it and whoever stops, unless another socket holds its port.

The bounds are small because the threads interleave at every access. They are large
enough for what the properties are about: two receptions, so that a message is handled
again after a port probe, or spliced with the next; a payment against a receipt races the
balance; two mined blocks make a chain of three, on which order, links and a clock set
back matter, with a message handled at any point in between. One spoiled hash and one
spoiled root are enough for a wrong block to be sealed and to pass. What no passing run has
room for is a payment and a mined block together (`claim_lost` has both); for the pool a
payment is what a received transaction is, and the theorems hold for any number of each.

In `TempFile` three callers are needed for a call that is overlapped on both sides,
a text longer than one read for a file that changes between two reads, and strings of
different lengths for a file longer than what was written into it. Two processes in
`TempFile` let `exit` end some callers and not others. In `Network` the second
port may be foreign, so that the second process finds none left and either shares a
port or gets `Fallthrough`; `MaxStarts = 1` keeps a process that has ended from
coming back, which TLC has no room for beside two broadcasting threads, while the
theorems hold for any number of lives.

`CHECK_DEADLOCK FALSE` is set for the node because its process can end, by an
exception that nothing catches or a crash, and because the bounds stop the threads. It
is set for `TempFile` because its processes can all
have ended, and for `Network` because the bounds stop its threads and its processes
may be off for good.

### Sentences of the repository that the code contradicts

Each run checks one sentence and ends in a counterexample.

| run | sentence | what happens |
|---|---|---|
| `claim_lost` | LongestChain.txt:20, Node.h:104: transactions do not disappear; the pool is emptied into a block | a transaction pushed between the copy and the clear of the pool, or between difference and assignment, is in neither |
| `claim_sent_back` | Node.h:78, Node.cpp:87, LongestChain.txt:21: rejected transactions go back to the pool | `set_difference` meets the timeless coinbase of the genesis block, and throws |
| `claim_longest` | Node.cpp:196, Node.h:31, LongestChain.txt:18, main_architecture.txt:35: a longer valid chain replaces the node's own | the node tests its own chain against itself and drops the other |
| `claim_extension` | LongestChain.txt:1: a block that extends the chain is appended | a received mined block fails its merkle root and is rejected |
| `claim_linked` | BlockChain.h:48 and 53: a block is added after validation, and names its predecessor | two threads validate a genesis block each on the empty chain, and both are added |
| `claim_raced_hash` | BlockChain.h:41 and 48: a block's hash and merkle root are validated before it is added | it is sealed and checked while another call has the hash file empty, and goes on the chain with the hash of nothing |
| `claim_unique_port` | main.cpp:23 "Seed random number generator with unique server port" | a port is free until somebody listens there; two processes that start together take the same one |

Also seen while modelling, and left without a run of their own:

- The amount of a transaction is never negative, though Transaction.h:24 calls it signed
  and unit_tests.txt:11 has one of -1000.5: the subtraction is in `size_t`, so half of the
  draws wrap to nearly 2^64. No property says that amounts are not negative; the model has
  the wrapped ones.
- The process ends where main.cpp:21 has it run until Ctrl-C: without a peer the first
  payment ends it (`size() - 1` of an empty list), and with one a broadcast of the miner that
  clears the port list between `makeTransaction`'s scan and its draw does. As most compilers
  build it, the genesis block of a fresh node ends it in `back()`. A clock set back makes
  the miner's own block fail, and then the exception of `sendBackToPool` ends it.
- Node.h:29 calls the pool unconfirmed. The stale receive buffer puts a transaction back
  that is on the chain, and so does the handling of a chain while the miner empties the
  pool; and removal by time from an unsorted pool leaves some of a block's transactions
  there (Node.h:82).
- Node.h:89 and 97 say that the balance is updated with each payment and receipt; two
  unlocked updates that overlap lose one. `BalanceOfSome` is what is left.
- main.cpp:31 says that the genesis block is placed on the chain; when a peer's was first
  it is not, and is sent all the same. Node.cpp:356 says that a received block is recorded in
  any case; an exception of `updateChain` skips it.
- `powSolver` (Node.h:103) may return a nonce whose hash was that of another thread's
  string. `SolutionsSolve` is what is left.

### Fairness

The code has no lock and waits for nothing but sleeps, sockets and files, so all that is
assumed is that a thread that can go on does, which a preemptive scheduler sees to.

- `NodeLedger!FairSpec`: weak fairness of each thread's steps inside a round (`Work`).
  Nothing is asked of the steps that begin a round (the end of a sleep, a solved
  puzzle, a connection): they may never happen.
- `TempFile!FairSpec`: weak fairness of each caller's steps inside the function. Nobody
  has to call.
- `Network!FairSpec`: weak fairness of each server (`Server`), on the state of its socket.
  No process has to start, stay or broadcast.

A wait in one of the library's calls that never returns (a `connect` to a host that does
not answer, a blocked disk) is outside these models.

## 4. What is proved

For every value of the constants that satisfies the assumptions `ValuesAssumption` and
`SpoiledAssumption` (`Block`), `BlockChainAssumption` and `NodeAssumption`: any set of
peers, draws and port scans, any number of messages, any outcome of the undefined
behaviour, any hashes that an overlapped call may return. For
`TempFile` and `Network` the assumptions are `TempFileAssumption` and
`NetworkAssumption`: any callers, strings and read length; any processes and ports, any
finite set of threads, any backlog.

Some theorems have a hypothesis more, without which they are false. `HashesHold`: no two
calls of `sha512` overlap. An overlapped hash can make a received block pass its checks
(`claim_raced_hash` shows a wrong hash that passes), and then the chain holds what nobody
vouches for. `"emptied" \notin DecodeRef`: a body is not read after `decode` has destroyed
it, since the balance would then be changed by any number that the memory holds.

| theorem | states | hypothesis |
|---|---|---|
| `NodeProofs!TypeCorrect` | `Spec => []TypeOK` | |
| `NodeProofs!Founded` | `Spec => []Base` | |
| `NodeProofs!AlwaysExtends` | `Spec => []MinedExtends` | |
| `NodeProofs!OnlyGrows` | `Spec => AppendOnly` | |
| `NodeProofs!KeepsTheOthers` | `Spec => RemovalKeepsOthers` | |
| `NodeProofs!Inductive` | `Spec => []IInv` | `HashesHold` |
| `NodeProofs!NeverAdopts` | `Spec => []OwnBlocksOnly` | `HashesHold` |
| `NodeProofs!PoolOfKnown` | `Spec => []PoolKnown` | `HashesHold` |
| `NodeChainProofs!NodeKeepsLedger` | `Spec => KeepsLedger` | `HashesHold` |
| `NodeChainProofs!UndisturbedUntilRead` | `Spec => [](NoBlockRead => Undisturbed)` | |
| `NodeChainProofs!ValidUntilRead` | `Spec => []ChainValid` | |
| `NodeChainProofs!OnChainUntilRead` | `Spec => []AnnouncedOnChain` | |
| `NodeBalanceProofs!BalanceIsOfSome` | `Spec => []BalanceOfSome` | `"emptied" \notin DecodeRef` |
| `WireProofs!CodecAgrees` | `Json` and `Block` agree on every message a constructor can make | |
| `WireProofs!CodecAsModelled` | `Spec => []WireAgrees` | |
| `WireProofs!RootTells` | equal roots, equal leaves, where the last leaf occurs once | |
| `WireProofs!RootsAlwaysCommit` | `Spec => []RootsCommit` | `HashesHold` |
| `TempFileProofs!TempFileTypeCorrect` | `Spec => []TypeOK` | |
| `TempFileProofs!HashesNothingInvented` | `Spec => []NothingInvented` | |
| `TempFileProofs!AcceptedNoncesSolve` | `Spec => []SolutionsSolve` | |
| `TempFileProofs!ImplementsOracle` | `Spec => HashesWhatItWasGiven` | |
| `NetworkProofs!NetworkTypeCorrect` | `Spec => []TypeOK` | |
| `NetworkProofs!NothingComesBack` | `Spec => []NoEcho` | |
| `NetworkProofs!ListsOncePerThread` | `Spec => []ListedOncePerThread` | |
| `NetworkProofs!QuietBroadcastsArrive` | `Spec => []QuietBroadcastArrives` | |

None of the properties is inductive as it stands. The invariants of `Node` come in two
layers. `Base` holds whatever races with the hash file:

- **TypeOK**.
- **Ordered**: at a step behind the test of the empty chain there is a chain, and a block
  that is placed without that test claims to be a genesis block.
- **Extending**: a block between validation and push extends a block that is on the
  chain. The chain only grows (`ChainGrows`), so it still does when it is pushed,
  although it may no longer be the last one.

`IInv` adds, as long as hashes hold, where everything in hand comes from:

- **Readiness** says what a thread may handle at a step (`Ready`). The hash of a
  block that peers send is `Honest`: its merkle root ends in a coinbase with a time, or is
  that of a genesis block. The coinbase that `read_b` leaves has no time (`Foreign`). So a
  received block that passes its merkle check is a genesis block (`Bare`, by
  `ServerPasses`), while the miner's is its own (`MinedHere`). A splice has one of the two
  hashes it is made of, and an emptied block has none, which fails. What is placed on
  an empty chain is `GenesisLike`. A transaction in hand is known until it is pooled.
- **Stock** is what is kept: an honest buffer, `main`'s genesis block, a chain that
  begins with a genesis block, `OwnBlocksOnly` and `PoolKnown`. Messages are only added
  (`StillKnown`), a set difference returns elements of its first argument
  (`DifferenceOfFirst`), and what is sent back to the pool is nothing
  (`NothingSentBack`), since the first comparison meets the coinbase of the first block and throws.

Either layer has a lemma per action, or per group of actions that change the same
variables; `QuietBase` and `QuietIInv` take all that touch none of them, and `OthersQuiet`
says which these are.

`DifferenceOfFirst` and the type of `ChainTransactions` are facts on recursive
functions over naturals. `Lemmas` proves, from the least-element principle
and without an induction theorem, that such a function satisfies its equation
(`RecursionExists`); the lemmas then argue by a least counterexample.

**The refinement to `Ledger`.** Every step that changes the chain is `Place` or `Push`
(`ChainSteps`) and appends the block in hand. That block is own, follows an older one
and holds known transactions because the last block of the new chain satisfies
`Stock` and `Extending` of `IInv'`. All other steps map to `Hear`:
recorded messages are only added (`Remembers`), and no step is taken after the stop
(`NextRuns`).

**The valid chain.** That a push lands on the block it was validated against is no
property of `addBlock`: two threads inside `updateChain` break it. It holds until the
server is in there too, and `Undisturbed` says why. `Aside`: the server has nothing to do
with blocks. `MainFirst`: the miner is not started before `main` has sent its block.
`MinerAlone`: what the miner pushes extends the last block, and stays. So one thread at a
time validates and pushes, no `push_back` of the chain is lost (`PushLands`), and the
chain stays sound, ordered and linked (`SoundChain`), which is what `isValid` asks.
Sound is a block whose hash is one of those that the check may compute again, so nothing
is assumed of races here.
`Announcing`: a mined block that is recorded as sent, or about to be, is on the chain.
`NoBlockRead` never becomes true again (`ReadBefore`), so `NoBlockRead => Undisturbed`
is the invariant.

**The balance.** `Balanced` generalises `BalanceOfSome` to what a thread has read:
`Summed` puts the balance and, between `Load` and `Store`, the value loaded in the set
`Sums` of what the balance may be. `Sums` only grows, and a transaction joins the
receipts or payments with the very `Store` that adds it to the balance. `InHand`
ties the transaction in hand to the last message, tells whose it is, and that `main`
starts the payments once. `Recorded` (never more payments on record than begun) makes the
first lost record final: `AllRecorded` cannot become true again. The sums of the parts of
a sequence are a recursive function; `SumsAppend` gives its value for one number more.

**The codec.** `CodecAgrees` goes through the documents of `Json` from the inside out:
a transaction, a block with its data, a chain, a message. It holds for all of them (a
message is `Framed` by its constructor, so that the parts its header does not name
are empty), not only for those that occur; a negative case is part of it, since a coinbase
with a garbage sender is written and not read. `Enclosed`, on top of `TypeOK`, says that
the buffer, spliced or not, and what waits to be recorded are framed; `CodecAsModelled`
follows. That ports fit into 16 bits is needed here: a wider number would not come back.

**The tree.** The tree gives a list of odd length and the list with its last leaf doubled
the same root, so `RootTells` asks that the last leaf occurs once (`UniqueLast`),
which a list with a doubled end does not meet. The proof goes down the tree level by level:
a parent level keeps the property, two equal levels above come from equal
levels below, or from a doubled end; and trees of different height do not meet, because
no leaf is a digest. `Distinct` is the invariant that gives this for what a node
compares: the last leaf of every tree is of another kind than the leaves before it
(`Apart`). A payment has a time and a sender (`Paid`); what `decode` has destroyed has no
time; the coinbase of a mined block has a time and no sender; that of a genesis block, and
of a block that has been read, has no time, whatever its sender is. A block of this node may
hold a transaction without a time, but not such a coinbase; a received block the other way
round (`Plain`). `PaidMail`, `Held` and `Stored` say so of the mail, of the blocks
in hand and of those on the chain and on record.

**The set difference.** Only `RemoveFromPool` leads a thread to the assignment of the pool
(`RemovalSteps`). `DifferenceKeeps` is about the loop of the library alone: each element that
the first cursor has passed was kept, or its time occurs in the second sequence (`Passed`,
kept by every iteration: `StepPasses`); what the cursor has not passed is the rest that is
copied behind. This needs no order of either sequence.

**`TempFile`.** `HashesWhatItWasGiven` is not inductive: that a call returns its own hash
depends on what the file held at each step. `IInv` adds `Exclusive` (while an undisturbed
call is open no other is), `Undisturbed` (what such a call finds: an empty file, then
its string, then as much of it read as `got` says), `Fresh` (a call starts with nothing
read) and `FromStrings(file)`. A call that begins sets `alone` to FALSE for all others,
which is what keeps `Exclusive`. Every step then maps to a step of `HashOracle` or to a
stutter: `Call` to `Ask`, a failing `Open` to `Spoil`, the last `Read` to `Answer`,
`Return` and `Judge` to `Take`, `exit` to `Exit`.

**`Network`.** `NoEcho` rests on `OwnPortOut` (no process lists its own port, and no
thread sends to it, which needs that the port is chosen before the first scan and kept
for life) and on `Came` (what waits in a queue has come to that socket in this life of
the process). `UpOnly` ties lists, sockets and threads to a process that is up.
`QuietBroadcastArrives` follows a port through the broadcast (`Arriving`): the
scan has listed it once it is past it, the copy has it, and the message is there once
the place of the port in the copy has been passed (`Served`), for everyone who could be
reached all along (`Watched`). `ListedOncePerThread` counts (`Listed`): a list names a port
no more often than there are threads that are not in a scan still to come to it
(`Passed`); for this the set of threads has to be finite.

**Model-checked only** is liveness under fairness (`RoundsEnd`, `EveryCallEnds`,
`ServerReturns`), which is out of the prover's reach, as is ENABLED. Every other property of the
passing runs, both refinements included, is a theorem. The loops of the
code (the set difference, the tree, the sums) are recursive functions, not RECURSIVE
operators, so that the proofs can use them.

### Not modelled

- `Decorator.h`, and what else nothing calls: `addToPool`, `replaceChain`, `getBlock` of a
  hash, the comparisons of chains, `Message::decode_2`, the client calls and the
  argumentless `broadcast` of `Peer2Peer`.
- The second copy of a block's header and its document in `Json`: only `operator==` of
  blocks reads it.
- Printing, measured times, project files.
- The rounding of the `double` in which amounts and balance are kept.
- The ten-megabyte array on the stack of `server`: where the stack is smaller the
  process ends with the first call, and there is nothing to model.
- Reading past the end of a string in `send`, and of a chain in `validateChain`: a crash at
  most, which the models allow there or at any step.

## 5. Plan

1. A composition of two `Node`s over `Network`'s queues, once a coarser `Node` (one
   step per handler) is shown to be implemented by this one; two full nodes are beyond TLC.
2. A payment and a mined block in one passing run, and `RoundsEnd` for the transaction
   thread: a coarser `Node` is needed for this as well.
3. Messages cut inside a nested document.
