# DIY-Redis in TLA+

A model of [DIY-Redis](../src), a Redis server written in TypeScript for Bun: TLA+
modules for its core, TLC configurations that check them on small instances, and
theorems that TLAPS proves for every instance. Paths below are relative to `src/app/`
unless they begin with `src/`.

Check a module with `tlc -config X.cfg MCModule`, a proof with `tlapm XProofs.tla`.
`PROJECT.json` lists the runs, the theorems, the lines each definition models, and for
each property a mutation of the model that breaks it.

## The system

One Node process, one thread. Sockets, timers and promises are the only sources of
interleaving: JavaScript runs from one `await` (of something not yet settled) to the
next, and nothing else runs meanwhile.

| component | state it keeps | operations | talks to |
|---|---|---|---|
| connections, `Server.ts`, `DataParser.ts` | a `ConnectionState` for each socket: buffer, transaction, subscriptions (`types.ts:19`) | `data`, `end`, `error` events | calls the dispatcher and awaits it; writes its answer to the socket |
| dispatcher, `SOLIDDispatcher.ts`, `registry/` | the registry and three sets of command names | `dispatch` | runs commands by type; calls `propagate` after a write that succeeded |
| transactions, `statefulCommands.ts/{Multi,Exec,Discard}Command.ts` | the connection's queue and flags | MULTI, EXEC, DISCARD | EXEC runs commands itself, and propagates by a set of its own |
| list service, `{RPush,LPush,LPop,LLen,LRange,BLPop}Command.ts` | lists, as JSON text in the store | one each | pushes call `notifyListPush`, BLPOP calls `blockOnLists` |
| blocking manager, `services/BlockingManager.ts` | a FIFO of waiters for each key, a timer for each waiter | `blockOnLists`, `notifyListPush`, timer | pops from the store, calls `propagate` |
| pub/sub, `services/SubscriptionManager.ts` and its commands | a set of sockets for each channel | SUBSCRIBE, UNSUBSCRIBE, PUBLISH | writes to sockets |
| master, `replication/ReplicationManager.ts`, `PsyncCommand.ts`, `config.ts` | the replicas' sockets, `master_repl_offset` | `propagate`, `requestAcks`, `receiveAck`, PSYNC | writes to the replicas' sockets |
| WAIT, `WaitCommand.ts` | for each call: offset, count, timer | WAIT, ack event, timer | asks for ACKs, listens to all of them |
| replica, `replication/MasterConnectionHandler.ts`, `handshake.ts` | handshake step, buffer, `processingOffset` | `data` event | emits commands to the dispatcher, answers GETACK |
| keyspace, `store/RedisStore.ts`, SET, GET, DEL, INCR, EXPIRE and others | a map from keys to value, type, expiration | `get`, `set`, `delete` | |
| streams, `commands/streamCommands/` | entries as JSON text in the store; listeners of blocked XREADs | XADD, XREAD, XRANGE, XREVRANGE | XADD emits `new-entry`, in which listeners run |
| persistence, `persistence/`, `SaveCommand.ts` | the dump file | SAVE, load at start-up | |
| formatting, `utilities.ts` | none | encoders and identifiers | |

### What is hard about it

- **Re-entry.** The `data` handler is `async`. While it awaits a command that blocks,
  another `data` event starts a second activation on the same buffer, in which the
  command that blocks is still the first.
- **Parked calls.** A BLPOP waits in the queues of several keys and on a timer; the push,
  the timer and other calls of the same connection compete to take it out.
- **Order of propagation.** The dispatcher propagates a command when its handler has
  returned. What the handler itself propagates (the LPOP that serves a parked call) goes
  out before it.
- **Offsets.** The master counts the bytes of writes, each replica those of writes and
  GETACKs from when it joined. WAIT compares the two, and every WAIT hears every ACK.
- **Modes.** A connection is in a transaction, subscribed, or neither, and the flags that
  say so are set and reset in five files.
- **Two evaluations.** A command is propagated as the client sent it. The replica
  evaluates NX and XX, relative expirations and `*` identifiers again, later and by its
  own clock and keys.
- **Streams of bytes.** A replica reads an RDB file, handshake lines and commands from one
  buffer, which TCP fills in pieces of any size.
- **Listeners inside a command.** XADD emits an event, and blocked XREADs read the store in
  it: what one of them throws, the XADD throws, after its entry was stored.
- **A file written in place.** SAVE overwrites the dump, so that a write that ends early
  leaves a part of it, which the next process loads: when this one dies, and also when the
  write fails, whose error SAVE catches, so that the server goes on with the earlier dump
  gone.
- **What outlives a connection.** The `end` event is logged and nothing else: replicas,
  subscribers and waiters stay on their lists.

### What makes each component correct

- Connections: each command is executed once and answered once, in order, however TCP
  cuts the stream.
- List service and blocking manager: an element pushed is in one list, or was given to one
  client; a call is in its queues exactly while it waits; no call is left next to an
  element by a step that served nobody from that key; calls on a key are served in order; a call with a timeout returns; a replica
  that executed the stream holds the master's lists.
- Replication: the offsets account for every byte; WAIT answers with replicas that hold the
  writes before it; WAIT returns.
- Dispatcher, transactions, pub/sub: modes exclude each other; a transaction fails because
  of its own commands only; one with an unknown command has no effect; what goes to the replicas is what
  succeeded; both records of a subscription agree.
- Replica's link: each message is read as what it was written as, wherever the stream is
  cut; every propagated command is executed once, in order; a GETACK is answered with the
  bytes in front of it.
- Keyspace: a replica holds the keys of its master and their values, and does not drop one
  that the master still serves, although it computes expirations by itself.
- Streams: identifiers grow; no XREAD sleeps next to an entry it waits for; a replica holds
  its master's streams.
- Persistence: a SAVE and a restart give back the strings that have not expired; a SAVE
  whose write was cut short, by a crash or an error, gives back a part of them and nothing else.

## The modules

| module | models | checked by | proofs |
|---|---|---|---|
| `ListService` | the abstract list service: one line of waiting calls | | |
| `BlockingManager` | lists, parked BLPOPs, and a replica of the lists; implements `ListService` | `MCBlockingManager` | `BlockingManagerProofs`, `ListLemmas` |
| `Replication` | the master's stream, replicas' offsets, ACKs and WAIT; each of its links implements `CommandStream` | `MCReplication` | `ReplicationProofs` |
| `Dispatcher` | modes of connections, transactions, subscriptions, what is propagated | `MCDispatcher` | `DispatcherProofs`, `ListLemmas` |
| `RequestReply` | the abstract connection: what a client expects | | |
| `ConnectionLoop` | the `data` handler, its buffer and its activations; implements `RequestReply` | `MCConnectionLoop` | `ConnectionLoopProofs` |
| `CommandStream` | the abstract link of a master and a replica | | |
| `MasterLink` | the handshake, the RDB file and the propagated commands on a stream cut anywhere; implements `CommandStream` | `MCMasterLink` | `MasterLinkProofs` |
| `Expirations` | what `Keyspace` and `Persistence` both declare: keys, texts, expirations, the clock | | |
| `Keyspace` | string keys and expirations on a master and a replica | `MCKeyspace` | `StoreProofs` |
| `Streams` | XADD, XREAD BLOCK, and the streams of a replica | `MCStreams` | `StreamsProofs`, `ListLemmas` |
| `DurableStore` | the abstract store that outlives its process: a set of entries | | |
| `Persistence` | SAVE, crash and restart on a dump file; implements `DurableStore` | `MCPersistence` | `StoreProofs`, `ListLemmas` |
| `Lists` | filtering a list, defined so that proofs can use it | | `ListLemmas` |

Operators whose comment begins with "Mutant" are not part of the model: each is a
definition changed as a plausible bug would change it, used to see that a property fails.

### BlockingManager

`store` holds a list for each key, `<< >>` for an absent key, or `StringValue` after a SET.
Each dispatch of a BLPOP is a member of `Calls`; `status`, `listening`, `timeoutSeconds`,
`connectionIdentifier` are the fields of its `WaitingClient` and promise, and
`waitingQueues` the map of the same name. A handler that yields to nobody is one action:
`RPush` and `LPush` contain the store update, `notifyListPush` with its pop and its
`removeWaiter`, and both propagations. `BLPopNow` and `BLPopBlock` are the two ways out of
`blockOnLists`, `Timeout` is the timer's callback.

`removeWaiter` looks for the first waiter of the same *connection*, and the model keeps
that. It matters only when a connection has several calls unanswered, which the re-entry of
the `data` handler produces: `Dispatched` lets a connection dispatch the BLPOP at the head
of its buffer again while it waits, and the next one when a copy has returned (`slot` says
which commands had been sliced off when a call was dispatched). `MaxPending = 1` is a
client that does not send while it waits.

Left out: a BLPOP that names a key twice; elements pushed twice (each is pushed once, so
that it can be followed; what the code does never depends on equality of elements);
expiration, and with it the GET that deletes an expired list on one side only
(`GetCommand.ts:22`), so that `ReplicaMatchesUnlessServed` is about keys that do not expire; pushes and BLPOPs inside EXEC; waiters of closed connections.

`ListService` is what a client of lists may rely on, with nothing of how the code does it:
one line of the calls that wait, in which each stands once whatever the number of its keys;
a push hands its first element to the first call in line that asked for the key, in the same
step; a pop or a BLPOP that finds an element takes it; a call leaves the line answered or
when its time is up. The queues per key, the entries a call leaves in the queues of its
other keys, `removeWaiter`, the timers and the replica are hidden; the line is `arrival`, the
history of who was parked when. A refinement says
which steps there may be and not which command makes them, so that a RPUSH that did what
LPUSH does would still refine: `PushesServeTheLine` says that each push is the step
of its own end. Both hold for `MaxPending = 1` only. `FirstComeFirstServed` and the key that
`ReplyIsHonest` asks for follow from the refinement; they are stated, and proved, by themselves.

`ReplicaMatchesUnlessServed` excludes with its antecedent what the run `BlockingReplica`
shows. `MaxPending = 1` excludes in `BlockingService` what `removeWaiter` does to a client that
pipelines (see "Divergences without a run").

A push wakes one call, whatever it brings: with several calls parked and two elements, the
second call stays parked next to the second element until another push. `NoLostWakeUp` says
that this is the only way a call comes to wait next to an element: the step that left it
there served, from that key, a call that had been parked before it. A call served by an
earlier push is no excuse.

### Replication

A member of `Replicas` is one PSYNC connection, `toReplica` and `toMaster` its two
directions. A write is its length and its number; the history variables record what each
replica joined with (`joinedAt`, `offsetAtJoin`), has executed (`applied`), was sent in
GETACKs (`getAckBytes`), and for each WAIT what was due (`due`) and whose ACKs it counted
(`counted`, `caughtUp`). `Write` is the end of a dispatch, `Psync` the handler,
`Disconnect` a closed socket: ACKs in flight may still arrive. `ReplicaWrite` and
`ReplicaGetAck` are one turn of `processPropagatedCommand`. `WaitNow` and `WaitBlock` are
the two ways out of WAIT, `ReceiveAck` the `ack` event with all its listeners.

`LinksImplementCommandStream` says that the two directions of every replica's link and its
offset are, without their history, the abstract link `CommandStream`, from which the master
also takes ACKs (`AckArrives`) and which may close (`LinkCloses`). `MasterLink` implements
the same `CommandStream` from the replica's side, on bytes that TCP cuts anywhere: the two
models meet in it.

Left out: a connection that sends PSYNC twice (the code would list it twice, and `replicas` is a set).

### Dispatcher

`inTransaction`, `transactionFailed`, `commandQueue` and `subscribedChannels` are the
fields of `ConnectionState`, `channelSubscriptions` the map of the manager. A command is its
name, with the handler type the registry gives it; what it does to the keyspace is whether
it succeeded. `executed` and `stream` record what succeeded and what was propagated.
Commands that a mode refuses, or that only read, change nothing and have no action. EXEC is
one action: the commands here do not block. Replies are left out, that of EXEC among them.

`badset` is a SET with too few arguments, `nosuch` a name the registry does not have. The
comment at `SOLIDDispatcher.ts:52` has both fail their transaction, and the code only the
second (see "Divergences without a run"). `FailureIsItsOwn` is about what the two agree on:
an unknown command marks the transaction it is queued in, and a mark is never of an earlier
transaction. It would hold as well if the checks at lines 57-59 applied.

### ConnectionLoop and RequestReply

The client's stream is a sequence of commands of some length; the buffer is the part of it
between `start` and `received`. `Arrive` is a `data` event with any number of bytes;
`Answer` one turn of the loop with a command that answers at once, `Park` one that suspends
the activation, `Resume` its continuation. Buffers that begin inside a command hold no
`*`, so that nothing is parsed there until the stream goes on (arguments hold no `*`).

`RequestReply` is the abstract connection: counters of commands sent, executed and answered,
where the next command is executed when all before it were answered. `ConnectionLoop`
implements it, with the lengths of its sequences as the mapping, when no command blocks or
the client is patient: it may pipeline, but sends nothing behind a command that may block
until that is answered (`Impatient = FALSE`). Without that condition it does not:
`ConnectionReentrant`.

### MasterLink and CommandStream

The master's stream is a sequence of messages, each with its kind, its length and the byte
at which it ends; the replica's buffer is the part of it between `start` and `received`.
`MasterReplies` and `MasterPsync` are the master's answers to `requests`, the handshake;
`Propagate` is a write or a GETACK. `Arrive` is a `data` event with any number of bytes, and
starts the loop of `onData`; `HandshakeLine`, `RdbFile` and `PropagatedCommand` are one turn
of it in each phase, `Stop` its end. `onData` is synchronous and what it emits runs until it
yields, so that no data arrives between the turns. What the branches for other messages do
(a line that is not the answer awaited is ignored, anything but `$` where the RDB should be
empties the buffer) is in the actions, although no state of this master reaches them:
`ReadAsWritten` says so.

`CommandStream` is the abstract link: commands pending, the offset, the ACKs sent.
`Unprocessed` maps the messages behind those processed to `pending`. `Replication` has this
link between its `toReplica` and a replica's offset (`LinksImplementCommandStream`), so that
the two modules together say that WAIT's arithmetic rests on a link the code provides.

Left out: errors of the connection (`end` and `error` are logged, and nothing connects
again), and the arguments of commands.

### Keyspace

`master` and `replica` map a key to its value and expiration, or `Absent`; both processes
read one clock, `now`, as on one host. `After` is what a command makes of the entry it finds
at the time it is executed, for SET with NX, XX, KEEPTTL and the four expirations, DEL, INCR
and EXPIRE; `ClientWrite` executes it on the master and puts it on `link` unless it failed,
`ReplicaWrite` executes it again. `Get` and `ReplicaGet` are GETs that find an expired key
and delete it, on their own side only. What the code does with an expired key that nobody
read is kept: NX refuses it, KEEPTTL keeps its past expiration, INCR counts on, EXPIRE
revives it (EXISTS, which looks at expirations, says 0 meanwhile). `cleanExpiredKeys` of
RedisStore is called by nothing and is not modelled.

`Dropped` are the keys a GET deleted since their last plain write (a DEL, or a SET without
condition): the sides may then differ until the next one, as NX finds a key on one side and
none on the other.

### Streams

A key holds a sequence of identifiers, pairs of numbers, or a string. `GenerateEntryId` is
`generateEntryId` with its comparison of decimal strings (`StringLess`), `After` the numeric
comparison of `getEntryRange`. `Xadd` is the whole command: the new entry, the listeners it
runs (`Woken`, up to the first that throws, `Throwing`), and the replica's execution of it,
at a time of its own. `XreadBlock` begins to wait, `Timeout` is the timer; an XREAD with
BLOCK 0 is one whose timer never fires. `Overwrite` stands for SET and DEL of the key.
`GetExpired` and `ReplicaGetExpired` are the GET that finds the key expired and deletes it,
on the side that executes it and no other: EXPIRE keeps the type of a key
(`ExpireCommand.ts:26`), and GET deletes any. Expirations themselves are left out, so that a GET
may delete any key at any time, as one with an expiration of 0 seconds does.
A `$` is resolved to the identifier that is last when the XREAD begins.

`disturbed` and `unsettled` are history: the XREADs whose wake-up a throwing listener may
have prevented, and the keys whose entries came from a clock or from an XADD that threw, or that
a GET deleted on one side; SET and DEL take a key out of it.
The identifiers' parts beyond their order, the fields of entries, COUNT, and lists or other
types at a stream's key are left out. XRANGE, XREVRANGE and an XREAD that finds entries
change no state.

### Persistence

The store is the sequence of its entries, in the order of a JavaScript Map. The file is a
sequence of what the parser reads in one call: an opcode, a length, an expiration, a string.
`RDB` is `buildRDB`, `Throws` its refusals (lengths from 64 on, an invalid date). `Load` is
the parser: `Turn` is one turn of its loops, which stays where it is at the end of the file
and where a read fails, and `Load` as many turns as the file has tokens. The entries read
before the first read that fails stay in the store. `Save` empties
the file and writes any prefix of what `RDB` made (`SaveUpTo`). When that is not all of it,
either the process has died or `writeFileSync` has thrown, and then SAVE answers an error
and the process goes on (`SaveCommand.ts:30`). `SaveFails` is a SAVE that fails with the file
untouched: `buildRDB` threw, or the file could not be opened. `Crash` and `Restart` do the
rest. `snapshot` and `cut` are history: what the last SAVE that opened the file was to
write, and whether it did not write all of it.

`DurableStore` is what a client may rely on: a set with one entry for each key, a SAVE that
keeps its strings, and a restart that gives back those that have not expired: all of them, or
some when the SAVE was cut short, by the end of the process or by an error that it
survived. What was kept before is gone in either case; only a SAVE that fails before it opens
the file leaves it alone. It has no file, no order and no lengths. `store` and `snapshot` are mapped to the sets of their members.

Left out: what this writer never writes but the parser can read (metadata, expirations in
seconds, lengths of 14 and 32 bits, integers as strings).

## The runs

Passing:

| run | instance | shows |
|---|---|---|
| `BlockingService` | 2 keys, 3 elements, 3 calls of 3 connections, pushes of up to 2 | `TypeOK`, `AtMostOnePlace`, `NoElementLost`, `QueuedIffWaiting`, `ReplicaMatchesUnlessServed`, `NoLostWakeUp`, `ImplementsListService` |
| `BlockingTimers` | 2 keys, 2 elements, 3 calls of 1 connection, 2 pending | `TimedCallReturns` for a client that pipelines, under fairness |
| `ReplicationWaits` | 2 replicas, 2 WAITs, a write of 20 or 27 bytes | `TypeOK`, `StreamAccounted`, `WaitCountsHolders`, `QuietWaitCountsDistinct`, `EarlyReplicaCounted`, `LinksImplementCommandStream`; `WaitReturns`, under fairness |
| `DispatcherModes` | 2 connections, 2 channels, 6 commands, `badset` and `nosuch` among them, queues of 2 | `TypeOK`, `SubscriptionsAgree`, `TransactionXorSubscribed`, `FailureIsItsOwn`, `SuccessesAreStreamed`, `FailedTransactionHasNoEffect` |
| `ConnectionOrderly` | a patient client, 4 commands of 1 or 3 bytes, those that block among them | `TypeOK`, `InStreamOrder`, `ImplementsRequestReply`; `EveryCommandAnswered`, under fairness |
| `MasterLinkCut` | messages of 1 to 4 bytes, 5 commands | `ReadAsWritten`, `ImplementsCommandStream`; `EveryCommandProcessed`, under fairness |
| `KeyspaceReplica` | 1 key, a text and numbers up to 2, times 0 to 3, 2 commands in flight | `KeyspaceTypeOK`, `ReplicaHoldsKeys`, `ReplicaServesLonger` |
| `StreamsBlocking` | 2 streams, 2 entries in all, on either side, 2 XREADs, identifiers of one and two digits, 2 times | `TypeOK`, `SameWidthIdsIncrease`, `NoReaderLeftBehind`, `ListensWhileWaiting`, `ReplicaHasStreams` |
| `PersistenceRestart` | 3 keys, one of them too long, a text, a limit of 3 in place of 64, times 0 and 1 | `TypeOK`, `RestartRestores`, `CutRestoresPart`, `ImplementsDurableStore` |

Violated, each by what the code does against what a comment or the README says:

| run | what the trace shows |
|---|---|
| `BlockingReplica` | a push that serves a parked call sends LPOP before the push; the replica keeps the element |
| `ReplicationDoubleCount` | one replica's two ACKs satisfy a WAIT for two replicas |
| `ConnectionReentrant` | a command that blocks is executed and answered twice |

### Divergences without a run

Seen while modelling, and plain enough to be read off the code in one place; a run would
add nothing to that.

- A waiter is taken out of a queue by its connection (`BlockingManager.ts:112`, `:117`): for
  a client that pipelined, another call of the connection goes in its stead, the answered
  one stays queued, and the next push pops an element for it that nobody gets. This is why
  `NoElementLost` and `QueuedIffWaiting` are about `MaxPending = 1`.
- EXEC's list of commands to propagate has no `lpop` (`ExecCommand.ts:8`): LPOP in a
  transaction is not propagated. `SuccessesAreStreamed` is about the commands on the list.
- XADD compares identifiers as strings (`utilities.ts:22`; the message of
  `XaddCommand.ts:38` is about numbers): `9-0` is accepted behind `10-0`; of `1-9`, `1-*`
  the second is `1-10`, behind which `1-9` is accepted again. `SameWidthIdsIncrease` is
  about identifiers with as many digits.
- A listener of XREAD that finds a string in one of its streams throws in the XADD
  (`XreadCommand.ts:53`): the entry is stored, the client is answered with an error, nothing
  is propagated, and the listeners behind it are not called. XREAD and XRANGE do not look at
  the type of a key.
- A key that GET finds expired is deleted there (`GetCommand.ts:22`), and the deletion is not
  propagated. That is so for streams and lists as well: EXPIRE keeps the type.
- SET EXAT or PXAT with something that is no number stores an invalid date
  (`SetCommand.ts:45`): the key never expires, and every SAVE throws while it is there.
- SAVE fails as a whole when a key, a text, or the number of keys reaches 64
  (`RDBWriter.ts:73`), and overwrites the dump in place (`SaveCommand.ts:26`): a SAVE whose
  write fails, on a disk that is full, answers an error (`:32`) and has destroyed the
  earlier dump.
- A key is alive for GET at the time of its expiration, and expired for SAVE
  (`RDBWriter.ts:39`).
- The link to the master is not made again when it ends or fails
  (`MasterConnectionHandler.ts`), and a propagated command that rejects is an unhandled
  rejection of the replica (`Server.ts:167`).
- `getPayload` drops empty arguments and those that look like a header
  (`DataParser.ts:30`), and `toRESPArray` writes lengths in UTF-16 units (`utilities.ts:107`).
- A replica that joins late starts its offset at 0 (`MasterConnectionHandler.ts:11`), while
  WAIT compares it with the master's offset (`WaitCommand.ts:30`): it is not counted until
  GETACKs have made up the difference. `EarlyReplicaCounted` is about those that joined
  before the first write.
- WAIT takes an offset of 0 for "nothing written" and answers at once with the number of
  listed replicas (`WaitCommand.ts:19`), which may have joined after writes made while
  there was no replica. `WaitCountsHolders` is about writes that were propagated, and about
  a WAIT that is the only one made so far: GETACKs of an earlier one can lift a late
  replica's offset to the master's.
- EXEC propagates a write that failed (`ExecCommand.ts:64`), the dispatcher does not
  (`SOLIDDispatcher.ts:125`). `SuccessesAreStreamed` says that what succeeded is sent, in
  order; for what is not queued it says that nothing else is.
- "Pre-validate the command for syntax errors before queueing", says
  `SOLIDDispatcher.ts:52`; the checks of queued arguments at lines 57-59 compare a lower-case
  name with upper-case literals and never apply, so that a malformed SET, GET or INCR does
  not fail its transaction.
- The reply to EXEC omits what an array-valued command answered (`ExecCommand.ts:81`).
- PUBLISH counts sockets that have closed (`PublisCommand.ts:28`).

### Bounds

*Lists.* Two keys are needed for a call on several keys, and two connections for competition;
three elements for a list that is left with elements after a push of two served a call;
three calls for an order among those parked, and for copies of a call of one connection.

*Replication.* Two replicas make a count that can be wrong by one, and two WAITs make one
that disturbs another. One write is before or behind each PSYNC, WAIT and ACK; it is
shorter than `REPLCONF GETACK *`, whose length is 37, so that offsets can cross. That the properties hold with more writes is what the theorems say.

*Dispatcher.* Queues of two hold a command that fails and one that does not, and an unknown
command with a malformed one.

*Links.* Messages of one byte and of more are cut by the network in every way, inside the
next message included; what a message is read as depends on no more than that.

*Keyspace.* One key: the only command that touches two is a DEL of several, which deletes them
one by one and is taken for as many DELs. The texts are ones that `parseInt` refuses; those that
it takes for a number although they are none, such as `12abc`, are left out (INCR does the
same with them on either side). Lifetimes of 0 and 1 and an absolute time let a
key expire before, at and after a command is executed on either side; two commands in flight
make a replica that lags behind a condition and behind what it depends on.

*Streams.* `9-1` and what the clock gives at 10 and 11 are identifiers of both widths; two
XREADs on one stream or two make one that is woken and one that is not; two entries make one
that is refused and one that is behind another, or one in each stream. `MaxEntries` bounds
the replica's stream too, which after a GET that deleted the master's is the longer one, and
`MaxTotal` the streams of each server. An XREAD reads behind the last entry (`$`) of one of
its streams at most: the other is read behind `9-1`.

*Persistence.* `LengthLimit` stands for 64: three keys reach it by their number, one key by
its length (a text that is too long is refused by the same condition). Lists are skipped,
and an expiration passes while the server is down.

Each bound is a constant (`MaxPush`, `MaxPending`, `MaxWrites`, `MaxQueue`, `MaxExecuted`,
`MaxSent`, `MaxParked`, `MaxCommands`, `MaxTime`, `MaxLink`, `MaxNumber`, `MaxEntries`,
`MaxTotal`). The proofs hold for all values of them. Symmetry is used where calls,
connections, elements, keys, replicas, streams or XREADs are interchangeable, and in no run that
checks a liveness property. `CHECK_DEADLOCK FALSE` stands where clients may have sent all
the bound lets them send, or a clock has reached its bound.

### Fairness

`BlockingManager!FairSpec` and `Replication!FairSpec` are weakly fair to timers: Node runs
each timer that is due. `ConnectionLoop!FairSpec` is weakly fair to the delivery of bytes
that were sent and to the loop of an activation, which JavaScript runs to the end. `MasterLink!FairSpec` is weakly fair to the master's
answers, to delivery, and to the replica's loop. No client is obliged to send, no replica to answer, no push to come.

## The proofs

| theorem | states |
|---|---|
| `BlockingManagerProofs!TypeCorrect`, `ElementsInOnePlace`, `HonestReplies` | `Spec => []TypeOK`, `[]AtMostOnePlace`, `[]ReplyIsHonest` |
| `BlockingManagerProofs!NothingLost`, `QueuesAreExact`, `NobodyForgotten`, `ReplicaFollows`, `ServedInOrder` | `MaxPending = 1 =>` (`Spec =>` `[]NoElementLost`, `[]QueuedIffWaiting`, `NoLostWakeUp`, `[]ReplicaMatchesUnlessServed`, `FirstComeFirstServed`) |
| `BlockingManagerProofs!Implementation`, `PushesToTheirEnd` | `MaxPending = 1 =>` (`Spec =>` `ImplementsListService`, `PushesServeTheLine`) |
| `ReplicationProofs!TypeCorrect`, `OffsetsAccount` | `Spec => []TypeOK`, `[]StreamAccounted` |
| `ReplicationProofs!EarlyReplicaIsCounted`, `QuietWaitIsExact`, `OnlyWaitCountsHolders` | `Spec => []EarlyReplicaCounted`, `[]QuietWaitCountsDistinct`, `[]WaitCountsHolders` |
| `ReplicationProofs!OneWaitCountsReplicas` | `(\A v, w \in Waits : v = w) =>` (`Spec =>` `[]AcknowledgedByRequired`) |
| `ReplicationProofs!LinksImplement` | `Spec => LinksImplementCommandStream` |
| `DispatcherProofs!TypeCorrect`, `SubscriptionsAlwaysAgree`, `ModesExclude`, `FailureIsOfThisTransaction`, `StreamIsOfSuccesses`, `FailedTransactionIsVoid` | `Spec =>` the invariants of `DispatcherModes` and its action property |
| `ConnectionLoopProofs!TypeCorrect`, `CommandsInOrder`, `AwaitedOnce`, `OneResponseEach`, `Implementation` | `Serial =>` (`Spec =>` `[]TypeOK`, `[]InStreamOrder`, `[]OneActivation`, `[]OneResponse`, `ImplementsRequestReply`) |
| `MasterLinkProofs!TypeCorrect`, `MessagesReadAsWritten`, `LinkImplements` | `Spec => []TypeOK`, `[]ReadAsWritten`, `ImplementsCommandStream` |
| `StreamsProofs!TypeCorrect`, `ReplicaStreams`, `ReadersListen`, `ReadersAreWoken`, `SameWidthIncrease` | `Spec =>` the invariants of `StreamsBlocking` |
| `StoreProofs!StoreIsAMap`, `SavedIsRestored`, `CutIsRestoredInPart` | `Spec => []TypeOK`, `[]RestartRestores`, `[]CutRestoresPart` of `Persistence` |
| `StoreProofs!Durability` | `Spec => ImplementsDurableStore` |
| `StoreProofs!KeyspaceTypeCorrect`, `HoldsTheSameKeys`, `ServesAsLong` | `KeyspaceSpec => []KeyspaceTypeOK`, `[]ReplicaHoldsKeys`, `[]ReplicaServesLonger` |

Every invariant that a passing run checks is thus a theorem, and so are the action properties
of `BlockingService` and `DispatcherModes`, the four refinements and the link that `Replication` shares with
`MasterLink`; the four liveness properties are not. `ReplyIsHonest`, `FirstComeFirstServed`,
`PushesServeTheLine` and `OneActivation` are theorems that no run checks. Two of the three
properties that the violated runs refute are theorems too, under the condition that excludes
the cause: `OneResponse` when nothing is pipelined behind a command that may block,
`AcknowledgedByRequired` when there is one WAIT. For the third, `ReplicaMatches`, it is `ReplicaFollows`: its antecedent is that no
push has served a parked call.

The assumptions are the `ASSUME`s of the modules, on their constants. `StoreProofs` extends
both `Keyspace` and `Persistence`, which therefore share `Expirations` and no other name.
`Serial` is the condition under which a connection is orderly: no command blocks, or the client is patient.
`MaxPending = 1` is a client that sends no BLPOP while another of its connection is
unanswered, as in the run. Without it all seven properties are false: with `MaxPending = 2`
TLC finds a trace against each, against `ReplicaMatchesUnlessServed` when two calls have
different timeouts (see "Divergences without a run" for the cause).

Induction over lists is needed for what a filter or a concatenation of lists of any length
is. The library's induction rules take an operator, which no backend can instantiate; the
set of the numbers up to which a fact holds is not an operator, and `InductionUpTo` and
`ListInduction` of `ListLemmas` say that such a set holds everything. `Lists` defines filtering by
a recursive function for that reason (`SelectSeq` is declared by recursion).

*BlockingManager.* That an element is in one place needs more than itself: an element may
be handed to a parked call only because it is fresh (`TakenWasPushed`: what was listed,
popped or delivered had been pushed, so that a pushed element is none of these) and the
answer is honest only because a call in the queue of a key listens on that key
(`QueuedCallsListen`). `Inv` is the conjunction; `ListLemmas` says what appending,
prepending, cutting and reversing do to the elements of a list and to their being distinct.
The proof has no condition on `MaxPending`: it covers clients that pipeline.

For clients that do not, `OrderlyInv` adds the queues. `OnePending` (no connection has two
unanswered calls) is what makes `removeWaiter`, which looks for a connection, take the call
that was answered; from it follows that the queue of each key holds exactly the waiting
calls that listen on it, once (`QueuesExact`), in the order in which they were parked
(`QueuesInOrder`). So a push serves the call parked first, and what it pops for that call is
delivered, as the call still waits. A push with nobody in the queue of its key leaves nobody
beside its elements, as a waiting call that listens on the key would be in the queue; a push with
somebody serves the first (`PushWakesOne`), and no other step adds an element, or parks a
call beside one: `NoLostWakeUp`.

The refinement of `ListService` rests on the same two facts: the queue of a key is the line
restricted to the calls that listen on it (`QueueIsWaiting`), so that its first member is the
first in line that asked for the key, and `PushRefines` needs only what `notifyListPush`
does with that one. A push, a pop and an overwriting each have a lemma.

*The stream.* That the offsets account for every byte is inductive with three facts about
who has a stream at all (`StreamInv`): a connection that did not send PSYNC has none, a
closed socket holds nothing in flight, and no replica joins at an offset the master has not
reached. The steps are lemmas about queues as chains of commands (`ChainTail`,
`ChainAppend`).

*WAIT.* Three invariants, each on top of the one before. `OffsetInv` compares numbers of
writes with offsets: a replica that executed the last write that is due is at least at the
offset the WAIT asks for, less where it joined (`Reached`), wherever its ACK is by then; so
no early replica is missed. `QuietInv` follows the one GETACK of a quiet WAIT: the writes
in flight are exactly those not executed (`WritesInFlight`), those that are due lie before
the GETACK, and GETACK, ACK and count exclude each other (`OneAck`), so that the count is a
number of replicas. `FirstInv` says that the only WAIT made asks at an offset no GETACK has
moved yet (`FirstWaitExact`): an ACK then reaches the master's offset exactly when its
replica joined at offset 0, which is before the first write (`JoinedFirst`).

When there is only one WAIT it is the first one, which is quiet: what it counted are
replicas, and `AcknowledgedByRequired` follows from the two.

*The links of the master.* `LinkNext` goes through the actions for one replica: a write and
a GETACK append to its link when it is connected, whoever caused them; what another replica
does leaves it alone. The abstract link has no history: `Bare` and `Offsets` take it away,
and commute with appending and with taking the first (`BareAppend`, `OffsetsTail`).

*Dispatcher.* The properties of the modes are inductive together. `HistoryInv` states
`SuccessesAreStreamed` with the types of both histories; each dispatch appends to both, or,
in EXEC, the same list filtered in two ways, and filters distribute over concatenation
(`OnlyOfConcat`).

*ConnectionLoop.* `Inv` says that commands lie one after the other in the stream
(`StreamLaidOut`), that the buffer begins where the last answered command ends
(`AnswersAligned`), that at most the last command sent is awaited, and then nothing else is
in the buffer (`Awaiting`), and that a patient client has sent nothing behind a command
that may block and is unanswered (`NothingBehind`). From this the command the parser finds is the next one
(`HeadIsNext`), and each step is a step of `RequestReply` or leaves it unchanged.

*MasterLink.* That the buffer begins behind the messages consumed (`Aligned`: `start` is the
end of message number `Consumed`) says which message the handler has in front of it, because
messages lie one behind the other and none is empty (`LaidOut`), so that only one begins at
each byte. What that message is follows from what the master writes in which order
(`KindsInOrder`), and that in turn from the handshake being a dialogue: one request or one
answer is on its way, never both (`Alternating`). Without it the master could write the RDB
file while the replica awaits a line. For the refinement, `Behind` is the sequence of
commands behind the first p: a propagated command is appended to it, a processed one is its
head, and until the master lists the replica it is empty, so that the handshake stutters.

*Streams.* A request that names its time is answered alike at any two times (`ClockUnread`),
so that master and replica make the same stream of the same stream; a key stays in
`unsettled` from the first entry of which that is not so, or the first GET that deleted it on
one side, until it is overwritten. The proof
needs of the identifiers only that they are identifiers (`GeneratedId`).

That waiting XREADs are woken is inductive with `ListensWhileWaiting` (`ReaderInv`): an XADD
calls the listeners in their order, and each that finds an entry is taken off the list and
stops waiting, up to the first that throws, behind which all are `disturbed`. That
identifiers grow (`IncreaseInv`) rests on what the code's comparison of strings means: of
decimal strings of one length, the order of strings is the order of the numbers, proved by
induction on the digits.

*StoreProofs, the dump.* `DumpInv` says that the dump is a prefix of a file that `RDB` made
of `snapshot` at a time that has passed (`SavedAt`), the whole of it unless `cut`. The rest
is about what the parser makes of such a file, whatever keys, texts and expirations are in
it: the pair of entry k + 1 lies behind the pairs of the first k (`PairPlaces`); a turn that
begins there reads the entry, or finds that the file ends before it does (`TurnOnFile`);
so that after as many turns as there are tokens the whole file has been read (`WholeLoads`),
or some first entries of it (`CutLoads`). An entry that is live when it is loaded was not
expired when it was saved (`LastingOfWritten`), as the clock does not go back.

*StoreProofs, the abstract store.* Each operation on the list of entries is one on the set of
its members: `Put` replaces the entry of its key (`MembersOfPut`), deleting filters
(`MembersOfWithout`), the entries that are still alive are those of the set
(`MembersOfLasting`), and what a cut file gives back, a prefix, is a subset
(`MembersOfPrefix`). `RestartRefines` takes from `DumpInv` what was read.

*StoreProofs, the replica.* While commands are in flight the stores differ in any way, so
that no relation of the two is inductive. `WillMatch` is about where it ends: for every
choice of later times at which the replica executes what is in flight, its entry of a key
then stands for the master's (`Matches`: the same value, and it expires when the master's
does or later). A key that a GET deleted is unknown up to the next plain write of it, and
predicted from there on (`Predicts`). A write of the master extends the prediction by
one step at a time that is not earlier (`LaterMatches`); one of the replica fixes the first
time to be now; nothing in flight is the case in which nothing is left to predict.

Only model-checked: the liveness properties (`TimedCallReturns`, `WaitReturns`,
`EveryCommandAnswered`, `EveryCommandProcessed`), as fairness and ENABLED are out of TLAPS's
reach. The three properties that runs find violated have no unconditional theorem.

## Plan

**Done**: `BlockingManager` with `ListService`, `Replication`, `Dispatcher`, `ConnectionLoop`
with `RequestReply`; `MasterLink` with `CommandStream`, `Keyspace`, `Streams`, `Persistence`
with `DurableStore`; the proofs above.

Left, in this order:

1. `SuspendedExec`: EXEC of commands that block, interleaved with other clients, composed
   from `Dispatcher` and `BlockingManager`.
2. Closed connections in `BlockingManager`, whose parked calls go on taking elements.
3. `RespParser`: which arguments `getPayload` keeps, and lengths in bytes and characters.

### Not modelled

Start-up and the command line, and the commands that only format an answer (ECHO, INFO,
CONFIG): they keep no state, or set it once. The arguments of commands, and thus
`getPayload` and `toRESPArray`: every module takes them for opaque. EXEC of a command that
blocks. Dumps of other servers.
