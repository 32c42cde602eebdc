----------------------------- MODULE Dispatcher -----------------------------
(***************************************************************************)
(* The modes a DIY-Redis connection can be in, and what they do to the     *)
(* commands it sends: transactions (MULTI, EXEC, DISCARD), subscribe mode, *)
(* and which commands the master passes on to its replicas                 *)
(* (SOLIDDispatcher.ts, ExecCommand.ts, SubscriptionManager.ts).           *)
(*                                                                         *)
(* A command is known by its name.  Its effect on the keyspace is left     *)
(* out: what matters is whether it is a write, whether it succeeded, and   *)
(* whether it was propagated.  The commands here do not block, so that     *)
(* each dispatch, EXEC included, runs to its end before the next one.      *)
(***************************************************************************)
EXTENDS Integers, FiniteSets, Lists

CONSTANTS
  Conns,       \* client connections
  Channels,    \* pub/sub channels
  Commands,    \* the commands clients send besides those with an action of their own
  MaxQueue,    \* bound on the commands of a transaction
  MaxExecuted  \* bound on the writes executed and propagated

\* The commands, by the handler type the registry gives them.  "badset" is a
\* SET with an argument missing, "nosuch" is in no registry.
Simple == {"set", "badset", "incr", "lpop", "get"}
Orchestration == {"wait"}
Replication == {"subscribe", "unsubscribe"}
Registered == Simple \cup Orchestration \cup Replication

ASSUME DispatcherAssumption ==
  /\ Commands \subseteq Registered \cup {"nosuch"}
  /\ MaxQueue \in Nat
  /\ MaxExecuted \in Nat

VARIABLES
  inTransaction,        \* of each connection's state
  transactionFailed,    \* of each connection's state
  commandQueue,         \* of each connection's state
  subscribedChannels,   \* of each connection's state
  channelSubscriptions, \* the subscription manager's sets of connections
  open,                 \* connections whose socket is open
  \* history
  executed,             \* the writes executed with success, in order
  stream                \* the calls of propagate, in order

txVars == <<inTransaction, transactionFailed, commandQueue>>
subVars == <<subscribedChannels, channelSubscriptions>>
vars == <<txVars, subVars, open, executed, stream>>

Init ==
  /\ inTransaction = [c \in Conns |-> FALSE]
  /\ transactionFailed = [c \in Conns |-> FALSE]
  /\ commandQueue = [c \in Conns |-> << >>]
  /\ subscribedChannels = [c \in Conns |-> {}]
  /\ channelSubscriptions = [ch \in Channels |-> {}]
  /\ open = Conns
  /\ executed = << >>
  /\ stream = << >>

-----------------------------------------------------------------------------
\* COMMANDS_THAT_PROPAGATE, and the WRITE_COMMANDS that EXEC propagates.
PropagatedDirectly == {"set", "badset", "incr", "lpop"}

\* Mutant: WRITE_COMMANDS without incr.
WritesWithoutIncr == {"set", "badset"}

PropagatedByExec == {"set", "badset", "incr"}

\* The commands that change the keyspace when they succeed.
Writes == {"set", "badset", "incr", "lpop"}

\* Whether a command can succeed: INCR needs an integer, LPOP a list.
Outcomes(cmd) ==
  CASE cmd = "badset" -> {FALSE}
    [] cmd \in {"incr", "lpop"} -> BOOLEAN
    [] OTHER -> {TRUE}

\* A run of one command, as the histories record it: whether it succeeded,
\* and whether EXEC ran it.
Ran(cmd, ok, tx) == [cmd |-> cmd, ok |-> ok, tx |-> tx]
Records == [cmd : Commands, ok : BOOLEAN, tx : BOOLEAN]

Room(n) == Len(executed) + n <= MaxExecuted /\ Len(stream) + n <= MaxExecuted

\* Mutant: no gate of subscribe mode.
AllowedAlways(c) == TRUE

\* A connection that is subscribed may only send the commands of that mode.
Allowed(c) == subscribedChannels[c] = {}

\* What the dispatcher propagates outside a transaction.
PropagatesNow(cmd, ok) == cmd \in PropagatedDirectly /\ ok

-----------------------------------------------------------------------------
\* Mutant: a new transaction inherits the mark of the one that was discarded.
MultiKeepsFailure(c) ==
  /\ c \in open
  /\ Allowed(c)
  /\ inTransaction' = [inTransaction EXCEPT ![c] = TRUE]
  /\ commandQueue' = [commandQueue EXCEPT ![c] = << >>]
  /\ UNCHANGED <<transactionFailed, subVars, open, executed, stream>>

\* MULTI, also inside a transaction, whose queue it then empties.
Multi(c) ==
  /\ c \in open
  /\ Allowed(c)
  /\ inTransaction' = [inTransaction EXCEPT ![c] = TRUE]
  /\ commandQueue' = [commandQueue EXCEPT ![c] = << >>]
  /\ transactionFailed' = [transactionFailed EXCEPT ![c] = FALSE]
  /\ UNCHANGED <<subVars, open, executed, stream>>

\* Inside a transaction every other command is queued.  One that is not
\* registered makes the transaction fail; the checks of the arguments
\* compare a lower-case name with "SET", "GET" and "INCR" and never apply.
Queue(c, cmd) ==
  /\ c \in open
  /\ inTransaction[c]
  /\ Len(commandQueue[c]) < MaxQueue
  /\ commandQueue' = [commandQueue EXCEPT ![c] = Append(@, cmd)]
  /\ transactionFailed' =
       [transactionFailed EXCEPT ![c] = IF cmd \in Registered THEN @ ELSE TRUE]
  /\ UNCHANGED <<inTransaction, subVars, open, executed, stream>>

\* DISCARD leaves transactionFailed as it is.
Discard(c) ==
  /\ c \in open
  /\ inTransaction[c]
  /\ Allowed(c)
  /\ inTransaction' = [inTransaction EXCEPT ![c] = FALSE]
  /\ commandQueue' = [commandQueue EXCEPT ![c] = << >>]
  /\ UNCHANGED <<transactionFailed, subVars, open, executed, stream>>

\* EXEC leaves the transaction before it looks at it.
LeaveTransaction(c) ==
  /\ c \in open
  /\ inTransaction[c]
  /\ Allowed(c)
  /\ inTransaction' = [inTransaction EXCEPT ![c] = FALSE]
  /\ commandQueue' = [commandQueue EXCEPT ![c] = << >>]
  /\ transactionFailed' = [transactionFailed EXCEPT ![c] = FALSE]

\* Mutant: EXEC does not look at transactionFailed.
RunsAnyway(c) == TRUE

Runs(c) == ~ transactionFailed[c]

\* EXECABORT.
ExecAbort(c) ==
  /\ LeaveTransaction(c)
  /\ ~ Runs(c)
  /\ UNCHANGED <<subVars, open, executed, stream>>

\* EXEC runs the queue: simple commands run, the others are refused, and a
\* write command is propagated whether or not it succeeded.
ExecRun(c) ==
  /\ LeaveTransaction(c)
  /\ Runs(c)
  /\ LET q == commandQueue[c]
     IN  /\ Room(Len(q))
         /\ \E ok \in [DOMAIN q -> BOOLEAN] :
              LET run == [n \in DOMAIN q |-> Ran(q[n], ok[n], TRUE)]
                  succeeded == {x \in Records : x.ok /\ x.cmd \in Writes}
                  propagated == {x \in Records : x.cmd \in PropagatedByExec}
              IN  /\ \A n \in DOMAIN q : ok[n] \in Outcomes(q[n])
                  /\ executed' = executed \o Only(run, succeeded)
                  /\ stream' = stream \o Only(run, propagated)
  /\ UNCHANGED <<subVars, open>>

\* A command that is executed when it is sent.  One that is not registered
\* is answered with an error and changes nothing.
Direct(c, cmd) ==
  /\ c \in open
  /\ ~ inTransaction[c]
  /\ Allowed(c)
  /\ cmd \in Simple
  /\ Room(1)
  /\ \E ok \in Outcomes(cmd) :
       /\ executed' = IF ok /\ cmd \in Writes THEN Append(executed, Ran(cmd, ok, FALSE)) ELSE executed
       /\ stream' = IF PropagatesNow(cmd, ok) THEN Append(stream, Ran(cmd, ok, FALSE)) ELSE stream
  /\ UNCHANGED <<txVars, subVars, open>>

\* SUBSCRIBE outside a transaction: the manager and the connection's state
\* each record the channels.
Subscribe(c, chs) ==
  /\ c \in open
  /\ ~ inTransaction[c]
  /\ channelSubscriptions' = [ch \in Channels |-> IF ch \in chs
                                                  THEN channelSubscriptions[ch] \cup {c}
                                                  ELSE channelSubscriptions[ch]]
  /\ subscribedChannels' = [subscribedChannels EXCEPT ![c] = @ \cup chs]
  /\ UNCHANGED <<txVars, open, executed, stream>>

\* Mutant: the manager drops the connection from every channel it is on.
UnsubscribeAll(c, chs) ==
  /\ c \in open
  /\ ~ inTransaction[c]
  /\ channelSubscriptions' = [ch \in Channels |-> channelSubscriptions[ch] \ {c}]
  /\ subscribedChannels' = [subscribedChannels EXCEPT ![c] = @ \ chs]
  /\ UNCHANGED <<txVars, open, executed, stream>>

\* UNSUBSCRIBE: only the channels the connection has are taken from the manager.
Unsubscribe(c, chs) ==
  /\ c \in open
  /\ ~ inTransaction[c]
  /\ channelSubscriptions' = [ch \in Channels |-> IF ch \in chs \cap subscribedChannels[c]
                                                  THEN channelSubscriptions[ch] \ {c}
                                                  ELSE channelSubscriptions[ch]]
  /\ subscribedChannels' = [subscribedChannels EXCEPT ![c] = @ \ chs]
  /\ UNCHANGED <<txVars, open, executed, stream>>

\* Mutant: the connection's state goes with its socket.
DisconnectDropsState(c) ==
  /\ c \in open
  /\ open' = open \ {c}
  /\ inTransaction' = [d \in open \ {c} |-> inTransaction[d]]
  /\ UNCHANGED <<transactionFailed, commandQueue, subVars, executed, stream>>

\* The socket closes: "end" is logged, and nothing is cleaned up.
Disconnect(c) ==
  /\ c \in open
  /\ open' = open \ {c}
  /\ UNCHANGED <<txVars, subVars, executed, stream>>

Next ==
  \E c \in Conns :
    \/ Multi(c) \/ Discard(c) \/ ExecAbort(c) \/ ExecRun(c) \/ Disconnect(c)
    \/ \E cmd \in Commands : Queue(c, cmd) \/ Direct(c, cmd)
    \/ \E chs \in SUBSET Channels \ {{}} : Subscribe(c, chs) \/ Unsubscribe(c, chs)

Spec == Init /\ [][Next]_vars

-----------------------------------------------------------------------------
(* Properties.                                                             *)

\* Type correctness of the connections' states and the subscriptions.
TypeOK ==
  /\ inTransaction \in [Conns -> BOOLEAN]
  /\ transactionFailed \in [Conns -> BOOLEAN]
  /\ commandQueue \in [Conns -> Seq(Commands)]
  /\ subscribedChannels \in [Conns -> SUBSET Channels]
  /\ channelSubscriptions \in [Channels -> SUBSET Conns]
  /\ open \subseteq Conns

\* The subscription manager, which PUBLISH delivers by, and the connections'
\* own sets, which decide what a connection may send, agree.
SubscriptionsAgree ==
  \A c \in Conns, ch \in Channels :
    c \in channelSubscriptions[ch] <=> ch \in subscribedChannels[c]

\* No connection is in a transaction and subscribed at once, from which it
\* could neither run its queue nor leave it.
TransactionXorSubscribed ==
  \A c \in Conns : ~ (inTransaction[c] /\ subscribedChannels[c] # {})

\* The commands that the checks on arguments of SOLIDDispatcher.ts:57-59 are there
\* to refuse.  The dispatcher of this code queues them like any other.
Malformed == {"badset"}

\* Connection c has queued a command of cmds in the transaction it is in.
HasQueued(c, cmds) == \E n \in DOMAIN commandQueue[c] : commandQueue[c][n] \in cmds

\* The mark of a failed transaction tells of its own queue: none is lost once an
\* unknown command was queued, and none survives from an earlier transaction, for
\* a queue with nothing wrong in it is not marked.  Of a queue whose one fault is
\* a malformed command it says nothing: the comment at SOLIDDispatcher.ts:52 would
\* have it marked, and the checks below it never apply.
FailureIsItsOwn ==
  \A c \in Conns : inTransaction[c] =>
    /\ HasQueued(c, Commands \ Registered) => transactionFailed[c]
    /\ transactionFailed[c] => HasQueued(c, (Commands \ Registered) \cup Malformed)

\* A transaction with an unknown command has no effect at all, on the
\* keyspace or on the replicas, however it ends.
FailedTransactionHasNoEffect ==
  [][\A c \in Conns :
       /\ inTransaction[c] /\ ~ inTransaction'[c]
       /\ HasQueued(c, Commands \ Registered)
       => executed' = executed /\ stream' = stream]_vars

\* The replicas are sent exactly the writes that had an effect, once and in
\* the order of their execution, whoever ran them.  EXEC makes two
\* exceptions: it propagates writes that failed, and no LPOP.
SuccessesAreStreamed ==
  LET expected == {x \in Records : x.tx => x.ok}
      knownToExec == {x \in Records : x.tx => x.cmd # "lpop"}
  IN  Only(stream, expected) = Only(executed, knownToExec)
=============================================================================
