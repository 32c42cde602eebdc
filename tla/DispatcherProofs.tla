-------------------------- MODULE DispatcherProofs --------------------------
(***************************************************************************)
(* What the dispatcher guarantees of the modes of a connection and of what *)
(* is propagated, for any set of connections, channels and commands and    *)
(* any length of queue.                                                    *)
(***************************************************************************)
EXTENDS Dispatcher, ListLemmas

\* The inductive invariant.
Inv == TypeOK /\ SubscriptionsAgree /\ TransactionXorSubscribed /\ FailureIsItsOwn

\* A queue to which a command is added holds the same commands and that one.
LEMMA QueueGrows ==
  ASSUME NEW q \in Seq(Commands), NEW cmd \in Commands, NEW cmds
  PROVE  /\ Append(q, cmd) \in Seq(Commands)
         /\ (\E n \in DOMAIN Append(q, cmd) : Append(q, cmd)[n] \in cmds)
              <=> (cmd \in cmds \/ \E n \in DOMAIN q : q[n] \in cmds)
<1>1. /\ Append(q, cmd) \in Seq(Commands)
      /\ DOMAIN q = 1..Len(q) /\ Len(q) \in Nat
      /\ DOMAIN Append(q, cmd) = 1..(Len(q) + 1)
      /\ \A n \in 1..Len(q) : Append(q, cmd)[n] = q[n]
      /\ Append(q, cmd)[Len(q) + 1] = cmd
  BY AppendProperties, LenProperties
<1>2. /\ \A n \in 1..(Len(q) + 1) : n \in 1..Len(q) \/ n = Len(q) + 1
      /\ \A n \in 1..Len(q) : n \in 1..(Len(q) + 1)
      /\ Len(q) + 1 \in 1..(Len(q) + 1)
  BY <1>1
<1> QED
  BY <1>1, <1>2

\* Connections that have just been accepted satisfy the invariant.
LEMMA InitInv == Init => Inv
<1>1. << >> \in Seq(Commands)
  BY EmptySeq
<1> QED
  BY <1>1 DEF Init, Inv, TypeOK, SubscriptionsAgree, TransactionXorSubscribed, FailureIsItsOwn

\* MULTI empties the queue and takes the mark away.
LEMMA MultiKeepsInv ==
  ASSUME Inv, NEW c \in Conns, Multi(c)
  PROVE  Inv'
<1> USE DEF Multi, Inv, subVars
<1>1. TypeOK'
  <2>1. << >> \in Seq(Commands)
    BY EmptySeq
  <2> QED
    BY <2>1 DEF TypeOK
<1>2. SubscriptionsAgree'
  BY DEF SubscriptionsAgree
<1>3. TransactionXorSubscribed'
  BY DEF TypeOK, TransactionXorSubscribed, Allowed
<1>4. FailureIsItsOwn'
  <2> SUFFICES ASSUME NEW d \in Conns, inTransaction'[d]
               PROVE  /\ HasQueued(d, Commands \ Registered)' => transactionFailed'[d]
                      /\ transactionFailed'[d] =>
                           HasQueued(d, (Commands \ Registered) \cup Malformed)'
    BY DEF FailureIsItsOwn
  <2>1. CASE d = c
    <3>1. ~ transactionFailed'[d] /\ commandQueue'[d] = << >>
      BY <2>1 DEF TypeOK
    <3>2. DOMAIN << >> = {}
      OBVIOUS
    <3> QED
      BY <3>1, <3>2 DEF HasQueued
  <2>2. CASE d # c
    BY <2>2 DEF TypeOK, FailureIsItsOwn, HasQueued
  <2> QED
    BY <2>1, <2>2
<1> QED
  BY <1>1, <1>2, <1>3, <1>4

\* A queued command marks the transaction when it is unknown.
LEMMA QueueKeepsInv ==
  ASSUME Inv, NEW c \in Conns, NEW cmd \in Commands, Queue(c, cmd)
  PROVE  Inv'
<1>1. /\ inTransaction[c]
      /\ commandQueue' = [commandQueue EXCEPT ![c] = Append(@, cmd)]
      /\ transactionFailed' =
           [transactionFailed EXCEPT ![c] = IF cmd \in Registered THEN @ ELSE TRUE]
      /\ UNCHANGED <<inTransaction, subscribedChannels, channelSubscriptions, open>>
  BY DEF Queue, subVars
<1>2. /\ commandQueue[c] \in Seq(Commands)
      /\ commandQueue'[c] = Append(commandQueue[c], cmd)
      /\ Append(commandQueue[c], cmd) \in Seq(Commands)
  BY <1>1, AppendProperties DEF Inv, TypeOK
<1>3. TypeOK'
  BY <1>1, <1>2 DEF Inv, TypeOK
<1>4. SubscriptionsAgree' /\ TransactionXorSubscribed'
  BY <1>1 DEF Inv, SubscriptionsAgree, TransactionXorSubscribed
<1>5. FailureIsItsOwn'
  <2> SUFFICES ASSUME NEW d \in Conns, inTransaction'[d]
               PROVE  /\ HasQueued(d, Commands \ Registered)' => transactionFailed'[d]
                      /\ transactionFailed'[d] =>
                           HasQueued(d, (Commands \ Registered) \cup Malformed)'
    BY DEF FailureIsItsOwn
  <2>1. CASE d = c
    <3>1. transactionFailed'[c] <=> (cmd \notin Registered \/ transactionFailed[c])
      BY <1>1 DEF Inv, TypeOK
    <3>2. /\ HasQueued(c, Commands \ Registered) => transactionFailed[c]
          /\ transactionFailed[c] => HasQueued(c, (Commands \ Registered) \cup Malformed)
      BY <1>1 DEF Inv, FailureIsItsOwn
    <3>3. ASSUME NEW cmds
          PROVE  HasQueued(c, cmds)' <=> (cmd \in cmds \/ HasQueued(c, cmds))
      BY <1>2, QueueGrows DEF HasQueued
    <3>4. /\ HasQueued(c, Commands \ Registered)'
               <=> (cmd \in Commands \ Registered \/ HasQueued(c, Commands \ Registered))
          /\ HasQueued(c, (Commands \ Registered) \cup Malformed)'
               <=> \/ cmd \in (Commands \ Registered) \cup Malformed
                   \/ HasQueued(c, (Commands \ Registered) \cup Malformed)
      BY <3>3
    <3> QED
      BY <2>1, <3>1, <3>2, <3>4
  <2>2. CASE d # c
    BY <1>1, <2>2 DEF Inv, TypeOK, FailureIsItsOwn, HasQueued
  <2> QED
    BY <2>1, <2>2
<1> QED
  BY <1>3, <1>4, <1>5 DEF Inv

\* DISCARD and EXEC leave the transaction.
LEMMA LeavingKeepsInv ==
  ASSUME Inv, NEW c \in Conns,
         inTransaction' = [inTransaction EXCEPT ![c] = FALSE],
         commandQueue' = [commandQueue EXCEPT ![c] = << >>],
         transactionFailed' \in [Conns -> BOOLEAN],
         \A d \in Conns \ {c} : transactionFailed'[d] = transactionFailed[d],
         UNCHANGED <<subVars, open>>
  PROVE  Inv'
<1>1. TypeOK'
  <2>1. << >> \in Seq(Commands)
    BY EmptySeq
  <2> QED
    BY <2>1 DEF Inv, TypeOK, subVars
<1>2. SubscriptionsAgree'
  BY DEF Inv, SubscriptionsAgree, subVars
<1>3. TransactionXorSubscribed'
  BY DEF Inv, TypeOK, TransactionXorSubscribed, subVars
<1>4. FailureIsItsOwn'
  BY DEF Inv, TypeOK, FailureIsItsOwn, HasQueued
<1> QED
  BY <1>1, <1>2, <1>3, <1>4 DEF Inv

\* SUBSCRIBE and UNSUBSCRIBE change the manager and the connection alike.
LEMMA SubscriptionKeepsInv ==
  ASSUME Inv, NEW c \in Conns, NEW chs \in SUBSET Channels,
         Subscribe(c, chs) \/ Unsubscribe(c, chs)
  PROVE  Inv'
<1>1. ~ inTransaction[c] /\ UNCHANGED <<txVars, open>>
  BY DEF Subscribe, Unsubscribe
<1>2. CASE Subscribe(c, chs)
  <2>1. /\ channelSubscriptions' = [ch \in Channels |-> IF ch \in chs
                                                        THEN channelSubscriptions[ch] \cup {c}
                                                        ELSE channelSubscriptions[ch]]
        /\ subscribedChannels' = [subscribedChannels EXCEPT ![c] = @ \cup chs]
    BY <1>2 DEF Subscribe
  <2>2. TypeOK'
    BY <1>1, <2>1 DEF Inv, TypeOK, txVars
  <2>3. SubscriptionsAgree'
    BY <2>1 DEF Inv, TypeOK, SubscriptionsAgree
  <2>4. TransactionXorSubscribed'
    BY <1>1, <2>1 DEF Inv, TypeOK, TransactionXorSubscribed, txVars
  <2>5. FailureIsItsOwn'
    BY <1>1 DEF Inv, FailureIsItsOwn, HasQueued, txVars
  <2> QED
    BY <2>2, <2>3, <2>4, <2>5 DEF Inv
<1>3. CASE Unsubscribe(c, chs)
  <2>1. /\ channelSubscriptions' = [ch \in Channels |-> IF ch \in chs \cap subscribedChannels[c]
                                                        THEN channelSubscriptions[ch] \ {c}
                                                        ELSE channelSubscriptions[ch]]
        /\ subscribedChannels' = [subscribedChannels EXCEPT ![c] = @ \ chs]
    BY <1>3 DEF Unsubscribe
  <2>2. TypeOK'
    BY <1>1, <2>1 DEF Inv, TypeOK, txVars
  <2>3. SubscriptionsAgree'
    BY <2>1 DEF Inv, TypeOK, SubscriptionsAgree
  <2>4. TransactionXorSubscribed'
    BY <1>1, <2>1 DEF Inv, TypeOK, TransactionXorSubscribed, txVars
  <2>5. FailureIsItsOwn'
    BY <1>1 DEF Inv, FailureIsItsOwn, HasQueued, txVars
  <2> QED
    BY <2>2, <2>3, <2>4, <2>5 DEF Inv
<1> QED
  BY <1>2, <1>3

\* Every step keeps the invariant.
LEMMA NextInv == Inv /\ [Next]_vars => Inv'
<1> SUFFICES ASSUME Inv, [Next]_vars
             PROVE  Inv'
  OBVIOUS
<1>1. ASSUME NEW c \in Conns, Multi(c)
      PROVE  Inv'
  BY <1>1, MultiKeepsInv
<1>2. ASSUME NEW c \in Conns, Discard(c)
      PROVE  Inv'
  <2>1. transactionFailed' \in [Conns -> BOOLEAN]
    BY <1>2 DEF Discard, Inv, TypeOK
  <2> QED
    BY <1>2, <2>1, LeavingKeepsInv DEF Discard
<1>3. ASSUME NEW c \in Conns, ExecAbort(c) \/ ExecRun(c)
      PROVE  Inv'
  <2>1. LeaveTransaction(c) /\ UNCHANGED <<subVars, open>>
    BY <1>3 DEF ExecAbort, ExecRun
  <2>2. /\ transactionFailed' \in [Conns -> BOOLEAN]
        /\ \A d \in Conns \ {c} : transactionFailed'[d] = transactionFailed[d]
    BY <2>1 DEF LeaveTransaction, Inv, TypeOK
  <2> QED
    BY <2>1, <2>2, LeavingKeepsInv DEF LeaveTransaction
<1>4. ASSUME NEW c \in Conns, Disconnect(c)
      PROVE  Inv'
  BY <1>4 DEF Disconnect, txVars, subVars, Inv, TypeOK, SubscriptionsAgree,
              TransactionXorSubscribed, FailureIsItsOwn, HasQueued
<1>5. ASSUME NEW c \in Conns, NEW cmd \in Commands, Queue(c, cmd)
      PROVE  Inv'
  BY <1>5, QueueKeepsInv
<1>6. ASSUME NEW c \in Conns, NEW cmd \in Commands, Direct(c, cmd)
      PROVE  Inv'
  BY <1>6 DEF Direct, txVars, subVars, Inv, TypeOK, SubscriptionsAgree,
              TransactionXorSubscribed, FailureIsItsOwn, HasQueued
<1>7. ASSUME NEW c \in Conns, NEW chs \in SUBSET Channels, Subscribe(c, chs) \/ Unsubscribe(c, chs)
      PROVE  Inv'
  BY <1>7, SubscriptionKeepsInv
<1>8. CASE UNCHANGED vars
  BY <1>8 DEF vars, txVars, subVars, Inv, TypeOK, SubscriptionsAgree,
              TransactionXorSubscribed, FailureIsItsOwn, HasQueued
<1> QED
  BY <1>1, <1>2, <1>3, <1>4, <1>5, <1>6, <1>7, <1>8 DEF Next

-----------------------------------------------------------------------------
(* The theorems.                                                           *)

\* The inductive invariant holds of every reachable state.
THEOREM Invariance == Spec => []Inv
  BY InitInv, NextInv, PTL DEF Spec

\* Type correctness of the connections' modes.
THEOREM TypeCorrect == Spec => []TypeOK
<1>1. Inv => TypeOK
  BY DEF Inv
<1> QED
  BY <1>1, Invariance, PTL

\* What SubscriptionManager.ts and a connection's subscribedChannels record
\* is the same, whatever the connections do.
THEOREM SubscriptionsAlwaysAgree == Spec => []SubscriptionsAgree
<1>1. Inv => SubscriptionsAgree
  BY DEF Inv
<1> QED
  BY <1>1, Invariance, PTL

\* The queueing of SOLIDDispatcher.ts keeps SUBSCRIBE out of a transaction
\* and its gate keeps MULTI out of subscribe mode.
THEOREM ModesExclude == Spec => []TransactionXorSubscribed
<1>1. Inv => TransactionXorSubscribed
  BY DEF Inv
<1> QED
  BY <1>1, Invariance, PTL

\* The mark of a failed transaction tells of the commands in its own queue: an
\* unknown one among them is never forgotten, and without a fault among them there
\* is no mark.  Whether a malformed command marks it is left open (in
\* SOLIDDispatcher.ts:57-59 the checks for that never apply).
THEOREM FailureIsOfThisTransaction == Spec => []FailureIsItsOwn
<1>1. Inv => FailureIsItsOwn
  BY DEF Inv
<1> QED
  BY <1>1, Invariance, PTL

\* A transaction that holds an unknown command changes nothing when it ends
\* (the EXECABORT of ExecCommand.ts, DiscardCommand.ts).
THEOREM FailedTransactionIsVoid == Spec => FailedTransactionHasNoEffect
<1> DEFINE Void == \A c \in Conns :
             /\ inTransaction[c] /\ ~ inTransaction'[c]
             /\ HasQueued(c, Commands \ Registered)
             => executed' = executed /\ stream' = stream
<1>1. Inv /\ [Next]_vars => [Void]_vars
  <2> SUFFICES ASSUME Inv, Next, NEW c \in Conns,
                      inTransaction[c], ~ inTransaction'[c],
                      HasQueued(c, Commands \ Registered)
               PROVE  executed' = executed /\ stream' = stream
    OBVIOUS
  <2>1. transactionFailed[c]
    BY DEF Inv, FailureIsItsOwn
  <2>2. ASSUME NEW d \in Conns, ExecRun(d)
        PROVE  executed' = executed /\ stream' = stream
    <3>1. d = c
      BY <2>2 DEF ExecRun, LeaveTransaction, Inv, TypeOK
    <3> QED
      BY <2>1, <2>2, <3>1 DEF ExecRun, Runs
  <2>3. ASSUME NEW d \in Conns, NEW cmd \in Commands, Direct(d, cmd)
        PROVE  executed' = executed /\ stream' = stream
    BY <2>3 DEF Direct, txVars
  <2>4. ASSUME NEW d \in Conns,
               \/ Multi(d) \/ Discard(d) \/ ExecAbort(d) \/ Disconnect(d)
               \/ \E cmd \in Commands : Queue(d, cmd)
               \/ \E chs \in SUBSET Channels \ {{}} : Subscribe(d, chs) \/ Unsubscribe(d, chs)
        PROVE  executed' = executed /\ stream' = stream
    BY <2>4 DEF Multi, Discard, ExecAbort, Disconnect, Queue, Subscribe, Unsubscribe
  <2> QED
    BY <2>2, <2>3, <2>4 DEF Next
<1> QED
  BY <1>1, Invariance, PTL DEF Spec, FailedTransactionHasNoEffect

-----------------------------------------------------------------------------
(* What is propagated.                                                     *)

\* What the replicas are to be sent of the writes that were executed.
Expected == {x \in Records : x.tx => x.ok}
KnownToExec == {x \in Records : x.tx => x.cmd # "lpop"}

\* The inductive invariant behind SuccessesAreStreamed.
HistoryInv ==
  /\ executed \in Seq(Records) /\ stream \in Seq(Records)
  /\ Only(stream, Expected) = Only(executed, KnownToExec)

\* Outside a transaction, what succeeds and what is propagated is the same.
LEMMA DirectKeepsHistory ==
  ASSUME HistoryInv, NEW c \in Conns, NEW cmd \in Commands, Direct(c, cmd)
  PROVE  HistoryInv'
<1>1. PICK ok \in Outcomes(cmd) :
        /\ executed' = IF ok /\ cmd \in Writes THEN Append(executed, Ran(cmd, ok, FALSE)) ELSE executed
        /\ stream' = IF PropagatesNow(cmd, ok) THEN Append(stream, Ran(cmd, ok, FALSE)) ELSE stream
  BY DEF Direct
<1> DEFINE x == Ran(cmd, ok, FALSE)
<1>2. ok \in BOOLEAN
  BY DEF Outcomes
<1>3. x \in Records /\ x.tx = FALSE
  BY <1>2 DEF Ran, Records
<1>4. x \in Expected /\ x \in KnownToExec
  BY <1>3 DEF Expected, KnownToExec
<1>5. PropagatesNow(cmd, ok) <=> ok /\ cmd \in Writes
  BY DEF PropagatesNow, PropagatedDirectly, Writes
<1>6. executed \in Seq(Records) /\ stream \in Seq(Records)
  BY DEF HistoryInv
<1> HIDE DEF x
<1>7. CASE ok /\ cmd \in Writes
  <2>1. executed' = Append(executed, x) /\ stream' = Append(stream, x)
    BY <1>1, <1>5, <1>7 DEF x
  <2>2. /\ Only(Append(stream, x), Expected) = Append(Only(stream, Expected), x)
        /\ Only(Append(executed, x), KnownToExec) = Append(Only(executed, KnownToExec), x)
    BY <1>3, <1>4, <1>6, OnlyOfAppend
  <2>3. Append(executed, x) \in Seq(Records) /\ Append(stream, x) \in Seq(Records)
    BY <1>3, <1>6, AppendProperties
  <2> QED
    BY <2>1, <2>2, <2>3 DEF HistoryInv, Expected, KnownToExec
<1>8. CASE ~ (ok /\ cmd \in Writes)
  BY <1>1, <1>5, <1>8 DEF HistoryInv, Expected, KnownToExec
<1> QED
  BY <1>7, <1>8

\* Of the queue EXEC runs, those writes are both executed and propagated that
\* succeed and are no LPOP.
LEMMA ExecKeepsHistory ==
  ASSUME Inv, HistoryInv, NEW c \in Conns, ExecRun(c)
  PROVE  HistoryInv'
<1> DEFINE q == commandQueue[c]
           succeeded == {x \in Records : x.ok /\ x.cmd \in Writes}
           propagated == {x \in Records : x.cmd \in PropagatedByExec}
<1>1. PICK ok \in [DOMAIN q -> BOOLEAN] :
        LET run == [n \in DOMAIN q |-> Ran(q[n], ok[n], TRUE)]
        IN  executed' = executed \o Only(run, succeeded) /\ stream' = stream \o Only(run, propagated)
  BY DEF ExecRun
<1> DEFINE run == [n \in DOMAIN q |-> Ran(q[n], ok[n], TRUE)]
<1>2. run \in Seq(Records) /\ \A x \in ToSet(run) : x \in Records /\ x.tx = TRUE
  <2>1. q \in Seq(Commands)
    BY DEF Inv, TypeOK
  <2>2. Len(q) \in Nat /\ DOMAIN q = 1..Len(q) /\ \A n \in 1..Len(q) : q[n] \in Commands
    BY <2>1, LenProperties, ElementOfSeq
  <2>3. \A n \in 1..Len(q) : run[n] \in Records /\ run[n].tx = TRUE
    BY <2>2 DEF Ran, Records
  <2>4. DOMAIN run = 1..Len(q)
    BY <2>2
  <2>5. run \in Seq(Records)
    <3> HIDE DEF run
    <3>1. run = [n \in 1..Len(q) |-> run[n]]
      BY <2>4 DEF run
    <3> QED
      BY <2>2, <2>3, <3>1, IsASeq
  <2> HIDE DEF run
  <2> QED
    BY <2>3, <2>4, <2>5 DEF ToSet
<1>3. executed' = executed \o Only(run, succeeded) /\ stream' = stream \o Only(run, propagated)
  BY <1>1
<1> HIDE DEF q, run, succeeded, propagated
<1>4. /\ Only(run, succeeded) \in Seq(Records) /\ Only(run, propagated) \in Seq(Records)
      /\ executed \in Seq(Records) /\ stream \in Seq(Records)
  BY <1>2, OnlyMembers DEF HistoryInv
<1>5. Only(executed', KnownToExec) =
        Only(executed, KnownToExec) \o Only(run, succeeded \cap KnownToExec)
  <2>1. Only(executed \o Only(run, succeeded), KnownToExec) =
          Only(executed, KnownToExec) \o Only(Only(run, succeeded), KnownToExec)
    BY SMTT(30), <1>4, OnlyOfConcat
  <2>2. Only(Only(run, succeeded), KnownToExec) = Only(run, succeeded \cap KnownToExec)
    BY <1>2, OnlyTwice
  <2> QED
    BY <1>3, <2>1, <2>2
<1>6. Only(stream', Expected) = Only(stream, Expected) \o Only(run, propagated \cap Expected)
  <2>1. Only(stream \o Only(run, propagated), Expected) =
          Only(stream, Expected) \o Only(Only(run, propagated), Expected)
    BY SMTT(30), <1>4, OnlyOfConcat
  <2>2. Only(Only(run, propagated), Expected) = Only(run, propagated \cap Expected)
    BY <1>2, OnlyTwice
  <2> QED
    BY <1>3, <2>1, <2>2
<1>7. Only(run, succeeded \cap KnownToExec) = Only(run, propagated \cap Expected)
  <2>1. \A x \in ToSet(run) : x \in succeeded \cap KnownToExec <=> x \in propagated \cap Expected
    BY <1>2 DEF succeeded, propagated, KnownToExec, Expected, Writes, PropagatedByExec
  <2>2. ToSet(run) \cap (succeeded \cap KnownToExec) = ToSet(run) \cap (propagated \cap Expected)
    BY <2>1
  <2> QED
    BY <1>2, <2>2, OnlySame
<1>8. executed' \in Seq(Records) /\ stream' \in Seq(Records)
  BY <1>3, <1>4, ConcatProperties
<1>9. Only(stream, Expected) = Only(executed, KnownToExec)
  BY DEF HistoryInv
<1>10. Only(stream', Expected) = Only(executed', KnownToExec)
  BY <1>5, <1>6, <1>7, <1>9
<1> QED
  BY <1>8, <1>10 DEF HistoryInv, Expected, KnownToExec

LEMMA NextHistory == Inv /\ HistoryInv /\ [Next]_vars => HistoryInv'
<1> SUFFICES ASSUME Inv, HistoryInv, [Next]_vars
             PROVE  HistoryInv'
  OBVIOUS
<1>1. ASSUME UNCHANGED <<executed, stream>>
      PROVE  HistoryInv'
  BY <1>1 DEF HistoryInv, Expected, KnownToExec
<1>2. ASSUME NEW c \in Conns,
             \/ Multi(c) \/ Discard(c) \/ ExecAbort(c) \/ Disconnect(c)
             \/ \E cmd \in Commands : Queue(c, cmd)
             \/ \E chs \in SUBSET Channels \ {{}} : Subscribe(c, chs) \/ Unsubscribe(c, chs)
      PROVE  HistoryInv'
  BY <1>1, <1>2 DEF Multi, Discard, ExecAbort, Disconnect, Queue, Subscribe, Unsubscribe
<1>3. CASE UNCHANGED vars
  BY <1>1, <1>3 DEF vars
<1> QED
  BY <1>2, <1>3, DirectKeepsHistory, ExecKeepsHistory DEF Next

\* The replicas are sent the writes that had an effect, once and in the
\* order of their execution, whether EXEC ran them or the dispatcher itself;
\* but for the LPOPs of EXEC, and for the writes that failed in it.
THEOREM StreamIsOfSuccesses == Spec => []SuccessesAreStreamed
<1>1. Init => HistoryInv
  BY EmptySeq, OnlyEmpty DEF Init, HistoryInv
<1>2. HistoryInv => SuccessesAreStreamed
  BY DEF HistoryInv, SuccessesAreStreamed, Expected, KnownToExec
<1> QED
  BY <1>1, <1>2, NextHistory, Invariance, PTL DEF Spec
=============================================================================
