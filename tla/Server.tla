------------------------------- MODULE Server -------------------------------
(***************************************************************************)
(* rmdb.cpp: the thread that accepts connections, one thread per client,   *)
(* and how each finds, keeps and ends the transaction its statements run   *)
(* under.  What begin, commit and abort do to the data is the subject of   *)
(* TransactionManager, what a statement does that of QueryEngine; here a   *)
(* statement ends well, ends in one of the exceptions the handler tells    *)
(* apart, or takes the process with it.                                    *)
(***************************************************************************)
EXTENDS Integers

CONSTANTS Clients,     \* every client connects once
          MaxRequests, \* bound: how many requests each sends
          NoClient

ASSUME EveryClientIsBounded == MaxRequests \in [Clients -> Nat]
ASSUME NoClientIsNone == NoClient \notin Clients

(* The ids of transactions come from one counter; all that matters is that *)
(* they differ: the n-th one begun by a session is <<session, n>>.  No     *)
(* statement begins more than two.                                         *)
TxnIds == UNION {{c} \X (1 .. 2 * MaxRequests[c]) : c \in Clients}

VARIABLES
    server,      \* "up", "down"
    listener,    \* start_server: "lock", "accept" or "create"
    sockfd_mutex,\* is it locked
    sockfd,      \* the variable whose address the threads are given
    waiting,     \* clients that connect
    pc, fd,      \* of the thread created for a client
    req,         \* its request, and whether and how it was answered
    txn_id,      \* client_handler: the transaction of the session
    txn,         \* context->txn_
    next_txn_id, \* how many transactions a session has begun
    txn_map,     \* the transactions that run
    mode,        \* Transaction::txn_mode_: was it begun by BEGIN
    outcome,     \* "running", or how it ended
    work,        \* the statements whose writes it holds
    (* history *)
    sent,        \* number of requests of a client
    block,       \* what a client knows: is it between BEGIN and the end of the
                 \* transaction, what was done, what failed, was there an abort
    accept_failed

listening == <<listener, sockfd_mutex, sockfd, waiting, accept_failed>>
txns      == <<next_txn_id, txn_map, mode, outcome, work>>
vars      == <<server, listening, pc, fd, req, txn_id, txn, txns, sent, block>>

INVALID_TXN_ID == <<NoClient, 0>>
nullptr        == INVALID_TXN_ID

Control == {"begin", "commit", "rollback", "abort"}

(* Statements that write, and the others, among them what the parser does  *)
(* not accept.                                                             *)
Kinds == Control \union {"write", "other"}

(* A control statement is recognised unless it is written "begin ;".       *)
Requests == {r \in [kind : Kinds, plain : BOOLEAN, answer : {"none"}] :
                r.plain => r.kind \in Control}

Answers == {"none", "ok", "abort", "failure"}

NoRequest == [kind |-> "other", plain |-> FALSE, answer |-> "none"]

Outside == [open |-> FALSE, done |-> {}, failed |-> {}]

Begun == {t \in TxnIds : t[2] <= next_txn_id[t[1]]}

NewId(c) == <<c, next_txn_id[c] + 1>>

TypeOK ==
    /\ server \in {"up", "down"} /\ listener \in {"lock", "accept", "create"}
    /\ sockfd \in Clients \union {NoClient} /\ waiting \subseteq Clients
    /\ pc \in [Clients -> {"none", "start", "read", "run", "reply", "finish", "closed"}]
    /\ fd \in [Clients -> Clients \union {NoClient}]
    /\ \A c \in Clients : req[c].kind \in Kinds /\ req[c].answer \in Answers
    /\ \A c \in Clients : {txn_id[c], txn[c]} \subseteq Begun \union {INVALID_TXN_ID}
    /\ Begun \subseteq TxnIds
    /\ txn_map = {t \in Begun : outcome[t] = "running"}

Init ==
    /\ server = "up" /\ listener = "lock" /\ sockfd_mutex = FALSE /\ sockfd = NoClient
    /\ waiting = {} /\ accept_failed = FALSE
    /\ pc = [c \in Clients |-> "none"] /\ fd = [c \in Clients |-> NoClient]
    /\ req = [c \in Clients |-> NoRequest]
    /\ txn_id = [c \in Clients |-> INVALID_TXN_ID] /\ txn = [c \in Clients |-> nullptr]
    /\ next_txn_id = [c \in Clients |-> 0] /\ txn_map = {}
    /\ mode = [t \in TxnIds |-> FALSE]
    /\ outcome = [t \in TxnIds |-> "running"]
    /\ work = [t \in TxnIds |-> {}]
    /\ sent = [c \in Clients |-> 0] /\ block = [c \in Clients |-> Outside]

-----------------------------------------------------------------------------
(* start_server *)

Connect(c) ==
    /\ pc[c] = "none" /\ c \notin waiting /\ sockfd # c
    /\ waiting' = waiting \union {c}
    /\ UNCHANGED <<server, listener, sockfd_mutex, sockfd, accept_failed, pc, fd, req,
                   txn_id, txn, txns, sent, block>>

Lock ==
    /\ listener = "lock" /\ ~ sockfd_mutex
    /\ sockfd_mutex' = TRUE
    /\ listener' = "accept"
    /\ UNCHANGED <<server, sockfd, waiting, accept_failed, pc, fd, req, txn_id, txn, txns,
                   sent, block>>

Accept ==
    /\ listener = "accept"
    /\ \E c \in waiting : sockfd' = c /\ waiting' = waiting \ {c}
    /\ listener' = "create"
    /\ UNCHANGED <<server, sockfd_mutex, accept_failed, pc, fd, req, txn_id, txn, txns,
                   sent, block>>

(* An error of accept: the loop goes on, with the mutex locked *)
AcceptError ==
    /\ listener = "accept"
    /\ listener' = "lock"
    /\ accept_failed' = TRUE
    /\ UNCHANGED <<server, sockfd_mutex, sockfd, waiting, pc, fd, req, txn_id, txn, txns,
                   sent, block>>

CreateThread ==
    /\ listener = "create"
    /\ pc' = [pc EXCEPT ![sockfd] = "start"]
    /\ listener' = "lock"
    /\ UNCHANGED <<server, sockfd_mutex, sockfd, waiting, accept_failed, fd, req, txn_id,
                   txn, txns, sent, block>>

(* The process ends, and all that it held *)
Down ==
    /\ server' = "down"
    /\ listener' = "lock" /\ sockfd_mutex' = FALSE /\ sockfd' = NoClient
    /\ waiting' = {} /\ accept_failed' = FALSE
    /\ pc' = [c \in Clients |-> "closed"] /\ fd' = [c \in Clients |-> NoClient]
    /\ req' = [c \in Clients |-> NoRequest]
    /\ txn_id' = [c \in Clients |-> INVALID_TXN_ID] /\ txn' = [c \in Clients |-> nullptr]
    /\ next_txn_id' = [c \in Clients |-> 0] /\ txn_map' = {}
    /\ mode' = [t \in TxnIds |-> FALSE]
    /\ outcome' = [t \in TxnIds |-> "running"] /\ work' = [t \in TxnIds |-> {}]
    /\ sent' = [c \in Clients |-> 0] /\ block' = [c \in Clients |-> Outside]

(* Ctrl-C, or no thread can be created: the loop is left, close_db, exit;  *)
(* or a client sends "crash".                                              *)
Shutdown == Down

-----------------------------------------------------------------------------
(* client_handler *)

start(c) ==
    /\ pc[c] = "start"
    /\ fd' = [fd EXCEPT ![c] = sockfd]
    /\ sockfd_mutex' = FALSE
    /\ pc' = [pc EXCEPT ![c] = "read"]
    /\ UNCHANGED <<server, listener, sockfd, waiting, accept_failed, req, txn_id, txn, txns,
                   sent, block>>

(* The client is gone or says "exit": the transaction is left as it is *)
Disconnect(c) ==
    /\ pc[c] = "read"
    /\ pc' = [pc EXCEPT ![c] = "closed"]
    /\ UNCHANGED <<server, listening, fd, req, txn_id, txn, txns, sent, block>>

is_transaction_control_statement(r) == r.kind \in Control /\ r.plain

get_transaction(id) == IF id \in txn_map THEN id ELSE nullptr

(* TransactionManager::begin, for the session c *)
begin(c, explicit) ==
    /\ next_txn_id' = [next_txn_id EXCEPT ![c] = @ + 1]
    /\ txn' = [txn EXCEPT ![c] = NewId(c)]
    /\ txn_id' = [txn_id EXCEPT ![c] = NewId(c)]
    /\ mode' = [mode EXCEPT ![NewId(c)] = explicit]
    /\ UNCHANGED work

(* TransactionManager::commit and abort *)
Ended(t, how) ==
    /\ txn_map' = txn_map \ {t}
    /\ outcome' = [outcome EXCEPT ![t] = how]

(* The transaction of the session if it still runs, a new one otherwise *)
SetTransaction(c) ==
    IF get_transaction(txn_id[c]) # nullptr
      THEN /\ txn' = [txn EXCEPT ![c] = get_transaction(txn_id[c])]
           /\ UNCHANGED <<txn_id, txns>>
      ELSE /\ begin(c, FALSE)
           /\ txn_map' = txn_map \union {NewId(c)}
           /\ UNCHANGED outcome

(* A request arrives and gets its context *)
Receive(c, r) ==
    /\ pc[c] = "read" /\ sent[c] < MaxRequests[c]
    /\ sent' = [sent EXCEPT ![c] = @ + 1]
    /\ req' = [req EXCEPT ![c] = r]
    /\ IF is_transaction_control_statement(r)
         THEN /\ txn' = [txn EXCEPT ![c] = get_transaction(txn_id[c])]
              /\ UNCHANGED <<txn_id, txns>>
         ELSE SetTransaction(c)
    /\ pc' = [pc EXCEPT ![c] = "run"]
    /\ UNCHANGED <<server, listening, fd, block>>

Answer(c, a) ==
    /\ req' = [req EXCEPT ![c].answer = a]
    /\ pc' = [pc EXCEPT ![c] = "reply"]

Runs(c, kinds) == pc[c] = "run" /\ req[c].kind \in kinds

Running(c, kinds) ==
    /\ Runs(c, kinds)
    /\ UNCHANGED <<server, listening, fd, sent, block>>

(* Mutant: the transaction in progress is left where it is *)
TxnBegin_Leaves(c) ==
    /\ Running(c, {"begin"})
    /\ begin(c, TRUE)
    /\ txn_map' = txn_map \union {NewId(c)}
    /\ Answer(c, "ok")
    /\ UNCHANGED outcome

(* BEGIN commits the transaction another BEGIN has begun; the implicit one *)
(* of a BEGIN that was not recognised is left in txn_map.                  *)
TxnBegin(c) ==
    /\ Running(c, {"begin"})
    /\ begin(c, TRUE)
    /\ IF txn[c] # nullptr /\ mode[txn[c]]
         THEN /\ txn_map' = (txn_map \ {txn[c]}) \union {NewId(c)}
              /\ outcome' = [outcome EXCEPT ![txn[c]] = "committed"]
         ELSE /\ txn_map' = txn_map \union {NewId(c)}
              /\ UNCHANGED outcome
    /\ Answer(c, "ok")

(* Mutant: without a transaction there is no answer *)
TxnEnd_Needs(c, kind, how) ==
    /\ Running(c, {kind})
    /\ txn[c] # nullptr
    /\ Ended(txn[c], how)
    /\ txn' = [txn EXCEPT ![c] = nullptr]
    /\ txn_id' = [txn_id EXCEPT ![c] = INVALID_TXN_ID]
    /\ Answer(c, "ok")
    /\ UNCHANGED <<next_txn_id, mode, work>>

(* COMMIT and ROLLBACK *)
TxnEnd(c, kind, how) ==
    /\ Running(c, {kind})
    /\ IF txn_id[c] # INVALID_TXN_ID /\ txn[c] # nullptr
         THEN /\ Ended(txn[c], how)
              /\ txn' = [txn EXCEPT ![c] = nullptr]
              /\ txn_id' = [txn_id EXCEPT ![c] = INVALID_TXN_ID]
         ELSE UNCHANGED <<txn_map, outcome, txn, txn_id>>
    /\ Answer(c, "ok")
    /\ UNCHANGED <<next_txn_id, mode, work>>

TxnCommit(c)   == TxnEnd(c, "commit", "committed")
TxnRollback(c) == TxnEnd(c, "rollback", "aborted")

(* ABORT: the pointer stays in the context *)
TxnAbort(c) ==
    /\ Running(c, {"abort"})
    /\ get_transaction(txn_id[c]) # nullptr
    /\ Ended(txn_id[c], "aborted")
    /\ txn' = [txn EXCEPT ![c] = txn_id[c]]
    /\ txn_id' = [txn_id EXCEPT ![c] = INVALID_TXN_ID]
    /\ Answer(c, "ok")
    /\ UNCHANGED <<next_txn_id, mode, work>>

(* A statement that writes, ends well *)
Write(c) ==
    /\ Running(c, {"write"})
    /\ work' = [work EXCEPT ![txn[c]] = @ \union {<<c, sent[c]>>}]
    /\ Answer(c, "ok")
    /\ UNCHANGED <<txn_id, txn, next_txn_id, txn_map, mode, outcome>>

(* What a statement that fails may have written before *)
Partly(c) ==
    \/ UNCHANGED work
    \/ /\ req[c].kind = "write"
       /\ work' = [work EXCEPT ![txn[c]] = @ \union {<<c, sent[c]>>}]

(* Mutant: the handler does not forget the transaction it has rolled back *)
AbortException_Keeps(c) ==
    /\ Running(c, {"write"})
    /\ Ended(txn[c], "aborted")
    /\ UNCHANGED txn
    /\ txn_id' = [txn_id EXCEPT ![c] = INVALID_TXN_ID]
    /\ Partly(c)
    /\ Answer(c, "abort")
    /\ UNCHANGED <<next_txn_id, mode>>

(* TransactionAbortException: a lock is taken, or the record has a newer   *)
(* version.                                                                *)
AbortException(c) ==
    /\ Running(c, {"write"})
    /\ Ended(txn[c], "aborted")
    /\ txn' = [txn EXCEPT ![c] = nullptr]
    /\ txn_id' = [txn_id EXCEPT ![c] = INVALID_TXN_ID]
    /\ Partly(c)
    /\ Answer(c, "abort")
    /\ UNCHANGED <<next_txn_id, mode>>

(* UniqueCheckError, NonUniqueIndexError, RMDBError: what the statement    *)
(* has written before stays in the transaction.                            *)
StatementFails(c) ==
    /\ Running(c, {"write", "other"})
    /\ Partly(c)
    /\ Answer(c, "failure")
    /\ UNCHANGED <<txn_id, txn, next_txn_id, txn_map, mode, outcome>>

OtherStatement(c) ==
    /\ Running(c, {"other"})
    /\ Answer(c, "ok")
    /\ UNCHANGED <<txn_id, txn, txns>>

(* Nothing else is caught; QlManager has no planner, whose options SET     *)
(* would change; and ABORT without a transaction follows a null pointer.   *)
Uncaught(c) ==
    /\ \/ Runs(c, {"write", "other"})
       \/ Runs(c, {"abort"}) /\ get_transaction(txn_id[c]) = nullptr
    /\ Down

(* What a client makes of an answer *)
Known(c) ==
    LET b == block[c]
    IN  CASE req[c].kind = "begin" -> [open |-> TRUE, done |-> {}, failed |-> {}]
          [] req[c].kind \in Control \ {"begin"} \/ req[c].answer = "abort" -> Outside
          [] b.open /\ req[c].kind = "write" /\ req[c].answer = "ok" ->
                [b EXCEPT !.done = @ \union {<<c, sent[c]>>}]
          [] b.open /\ req[c].kind = "write" /\ req[c].answer = "failure" ->
                [b EXCEPT !.failed = @ \union {<<c, sent[c]>>}]
          [] OTHER -> b

Reply(c) ==
    /\ pc[c] = "reply"
    /\ block' = [block EXCEPT ![c] = Known(c)]
    /\ pc' = [pc EXCEPT ![c] = "finish"]
    /\ UNCHANGED <<server, listening, fd, req, txn_id, txn, txns, sent>>

(* Of the transactions of this session, an ended one is now out of reach:  *)
(* the model forgets what it held.                                         *)
Gone(c, t) == t[1] = c /\ t \notin txn_map'

ContextDeleted(c) ==
    /\ txn' = [txn EXCEPT ![c] = nullptr]
    /\ req' = [req EXCEPT ![c] = NoRequest]
    /\ mode' = [t \in TxnIds |-> mode[t] /\ ~ Gone(c, t)]
    /\ work' = [t \in TxnIds |-> IF Gone(c, t) THEN {} ELSE work[t]]
    /\ UNCHANGED next_txn_id

(* The client is gone: the handler ends, an implicit transaction does not *)
WriteError(c) ==
    /\ pc[c] = "reply"
    /\ pc' = [pc EXCEPT ![c] = "closed"]
    /\ UNCHANGED <<txn_map, outcome, txn_id>>
    /\ ContextDeleted(c)
    /\ UNCHANGED <<server, listening, fd, sent, block>>

(* After the answer: an implicit transaction is committed *)
Finish(c) ==
    /\ pc[c] = "finish"
    /\ IF txn[c] # nullptr /\ ~ mode[txn[c]]
         THEN /\ Ended(txn[c], "committed")
              /\ txn_id' = [txn_id EXCEPT ![c] = INVALID_TXN_ID]
         ELSE UNCHANGED <<txn_map, outcome, txn_id>>
    /\ pc' = [pc EXCEPT ![c] = "read"]
    /\ ContextDeleted(c)
    /\ UNCHANGED <<server, listening, fd, sent, block>>

-----------------------------------------------------------------------------
Statement(c) ==
    \/ TxnBegin(c) \/ TxnCommit(c) \/ TxnRollback(c) \/ TxnAbort(c)
    \/ Write(c) \/ AbortException(c) \/ StatementFails(c) \/ OtherStatement(c) \/ Uncaught(c)

(* What a thread does without waiting for its client *)
Handle(c) == start(c) \/ Statement(c) \/ Reply(c) \/ WriteError(c) \/ Finish(c)

Listen == Lock \/ Accept \/ CreateThread

Next ==
    /\ server = "up"
    /\ \/ Listen \/ AcceptError \/ Shutdown
       \/ \E c \in Clients :
            \/ Connect(c) \/ Disconnect(c) \/ Handle(c)
            \/ \E r \in Requests : Receive(c, r)

(* Every thread is scheduled: client threads wait only for their clients   *)
(* (no lock of a statement waits, see ThreadsReturn of TransactionManager) *)
(* and the listener for clients and the mutex.                             *)
Spec == Init /\ [][Next]_vars /\ WF_vars(server = "up" /\ Listen)
             /\ \A c \in Clients : WF_vars(server = "up" /\ Handle(c))

-----------------------------------------------------------------------------
(* A thread serves the client it was created for, although all are given   *)
(* the address of the same variable.                                       *)
HandlersGetTheirSocket == \A c \in Clients : fd[c] \in {NoClient, c}

(* Between two requests a session has a transaction exactly if its client  *)
(* has begun one that was neither ended nor reported aborted, and that     *)
(* transaction holds the writes of the statements since that were answered *)
(* well, and of no others but failed ones of this client: a block is one   *)
(* transaction.                                                            *)
BlockIsOneTransaction ==
    \A c \in Clients : pc[c] = "read" =>
        /\ block[c].open <=> txn_id[c] # INVALID_TXN_ID
        /\ block[c].open =>
            /\ txn_id[c] \in txn_map /\ mode[txn_id[c]]
            /\ block[c].done \subseteq work[txn_id[c]]
            /\ work[txn_id[c]] \subseteq block[c].done \union block[c].failed

(* A running transaction that has written is the one some session works    *)
(* with, unless the connection of the session it belongs to broke off: the *)
(* handler loses no transaction and no two sessions share one.             *)
NoWritesAreOrphaned ==
    \A t \in txn_map : \A w \in work[t] :
        pc[w[1]] = "closed" \/ txn_id[w[1]] = t

(* Threads, sessions and transactions belong together as their clients     *)
(* expect.                                                                 *)
ServerInv ==
    TypeOK /\ HandlersGetTheirSocket /\ BlockIsOneTransaction /\ NoWritesAreOrphaned

(* A transaction that has written is ended once: what was rolled back is   *)
(* not committed afterwards, by the autocommit that follows the answer for *)
(* one.  (ABORT in a form that is not recognised rolls back the empty      *)
(* transaction it was given, which is then committed.)                     *)
EndsOnce ==
    [][\A t \in Begun :
          (server' = "up" /\ outcome[t] # "running" /\ work[t] # {}) => outcome'[t] = outcome[t]]_vars

(* Every request is answered or its connection is found broken, unless the *)
(* server goes down.                                                       *)
RequestsAreAnswered ==
    \A c \in Clients : pc[c] = "run" ~> (pc[c] \in {"read", "closed"} \/ server = "down")

(* Every client that connects gets its thread, unless accept failed once   *)
(* or the server goes down.                                                *)
ClientsAreServed ==
    \A c \in Clients : c \in waiting ~> (fd[c] = c \/ accept_failed \/ server = "down")

(* Nobody waits for ever, neither for a thread nor for an answer.          *)
EveryoneIsServed == RequestsAreAnswered /\ ClientsAreServed
=============================================================================
