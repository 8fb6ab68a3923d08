---------------------------- MODULE ServerProofs ----------------------------
(***************************************************************************)
(* Server keeps ServerInv and EndsOnce, for every set of clients and every *)
(* number of requests.  Only safety: that requests are answered and        *)
(* clients served needs fairness and is left to TLC.                       *)
(***************************************************************************)
EXTENDS Server, TLAPS

Writes == Clients \X Nat

Typed ==
    /\ server \in {"up", "down"} /\ listener \in {"lock", "accept", "create"}
    /\ sockfd_mutex \in BOOLEAN
    /\ sockfd \in Clients \union {NoClient} /\ waiting \subseteq Clients
    /\ pc \in [Clients -> {"none", "start", "read", "run", "reply", "finish", "closed"}]
    /\ fd \in [Clients -> Clients \union {NoClient}]
    /\ req \in [Clients -> [kind : Kinds, plain : BOOLEAN, answer : Answers]]
    /\ txn_id \in [Clients -> TxnIds \union {INVALID_TXN_ID}]
    /\ txn \in [Clients -> TxnIds \union {INVALID_TXN_ID}]
    /\ next_txn_id \in [Clients -> Nat] /\ sent \in [Clients -> Nat]
    /\ txn_map \subseteq TxnIds
    /\ mode \in [TxnIds -> BOOLEAN]
    /\ outcome \in [TxnIds -> {"running", "committed", "aborted"}]
    /\ work \in [TxnIds -> SUBSET Writes]
    /\ block \in [Clients -> [open : BOOLEAN, done : SUBSET Writes, failed : SUBSET Writes]]

(* The mutex is held from before accept until the new thread has read      *)
(* sockfd, so that sockfd is still its client then.                        *)
Handover ==
    /\ listener # "lock" => sockfd_mutex
    /\ listener = "create" => sockfd \in Clients /\ pc[sockfd] = "none"
    /\ sockfd \notin waiting
    /\ \A c \in waiting : pc[c] = "none"
    /\ \A c \in Clients : pc[c] = "start" => sockfd = c /\ sockfd_mutex /\ listener = "lock"
    /\ \A c \in Clients : fd[c] \in {NoClient, c}

(* The ids of a session: it works with none but its own, those it has not  *)
(* begun are fresh, and what a running one has written is not forgotten    *)
(* while the session goes on.                                              *)
OwnIds(c) ==
    /\ sent[c] <= MaxRequests[c] /\ next_txn_id[c] <= 2 * sent[c]
    /\ pc[c] = "run" => next_txn_id[c] < 2 * sent[c]
    /\ \A t \in {txn_id[c], txn[c]} \ {INVALID_TXN_ID} : t[1] = c /\ t[2] <= next_txn_id[c]
    /\ \A t \in TxnIds : t[1] = c =>
          /\ t \in txn_map <=> t[2] <= next_txn_id[c] /\ outcome[t] = "running"
          /\ t[2] > next_txn_id[c] => outcome[t] = "running" /\ work[t] = {}
          /\ \A w \in work[t] : w[1] = c
          /\ t \in txn_map /\ work[t] # {} => pc[c] = "closed" \/ txn_id[c] = t

(* t is the transaction of the block b, t was begun for one statement *)
InBlock(t, b) ==
    /\ t \in txn_map /\ mode[t]
    /\ b.done \subseteq work[t] /\ work[t] \subseteq b.done \union b.failed

Implicit(t) == t \in txn_map /\ ~mode[t]

(* What the client knows once it has the answer on its way *)
Knows(c) == IF pc[c] = "reply" THEN Known(c) ELSE block[c]

Resting(c) ==
    /\ txn[c] = nullptr
    /\ IF block[c].open THEN InBlock(txn_id[c], block[c]) ELSE txn_id[c] = INVALID_TXN_ID

Executing(c) ==
    /\ txn[c] = txn_id[c]
    /\ IF block[c].open
         THEN InBlock(txn_id[c], block[c])
         ELSE \/ txn_id[c] = INVALID_TXN_ID
              \/ Implicit(txn_id[c]) /\ work[txn_id[c]] = {}
    /\ req[c].kind \in {"write", "other"} => txn_id[c] # INVALID_TXN_ID

(* After a statement its transaction goes on, or it has ended; after ABORT *)
(* the pointer is left and what it points to has ended: Finish takes it    *)
(* for an implicit transaction, if at all, only when it has not written.   *)
Answered(c) ==
    \/ /\ txn[c] = txn_id[c]
       /\ IF Knows(c).open
            THEN InBlock(txn_id[c], Knows(c))
            ELSE txn_id[c] = INVALID_TXN_ID \/ Implicit(txn_id[c])
    \/ /\ ~Knows(c).open /\ txn_id[c] = INVALID_TXN_ID
       /\ txn[c] \in TxnIds \ txn_map
       /\ mode[txn[c]] \/ work[txn[c]] = {}

Session(c) ==
    /\ OwnIds(c)
    /\ pc[c] \in {"none", "start", "read"} => Resting(c)
    /\ pc[c] = "run" => Executing(c)
    /\ pc[c] \in {"reply", "finish"} => Answered(c)

(* The inductive invariant *)
ServerIndInv == Typed /\ Handover /\ \A c \in Clients : Session(c)

-----------------------------------------------------------------------------
(* Ids of transactions are pairs; INVALID_TXN_ID is none of them.          *)
LEMMA Ids ==
    /\ INVALID_TXN_ID \notin TxnIds
    /\ \A t \in TxnIds : t[1] \in Clients /\ t[2] \in Nat \ {0}
    /\ \A t, u \in TxnIds : t[1] = u[1] /\ t[2] = u[2] => t = u
    /\ \A c \in Clients, n \in Nat \ {0} :
          n <= 2 * MaxRequests[c] =>
             <<c, n>> \in TxnIds /\ <<c, n>>[1] = c /\ <<c, n>>[2] = n
<1>1. \A c \in Clients : 2 * MaxRequests[c] \in Nat
  BY EveryClientIsBounded
<1>2. \A t : t \in TxnIds <=> \E c \in Clients : t \in {c} \X (1 .. 2 * MaxRequests[c])
  BY DEF TxnIds
<1>3. ASSUME NEW t \in TxnIds
      PROVE  t[1] \in Clients /\ t[2] \in Nat \ {0} /\ t = <<t[1], t[2]>>
  <2>1. PICK c \in Clients : t \in {c} \X (1 .. 2 * MaxRequests[c])
    BY <1>2
  <2> QED
    BY <1>1, <2>1
<1>4. ASSUME NEW c \in Clients, NEW n \in Nat \ {0}, n <= 2 * MaxRequests[c]
      PROVE  <<c, n>> \in TxnIds
  <2>1. <<c, n>> \in {c} \X (1 .. 2 * MaxRequests[c])
    BY <1>1, <1>4
  <2> QED
    BY <1>2, <2>1
<1>5. INVALID_TXN_ID \notin TxnIds
  <2>1. INVALID_TXN_ID[1] = NoClient
    BY DEF INVALID_TXN_ID
  <2> QED
    BY <1>3, <2>1, NoClientIsNone
<1> QED
  BY <1>3, <1>4, <1>5

(* The next id of a session is a fresh one. *)
LEMMA NewIdIsFresh ==
    ASSUME Typed, NEW c \in Clients, OwnIds(c), next_txn_id[c] < 2 * MaxRequests[c]
    PROVE  /\ NewId(c) \in TxnIds \ txn_map
           /\ NewId(c)[1] = c /\ NewId(c)[2] = next_txn_id[c] + 1
           /\ outcome[NewId(c)] = "running" /\ work[NewId(c)] = {}
<1>1. next_txn_id[c] \in Nat /\ next_txn_id[c] + 1 \in Nat \ {0} /\ MaxRequests[c] \in Nat
  BY EveryClientIsBounded DEF Typed
<1>2. next_txn_id[c] + 1 <= 2 * MaxRequests[c]
  BY <1>1
<1>3. /\ NewId(c) \in TxnIds
      /\ NewId(c)[1] = c /\ NewId(c)[2] = next_txn_id[c] + 1
  BY <1>1, <1>2, Ids DEF NewId
<1>4. NewId(c)[2] > next_txn_id[c]
  BY <1>1, <1>3
<1> QED
  BY <1>1, <1>3, <1>4 DEF OwnIds

(* Nothing that belongs to the session e changes. *)
Same(e) ==
    /\ pc'[e] = pc[e] /\ req'[e] = req[e] /\ txn_id'[e] = txn_id[e] /\ txn'[e] = txn[e]
    /\ next_txn_id'[e] = next_txn_id[e] /\ sent'[e] = sent[e] /\ block'[e] = block[e]
    /\ \A t \in TxnIds : t[1] = e =>
          /\ t \in txn_map' <=> t \in txn_map
          /\ mode'[t] = mode[t] /\ outcome'[t] = outcome[t] /\ work'[t] = work[t]

(* A session that a step leaves alone stays as it should be. *)
LEMMA SessionStays ==
    ASSUME Typed, NEW e \in Clients, Session(e), Same(e)
    PROVE  Session(e)'
<1>1. OwnIds(e)'
  BY DEF Session, OwnIds, Same
<1>2. \A t \in {txn_id[e], txn[e]} : t # INVALID_TXN_ID => t \in TxnIds /\ t[1] = e
  BY DEF Session, OwnIds, Typed
<1>3. ASSUME NEW t \in {txn_id[e], txn[e]}, NEW b
      PROVE  /\ InBlock(t, b) => InBlock(t, b)'
             /\ Implicit(t) => Implicit(t)'
  BY <1>2, Ids DEF InBlock, Implicit, Same, Typed
<1>4. Knows(e)' = Knows(e)
  BY DEF Knows, Known, Same
<1>5. Resting(e) => Resting(e)'
  BY <1>3 DEF Resting, Same
<1>6. Executing(e) => Executing(e)'
  BY <1>2, <1>3 DEF Executing, Same, Implicit
<1>7. Answered(e) => Answered(e)'
  BY <1>2, <1>3, <1>4 DEF Answered, Same
<1> QED
  BY <1>1, <1>5, <1>6, <1>7 DEF Session, Same

(* A session that is past its start takes a step. *)
LEMMA SessionSteps ==
    ASSUME ServerIndInv, NEW c \in Clients, Typed',
           pc[c] \notin {"none", "start"}, pc'[c] \notin {"none", "start"},
           UNCHANGED <<listening, fd>>,
           \A e \in Clients \ {c} : Same(e),
           Session(c)'
    PROVE  ServerIndInv'
<1>1. Handover'
  BY DEF ServerIndInv, Handover, listening, Same, Typed
<1>2. \A e \in Clients : Session(e)'
  BY SessionStays DEF ServerIndInv
<1> QED
  BY <1>1, <1>2 DEF ServerIndInv

-----------------------------------------------------------------------------
(* start_server *)

(* The accept loop, up to the making of the thread *)
LEMMA ListenSteps ==
    ASSUME ServerIndInv,
           Lock \/ Accept \/ AcceptError \/ \E c \in Clients : Connect(c)
    PROVE  ServerIndInv'
<1>1. UNCHANGED <<server, pc, fd, req, txn_id, txn, txns, sent, block>>
  BY DEF Lock, Accept, AcceptError, Connect
<1>2. \A e \in Clients : Same(e)
  BY <1>1 DEF Same, txns
<1>3. Typed'
  BY <1>1 DEF ServerIndInv, Typed, txns, Lock, Accept, AcceptError, Connect
<1>4. Handover'
  BY <1>1 DEF ServerIndInv, Handover, Typed, Lock, Accept, AcceptError, Connect
<1> QED
  BY <1>2, <1>3, <1>4, SessionStays DEF ServerIndInv

(* Only the place of the thread of c changes. *)
LEMMA ThreadMoves ==
    ASSUME ServerIndInv, NEW c \in Clients, pc'[c] \in {"start", "read"},
           pc[c] \in {"none", "start"},
           pc' = [pc EXCEPT ![c] = pc'[c]],
           UNCHANGED <<req, txn_id, txn, txns, sent, block>>
    PROVE  \A e \in Clients : Session(e)'
<1>1. \A e \in Clients \ {c} : Same(e)
  BY DEF ServerIndInv, Typed, Same, txns
<1>2. OwnIds(c)'
  BY DEF ServerIndInv, Session, OwnIds, txns
<1>3. Resting(c)'
  BY DEF ServerIndInv, Session, Resting, InBlock, txns
<1> QED
  BY <1>1, <1>2, <1>3, SessionStays DEF ServerIndInv, Session

(* The new thread finds its socket in sockfd, whose mutex is taken. *)
LEMMA CreateThreadStep ==
    ASSUME ServerIndInv, CreateThread
    PROVE  ServerIndInv'
<1>1. sockfd \in Clients /\ pc[sockfd] = "none" /\ sockfd_mutex
      /\ \A c \in Clients : pc[c] # "start"
  BY DEF ServerIndInv, Handover, CreateThread
<1>2. pc'[sockfd] = "start" /\ \A c \in Clients \ {sockfd} : pc'[c] = pc[c]
  BY <1>1 DEF CreateThread, ServerIndInv, Typed
<1>3. Typed'
  BY <1>1 DEF CreateThread, ServerIndInv, Typed, txns
<1>4. Handover'
  BY <1>1, <1>2 DEF CreateThread, ServerIndInv, Handover, Typed
<1>5. \A e \in Clients : Session(e)'
  BY <1>1, <1>2, ThreadMoves DEF CreateThread
<1> QED
  BY <1>3, <1>4, <1>5 DEF ServerIndInv

(* The new thread copies its socket and gives the mutex back. *)
LEMMA StartStep ==
    ASSUME ServerIndInv, NEW c \in Clients, start(c)
    PROVE  ServerIndInv'
<1>1. pc[c] = "start" /\ sockfd = c /\ sockfd_mutex /\ listener = "lock"
  BY DEF ServerIndInv, Handover, start
<1>2. pc'[c] = "read" /\ \A e \in Clients \ {c} : pc'[e] = pc[e]
  BY DEF start, ServerIndInv, Typed
<1>3. fd'[c] = c /\ \A e \in Clients \ {c} : fd'[e] = fd[e]
  BY <1>1 DEF start, ServerIndInv, Typed
<1>4. Typed'
  BY <1>1 DEF start, ServerIndInv, Typed, txns
<1>5. Handover'
  BY <1>1, <1>2, <1>3 DEF start, ServerIndInv, Handover, Typed
<1>6. \A e \in Clients : Session(e)'
  BY <1>1, <1>2, ThreadMoves DEF start
<1> QED
  BY <1>4, <1>5, <1>6 DEF ServerIndInv

(* The process ends. *)
LEMMA DownStep ==
    ASSUME ServerIndInv, Down
    PROVE  ServerIndInv'
<1>1. Typed'
  <2>1. NoRequest \in [kind : Kinds, plain : BOOLEAN, answer : Answers]
    BY DEF NoRequest, Kinds, Answers
  <2>2. Outside \in [open : BOOLEAN, done : SUBSET Writes, failed : SUBSET Writes]
    BY DEF Outside
  <2> QED
    BY <2>1, <2>2 DEF Down, Typed, nullptr
<1>2. Handover'
  BY NoClientIsNone DEF Down, Handover
<1>3. ASSUME NEW e \in Clients PROVE Session(e)'
  <2>1. OwnIds(e)'
    BY Ids, EveryClientIsBounded DEF Down, OwnIds, nullptr
  <2> QED
    BY <2>1 DEF Down, Session
<1> QED
  BY <1>1, <1>2, <1>3 DEF ServerIndInv

(* A server that has just started has no sessions. *)
LEMMA InitServer ==
    ASSUME Init
    PROVE  ServerIndInv
<1>1. Typed
  <2>1. NoRequest \in [kind : Kinds, plain : BOOLEAN, answer : Answers]
    BY DEF NoRequest, Kinds, Answers
  <2>2. Outside \in [open : BOOLEAN, done : SUBSET Writes, failed : SUBSET Writes]
    BY DEF Outside
  <2> QED
    BY <2>1, <2>2 DEF Init, Typed, nullptr
<1>2. Handover
  BY NoClientIsNone DEF Init, Handover
<1>3. ASSUME NEW e \in Clients PROVE Session(e)
  <2>1. OwnIds(e)
    BY Ids, EveryClientIsBounded DEF Init, OwnIds, nullptr
  <2>2. Resting(e)
    BY DEF Init, Resting, Outside, nullptr
  <2> QED
    BY <2>1, <2>2 DEF Init, Session
<1> QED
  BY <1>1, <1>2, <1>3 DEF ServerIndInv

-----------------------------------------------------------------------------
(* client_handler *)

(* A client that leaves between two statements *)
LEMMA DisconnectStep ==
    ASSUME ServerIndInv, NEW c \in Clients, Disconnect(c)
    PROVE  ServerIndInv'
<1>1. /\ pc[c] = "read" /\ pc'[c] = "closed"
      /\ \A e \in Clients \ {c} : pc'[e] = pc[e]
      /\ UNCHANGED <<server, listening, fd, req, txn_id, txn, txns, sent, block>>
  BY DEF Disconnect, ServerIndInv, Typed
<1>2. Typed'
  BY DEF Disconnect, ServerIndInv, Typed, txns, listening
<1>3. \A e \in Clients \ {c} : Same(e)
  BY <1>1 DEF Same, txns
<1>4. OwnIds(c)'
  BY <1>1 DEF ServerIndInv, Session, OwnIds, txns
<1> QED
  BY <1>1, <1>2, <1>3, <1>4, SessionSteps DEF Session

(* A request finds the transaction of the block, or has one of its own     *)
(* begun for it.                                                           *)
LEMMA ReceiveStep ==
    ASSUME ServerIndInv, NEW c \in Clients, NEW r \in Requests, Receive(c, r)
    PROVE  ServerIndInv'
<1>1. /\ pc[c] = "read" /\ sent[c] < MaxRequests[c]
      /\ pc'[c] = "run" /\ sent'[c] = sent[c] + 1 /\ req'[c] = r
      /\ pc' \in [Clients -> {"none", "start", "read", "run", "reply", "finish", "closed"}]
      /\ sent' \in [Clients -> Nat]
      /\ \A e \in Clients \ {c} : pc'[e] = pc[e] /\ sent'[e] = sent[e] /\ req'[e] = req[e]
      /\ UNCHANGED <<server, listening, fd, block>>
  BY DEF Receive, ServerIndInv, Typed
<1>2. /\ r \in [kind : Kinds, plain : BOOLEAN, answer : Answers]
      /\ r.plain => r.kind \in Control
  BY DEF Requests, Answers
<1>3. req' \in [Clients -> [kind : Kinds, plain : BOOLEAN, answer : Answers]]
  BY <1>2 DEF Receive, ServerIndInv, Typed
<1>4. Typed /\ Resting(c) /\ OwnIds(c) /\ sent[c] \in Nat /\ next_txn_id[c] \in Nat
      /\ MaxRequests[c] \in Nat
  BY <1>1, EveryClientIsBounded DEF ServerIndInv, Session, Typed
<1>5. CASE is_transaction_control_statement(r) \/ get_transaction(txn_id[c]) # nullptr
  <2>1. get_transaction(txn_id[c]) = txn_id[c]
    BY <1>4 DEF get_transaction, Resting, InBlock, nullptr
  <2>2. txn' = [txn EXCEPT ![c] = txn_id[c]] /\ UNCHANGED <<txn_id, txns>>
    BY <1>5, <2>1 DEF Receive, SetTransaction
  <2>3. Typed'
    BY <1>1, <1>3, <1>4, <2>2 DEF Typed, txns, listening
  <2>4. \A e \in Clients \ {c} : Same(e)
    BY <1>1, <1>4, <2>2 DEF Same, txns, Typed
  <2>5. txn'[c] = txn_id[c]
    BY <1>4, <2>2 DEF Typed
  <2>6. OwnIds(c)'
    BY <1>1, <1>4, <2>2, <2>5 DEF OwnIds, txns
  <2>7. Executing(c)'
    <3>1. r.kind \in {"write", "other"} => txn_id[c] # INVALID_TXN_ID
      BY <1>5, <2>1 DEF is_transaction_control_statement, Control, nullptr
    <3>2. IF block[c].open THEN InBlock(txn_id[c], block[c]) ELSE txn_id[c] = INVALID_TXN_ID
      BY <1>4 DEF Resting
    <3>3. InBlock(txn_id[c], block[c]) => InBlock(txn_id[c], block[c])'
      BY <1>1, <2>2 DEF InBlock, txns
    <3> QED
      BY <1>1, <2>2, <2>5, <3>1, <3>2, <3>3 DEF Executing
  <2> QED
    BY <1>1, <2>3, <2>4, <2>6, <2>7, SessionSteps DEF Session
<1>6. CASE ~is_transaction_control_statement(r) /\ get_transaction(txn_id[c]) = nullptr
  <2> DEFINE n == NewId(c)
  <2>1. /\ n \in TxnIds \ txn_map
        /\ n[1] = c /\ n[2] = next_txn_id[c] + 1
        /\ outcome[n] = "running" /\ work[n] = {}
    BY <1>1, <1>4, NewIdIsFresh DEF OwnIds
  <2>2. ~block[c].open /\ txn_id[c] = INVALID_TXN_ID
    BY <1>4, <1>6, Ids DEF Resting, InBlock, get_transaction, nullptr, Typed
  <2>3. /\ txn' = [txn EXCEPT ![c] = n] /\ txn_id' = [txn_id EXCEPT ![c] = n]
        /\ next_txn_id' = [next_txn_id EXCEPT ![c] = @ + 1]
        /\ mode' = [mode EXCEPT ![n] = FALSE]
        /\ txn_map' = txn_map \union {n}
        /\ UNCHANGED <<work, outcome>>
    BY <1>6 DEF Receive, SetTransaction, begin
  <2> HIDE DEF n
  <2>4. /\ txn'[c] = n /\ txn_id'[c] = n /\ next_txn_id'[c] = next_txn_id[c] + 1
        /\ ~mode'[n]
        /\ \A e \in Clients \ {c} : /\ txn'[e] = txn[e] /\ txn_id'[e] = txn_id[e]
                                    /\ next_txn_id'[e] = next_txn_id[e]
        /\ \A t \in TxnIds \ {n} : mode'[t] = mode[t]
    BY <1>4, <2>1, <2>3 DEF Typed
  <2>5. Typed'
    BY <1>1, <1>3, <1>4, <2>1, <2>3 DEF Typed, listening
  <2>6. \A e \in Clients \ {c} : Same(e)
    BY <1>1, <2>1, <2>3, <2>4 DEF Same
  <2>7. OwnIds(c)'
    <3>1. \A t \in TxnIds : t[1] = c => (t[2] <= next_txn_id[c] + 1 <=> t[2] <= next_txn_id[c] \/ t = n)
      BY <1>4, <2>1, Ids
    <3>2. \A t \in TxnIds : t[2] > next_txn_id[c] + 1 => t[2] > next_txn_id[c]
      BY <1>4, Ids
    <3> QED
      BY <1>1, <1>4, <2>1, <2>2, <2>3, <2>4, <3>1, <3>2, Ids DEF OwnIds
  <2>8. Executing(c)'
    BY <1>1, <2>1, <2>2, <2>3, <2>4, Ids DEF Executing, Implicit
  <2> QED
    BY <1>1, <2>5, <2>6, <2>7, <2>8, SessionSteps DEF Session
<1> QED
  BY <1>5, <1>6

(* What every statement does, whatever else *)
LEMMA StatementEnds ==
    ASSUME ServerIndInv, NEW c \in Clients, NEW a \in Answers, NEW kinds, Running(c, kinds),
           Answer(c, a)
    PROVE  /\ Typed /\ Executing(c) /\ OwnIds(c)
           /\ pc[c] = "run" /\ pc'[c] = "reply"
           /\ req[c].kind \in kinds /\ req[c].kind \in Kinds
           /\ req'[c].kind = req[c].kind /\ req'[c].answer = a
           /\ pc' \in [Clients -> {"none", "start", "read", "run", "reply", "finish", "closed"}]
           /\ req' \in [Clients -> [kind : Kinds, plain : BOOLEAN, answer : Answers]]
           /\ \A e \in Clients \ {c} : pc'[e] = pc[e] /\ req'[e] = req[e]
           /\ UNCHANGED <<listening, fd>>
           /\ server' = server /\ sent' = sent /\ block' = block
           /\ next_txn_id[c] \in Nat /\ sent[c] \in Nat /\ next_txn_id[c] < 2 * sent[c]
           /\ sent[c] <= MaxRequests[c] /\ MaxRequests[c] \in Nat
           /\ block[c] \in [open : BOOLEAN, done : SUBSET Writes, failed : SUBSET Writes]
<1>1. Typed /\ pc[c] = "run" /\ req[c].kind \in kinds
  BY DEF ServerIndInv, Running, Runs
<1>2. Executing(c) /\ OwnIds(c)
  BY <1>1 DEF ServerIndInv, Session
<1>3. /\ pc'[c] = "reply"
      /\ pc' \in [Clients -> {"none", "start", "read", "run", "reply", "finish", "closed"}]
      /\ \A e \in Clients \ {c} : pc'[e] = pc[e]
  BY <1>1 DEF Answer, Typed
<1>4. /\ req'[c].kind = req[c].kind /\ req'[c].answer = a /\ req[c].kind \in Kinds
      /\ req' \in [Clients -> [kind : Kinds, plain : BOOLEAN, answer : Answers]]
      /\ \A e \in Clients \ {c} : req'[e] = req[e]
  BY <1>1 DEF Answer, Typed
<1>5. /\ UNCHANGED <<listening, fd>>
      /\ server' = server /\ sent' = sent /\ block' = block
  BY DEF Running
<1>6. /\ next_txn_id[c] \in Nat /\ sent[c] \in Nat /\ next_txn_id[c] < 2 * sent[c]
      /\ sent[c] <= MaxRequests[c] /\ MaxRequests[c] \in Nat
      /\ block[c] \in [open : BOOLEAN, done : SUBSET Writes, failed : SUBSET Writes]
  BY <1>1, <1>2, EveryClientIsBounded DEF OwnIds, Typed
<1> QED
  BY <1>1, <1>2, <1>3, <1>4, <1>5, <1>6

(* The statement ends the transaction of the session, if there is one, or  *)
(* nothing happens to it.  The pointer is gone, or kept after ABORT.       *)
LEMMA TransactionEnds ==
    ASSUME ServerIndInv, NEW c \in Clients, NEW a \in Answers, NEW kinds,
           NEW how \in {"committed", "aborted"}, Running(c, kinds), Answer(c, a),
           txn[c] # nullptr,
           Ended(txn[c], how),
           txn'[c] \in {nullptr, txn[c]}, txn' = [txn EXCEPT ![c] = txn'[c]],
           txn_id' = [txn_id EXCEPT ![c] = INVALID_TXN_ID],
           UNCHANGED <<next_txn_id, mode>>,
           \/ work' = work
           \/ txn'[c] = nullptr /\ work' = [work EXCEPT ![txn[c]] = @ \union {<<c, sent[c]>>}],
           ~Known(c)'.open
    PROVE  ServerIndInv'
<1> DEFINE t == txn[c]
<1>1. /\ Typed /\ Executing(c) /\ OwnIds(c)
      /\ pc[c] = "run" /\ pc'[c] = "reply"
      /\ pc' \in [Clients -> {"none", "start", "read", "run", "reply", "finish", "closed"}]
      /\ req' \in [Clients -> [kind : Kinds, plain : BOOLEAN, answer : Answers]]
      /\ \A e \in Clients \ {c} : pc'[e] = pc[e] /\ req'[e] = req[e]
      /\ UNCHANGED <<listening, fd>>
      /\ server' = server /\ sent' = sent /\ block' = block
      /\ next_txn_id[c] \in Nat /\ sent[c] \in Nat
  BY StatementEnds
<1>2. t \in txn_map /\ t \in TxnIds /\ t[1] = c /\ t = txn_id[c] /\ (mode[t] \/ work[t] = {})
  <2>1. t = txn_id[c] /\ t # INVALID_TXN_ID
    BY <1>1 DEF Executing, nullptr
  <2>2. t \in txn_map /\ (mode[t] \/ work[t] = {})
    BY <1>1, <2>1 DEF Executing, InBlock, Implicit
  <2> QED
    BY <1>1, <2>1, <2>2 DEF Typed, OwnIds
<1>3. /\ txn_map' = txn_map \ {t} /\ outcome' = [outcome EXCEPT ![t] = how]
      /\ outcome'[t] = how /\ \A u \in TxnIds \ {t} : outcome'[u] = outcome[u]
  BY <1>1, <1>2 DEF Ended, Typed
<1>4. /\ \A u \in TxnIds \ {t} : work'[u] = work[u]
      /\ work' \in [TxnIds -> SUBSET Writes]
      /\ \A w \in work'[t] : w[1] = c
      /\ txn'[c] # nullptr => work'[t] = work[t]
  <2>1. <<c, sent[c]>> \in Writes /\ <<c, sent[c]>>[1] = c
    BY <1>1 DEF Writes
  <2>2. \A w \in work[t] : w[1] = c
    BY <1>1, <1>2 DEF OwnIds
  <2>3. work \in [TxnIds -> SUBSET Writes]
    BY <1>1 DEF Typed
  <2>4. CASE work' = work
    BY <2>2, <2>3, <2>4
  <2>5. CASE txn'[c] = nullptr /\ work' = [work EXCEPT ![t] = @ \union {<<c, sent[c]>>}]
    <3>1. work'[t] = work[t] \union {<<c, sent[c]>>}
      BY <1>2, <2>3, <2>5
    <3> QED
      BY <1>2, <2>1, <2>2, <2>3, <2>5, <3>1
  <2> QED
    BY <2>4, <2>5
<1>5. txn_id'[c] = INVALID_TXN_ID /\ txn'[c] \in {nullptr, t}
      /\ \A e \in Clients \ {c} : txn_id'[e] = txn_id[e] /\ txn'[e] = txn[e]
  BY <1>1 DEF Typed
<1> HIDE DEF t
<1>6. Typed'
  <2>1. /\ txn_id' \in [Clients -> TxnIds \union {INVALID_TXN_ID}]
        /\ txn' \in [Clients -> TxnIds \union {INVALID_TXN_ID}]
    BY <1>1, <1>2, <1>5 DEF Typed, nullptr
  <2>2. txn_map' \subseteq TxnIds /\ outcome' \in [TxnIds -> {"running", "committed", "aborted"}]
    BY <1>1, <1>3 DEF Typed
  <2> QED
    BY <1>1, <1>4, <2>1, <2>2 DEF Typed, listening
<1>7. \A e \in Clients \ {c} : Same(e)
  BY <1>1, <1>2, <1>3, <1>4, <1>5 DEF Same
<1>8. OwnIds(c)'
  <2>1. \A u \in {txn_id'[c], txn'[c]} \ {INVALID_TXN_ID} : u[1] = c /\ u[2] <= next_txn_id[c]
    BY <1>1, <1>2, <1>5 DEF OwnIds, nullptr
  <2>2. ASSUME NEW u \in TxnIds, u[1] = c
        PROVE  /\ u \in txn_map' <=> u[2] <= next_txn_id[c] /\ outcome'[u] = "running"
               /\ u[2] > next_txn_id[c] => outcome'[u] = "running" /\ work'[u] = {}
               /\ \A w \in work'[u] : w[1] = c
               /\ u \in txn_map' => work'[u] = {}
    <3>1. CASE u = t
      <4>1. t[2] \in Nat /\ t[2] <= next_txn_id[c]
        BY <1>1, <1>2, Ids DEF OwnIds
      <4>2. ~(t[2] > next_txn_id[c])
        BY <1>1, <4>1
      <4> QED
        BY <1>3, <1>4, <3>1, <4>2
    <3>2. CASE u # t
      BY <1>1, <1>2, <1>3, <1>4, <2>2, <3>2 DEF OwnIds
    <3> QED
      BY <3>1, <3>2
  <2>3. sent[c] <= MaxRequests[c] /\ next_txn_id[c] <= 2 * sent[c]
    BY <1>1 DEF OwnIds
  <2>4. next_txn_id' = next_txn_id
    OBVIOUS
  <2> QED
    BY <1>1, <2>1, <2>2, <2>3, <2>4 DEF OwnIds
<1>9. Answered(c)'
  <2>1. Knows(c)' = Known(c)'
    BY <1>1 DEF Knows
  <2> QED
    BY <1>2, <1>3, <1>4, <1>5, <2>1 DEF Answered, nullptr
<1> QED
  BY <1>1, <1>6, <1>7, <1>8, <1>9, SessionSteps DEF Session

(* The statement leaves the transaction of the session running; it may     *)
(* have written.                                                           *)
LEMMA TransactionGoesOn ==
    ASSUME ServerIndInv, NEW c \in Clients, NEW a \in Answers, NEW kinds,
           Running(c, kinds), Answer(c, a),
           UNCHANGED <<txn_id, txn, next_txn_id, txn_map, mode, outcome>>,
           \/ work' = work
           \/ txn[c] # nullptr /\ work' = [work EXCEPT ![txn[c]] = @ \union {<<c, sent[c]>>}],
           Known(c)'.open <=> block[c].open,
           block[c].open => /\ Known(c)'.done \subseteq work'[txn[c]]
                            /\ work'[txn[c]] \subseteq Known(c)'.done \union Known(c)'.failed
    PROVE  ServerIndInv'
<1> DEFINE t == txn[c]
<1>1. /\ Typed /\ Executing(c) /\ OwnIds(c)
      /\ pc[c] = "run" /\ pc'[c] = "reply"
      /\ pc' \in [Clients -> {"none", "start", "read", "run", "reply", "finish", "closed"}]
      /\ req' \in [Clients -> [kind : Kinds, plain : BOOLEAN, answer : Answers]]
      /\ \A e \in Clients \ {c} : pc'[e] = pc[e] /\ req'[e] = req[e]
      /\ UNCHANGED <<listening, fd>>
      /\ server' = server /\ sent' = sent /\ block' = block
      /\ next_txn_id[c] \in Nat /\ sent[c] \in Nat
  BY StatementEnds
<1>2. t = txn_id[c] /\ (t # INVALID_TXN_ID => t \in txn_map /\ t \in TxnIds /\ t[1] = c)
  <2>1. t = txn_id[c]
    BY <1>1 DEF Executing
  <2>2. t # INVALID_TXN_ID => t \in txn_map
    BY <1>1, <2>1 DEF Executing, InBlock, Implicit
  <2> QED
    BY <1>1, <2>1, <2>2 DEF Typed, OwnIds
<1>3. /\ work' \in [TxnIds -> SUBSET Writes]
      /\ \A u \in TxnIds : u # t => work'[u] = work[u]
      /\ t # INVALID_TXN_ID => \A w \in work'[t] : w[1] = c
  <2>1. <<c, sent[c]>> \in Writes /\ <<c, sent[c]>>[1] = c
    BY <1>1 DEF Writes
  <2>2. t # INVALID_TXN_ID => \A w \in work[t] : w[1] = c
    BY <1>1, <1>2 DEF OwnIds
  <2>3. work \in [TxnIds -> SUBSET Writes]
    BY <1>1 DEF Typed
  <2>4. CASE work' = work
    BY <2>2, <2>3, <2>4
  <2>5. CASE t # nullptr /\ work' = [work EXCEPT ![t] = @ \union {<<c, sent[c]>>}]
    <3>1. t \in TxnIds
      BY <1>2, <2>5 DEF nullptr
    <3>2. work'[t] = work[t] \union {<<c, sent[c]>>}
      BY <2>3, <2>5, <3>1
    <3> QED
      BY <2>1, <2>2, <2>3, <2>5, <3>1, <3>2
  <2> QED
    BY <2>4, <2>5
<1>4. Typed'
  BY <1>1, <1>3 DEF Typed, listening
<1>5. ASSUME NEW e \in Clients \ {c} PROVE Same(e)
  <2>1. \A u \in TxnIds : u[1] = e => u # t
    BY <1>2, Ids
  <2> QED
    BY <1>1, <1>3, <2>1 DEF Same
<1>6. OwnIds(c)'
  <2>1. ASSUME NEW u \in TxnIds, u[1] = c
        PROVE  /\ u \in txn_map <=> u[2] <= next_txn_id[c] /\ outcome[u] = "running"
               /\ u[2] > next_txn_id[c] => outcome[u] = "running" /\ work'[u] = {}
               /\ \A w \in work'[u] : w[1] = c
               /\ u \in txn_map /\ work'[u] # {} => txn_id[c] = u
    <3>1. CASE u = t
      <4>1. t \in TxnIds /\ t \in txn_map
        BY <1>2, <3>1, Ids
      <4>2. t[2] \in Nat /\ t[2] <= next_txn_id[c] /\ outcome[t] = "running"
        BY <1>1, <2>1, <3>1, <4>1, Ids DEF OwnIds
      <4>3. ~(t[2] > next_txn_id[c])
        BY <1>1, <4>2
      <4> QED
        BY <1>2, <1>3, <3>1, <4>1, <4>2, <4>3, Ids
    <3>2. CASE u # t
      BY <1>1, <1>3, <2>1, <3>2 DEF OwnIds
    <3> QED
      BY <3>1, <3>2
  <2> QED
    BY <1>1, <2>1 DEF OwnIds
<1>7. Answered(c)'
  <2>1. Knows(c)' = Known(c)'
    BY <1>1 DEF Knows
  <2>2. CASE block[c].open
    BY <1>1, <1>2, <2>1, <2>2 DEF Executing, Answered, InBlock
  <2>3. CASE ~block[c].open
    BY <1>1, <1>2, <2>1, <2>3 DEF Executing, Answered, Implicit
  <2> QED
    BY <2>2, <2>3
<1> QED
  BY <1>1, <1>4, <1>5, <1>6, <1>7, SessionSteps DEF Session

(* COMMIT and ROLLBACK end the session's transaction, if it has one. *)
LEMMA TxnEndStep ==
    ASSUME ServerIndInv, NEW c \in Clients, NEW kind \in {"commit", "rollback"},
           NEW how \in {"committed", "aborted"}, TxnEnd(c, kind, how)
    PROVE  ServerIndInv'
<1>1. /\ Running(c, {kind}) /\ Answer(c, "ok") /\ "ok" \in Answers
      /\ UNCHANGED <<next_txn_id, mode, work>>
  BY DEF TxnEnd, Answers
<1>2. Executing(c) /\ Typed /\ req'[c].kind = kind
  BY <1>1, StatementEnds
<1>3. Known(c)' = Outside /\ ~Known(c)'.open
  BY <1>2 DEF Known, Control, Outside
<1>4. CASE txn[c] # nullptr
  <2>1. /\ Ended(txn[c], how)
        /\ txn' = [txn EXCEPT ![c] = nullptr]
        /\ txn_id' = [txn_id EXCEPT ![c] = INVALID_TXN_ID]
    BY <1>2, <1>4 DEF TxnEnd, Executing, nullptr
  <2>2. txn'[c] = nullptr
    BY <1>2, <2>1 DEF Typed
  <2> QED
    BY <1>1, <1>3, <1>4, <2>1, <2>2, TransactionEnds
<1>5. CASE txn[c] = nullptr
  <2>1. UNCHANGED <<txn_id, txn, txn_map, outcome>>
    BY <1>5 DEF TxnEnd
  <2>2. ~block[c].open
    BY <1>2, <1>5, Ids DEF Executing, InBlock, Typed, nullptr
  <2> QED
    BY <1>1, <1>3, <2>1, <2>2, TransactionGoesOn
<1> QED
  BY <1>4, <1>5

(* ABORT ends it, too. *)
LEMMA TxnAbortStep ==
    ASSUME ServerIndInv, NEW c \in Clients, TxnAbort(c)
    PROVE  ServerIndInv'
<1>1. /\ Running(c, {"abort"}) /\ Answer(c, "ok") /\ "ok" \in Answers
      /\ "aborted" \in {"committed", "aborted"}
      /\ UNCHANGED <<next_txn_id, mode>> /\ work' = work
  BY DEF TxnAbort, Answers
<1>2. Executing(c) /\ Typed /\ req'[c].kind = "abort"
  BY <1>1, StatementEnds
<1>3. ~Known(c)'.open
  BY <1>2 DEF Known, Control, Outside
<1>4. txn[c] = txn_id[c] /\ txn[c] # nullptr
  BY <1>2 DEF TxnAbort, get_transaction, Executing, nullptr
<1>5. /\ Ended(txn[c], "aborted")
      /\ txn' = [txn EXCEPT ![c] = txn[c]] /\ txn'[c] = txn[c]
      /\ txn_id' = [txn_id EXCEPT ![c] = INVALID_TXN_ID]
  BY <1>2, <1>4 DEF TxnAbort, Typed
<1> QED
  BY <1>1, <1>3, <1>4, <1>5, TransactionEnds

(* A refused lock or a write conflict aborts the transaction. *)
LEMMA AbortExceptionStep ==
    ASSUME ServerIndInv, NEW c \in Clients, AbortException(c)
    PROVE  ServerIndInv'
<1>1. /\ Running(c, {"write"}) /\ Answer(c, "abort") /\ "abort" \in Answers
      /\ "aborted" \in {"committed", "aborted"}
      /\ UNCHANGED <<next_txn_id, mode>>
  BY DEF AbortException, Answers
<1>2. Executing(c) /\ Typed /\ req'[c].kind = "write" /\ req'[c].answer = "abort"
      /\ req[c].kind = "write"
  BY <1>1, StatementEnds
<1>3. ~Known(c)'.open
  BY <1>2 DEF Known, Control, Outside
<1>4. txn[c] # nullptr
  BY <1>2 DEF Executing, nullptr
<1>5. /\ Ended(txn[c], "aborted")
      /\ txn' = [txn EXCEPT ![c] = nullptr] /\ txn'[c] = nullptr
      /\ txn_id' = [txn_id EXCEPT ![c] = INVALID_TXN_ID]
      /\ work' = work \/ work' = [work EXCEPT ![txn[c]] = @ \union {<<c, sent[c]>>}]
  BY <1>2 DEF AbortException, Typed, Partly
<1> QED
  BY <1>1, <1>3, <1>4, <1>5, TransactionEnds

(* A statement that ends well, or in an error that keeps the transaction *)
LEMMA StatementStep ==
    ASSUME ServerIndInv, NEW c \in Clients,
           Write(c) \/ StatementFails(c) \/ OtherStatement(c)
    PROVE  ServerIndInv'
<1> DEFINE w == <<c, sent[c]>>
           kinds == {"write", "other"}
<1>1. PICK x \in {"ok", "failure"} : Answer(c, x)
  BY DEF Write, StatementFails, OtherStatement
<1>2. Running(c, kinds)
  BY DEF Write, StatementFails, OtherStatement, Running, Runs
<1>3. /\ Typed /\ Executing(c) /\ req[c].kind \in kinds
      /\ req'[c].kind = req[c].kind /\ req'[c].answer = x
      /\ sent' = sent /\ block' = block
      /\ block[c] \in [open : BOOLEAN, done : SUBSET Writes, failed : SUBSET Writes]
  BY <1>1, <1>2, StatementEnds DEF Answers
<1>4. txn[c] # nullptr /\ txn[c] \in TxnIds /\ (block[c].open => InBlock(txn[c], block[c]))
  BY <1>3 DEF Executing, nullptr, Typed
<1>5. UNCHANGED <<txn_id, txn, next_txn_id, txn_map, mode, outcome>>
  BY DEF Write, StatementFails, OtherStatement, txns
<1>6. CASE req[c].kind = "write"
  <2>1. \/ work' = [work EXCEPT ![txn[c]] = @ \union {w}]
        \/ work' = work /\ x = "failure"
    <3>1. ~OtherStatement(c)
      BY <1>6 DEF OtherStatement, Running, Runs
    <3>2. Write(c) => work' = [work EXCEPT ![txn[c]] = @ \union {w}]
      BY DEF Write
    <3>3. StatementFails(c) => x = "failure"
      BY <1>3 DEF StatementFails, Answer, Typed
    <3> QED
      BY <3>1, <3>2, <3>3 DEF StatementFails, Partly
  <2>2. \/ work'[txn[c]] = work[txn[c]] \union {w}
        \/ work'[txn[c]] = work[txn[c]] /\ x = "failure"
    <3>1. work \in [TxnIds -> SUBSET Writes]
      BY <1>3 DEF Typed
    <3>2. CASE work' = [work EXCEPT ![txn[c]] = @ \union {w}]
      BY <1>4, <3>1, <3>2
    <3> QED
      BY <2>1, <3>2
  <2>3. CASE ~block[c].open
    <3>1. Known(c)' = block[c]
      BY <1>3, <1>6, <2>3 DEF Known, Control
    <3> QED
      BY <1>1, <1>2, <1>4, <1>5, <2>1, <2>3, <3>1, TransactionGoesOn DEF Answers
  <2>4. CASE block[c].open /\ x = "ok"
    <3>1. Known(c)' = [block[c] EXCEPT !.done = @ \union {w}]
      BY <1>3, <1>6, <2>4 DEF Known, Control
    <3>2. /\ Known(c)'.open /\ Known(c)'.done = block[c].done \union {w}
          /\ Known(c)'.failed = block[c].failed
      BY <1>3, <2>4, <3>1
    <3>3. block[c].done \subseteq work[txn[c]]
          /\ work[txn[c]] \subseteq block[c].done \union block[c].failed
      BY <1>4, <2>4 DEF InBlock
    <3> QED
      BY <1>1, <1>2, <1>4, <1>5, <2>1, <2>2, <2>4, <3>2, <3>3, TransactionGoesOn DEF Answers
  <2>5. CASE block[c].open /\ x = "failure"
    <3>1. Known(c)' = [block[c] EXCEPT !.failed = @ \union {w}]
      BY <1>3, <1>6, <2>5 DEF Known, Control
    <3>2. /\ Known(c)'.open /\ Known(c)'.done = block[c].done
          /\ Known(c)'.failed = block[c].failed \union {w}
      BY <1>3, <2>5, <3>1
    <3>3. block[c].done \subseteq work[txn[c]]
          /\ work[txn[c]] \subseteq block[c].done \union block[c].failed
      BY <1>4, <2>5 DEF InBlock
    <3> QED
      BY <1>1, <1>2, <1>4, <1>5, <2>1, <2>2, <2>5, <3>2, <3>3, TransactionGoesOn DEF Answers
  <2> QED
    BY <2>3, <2>4, <2>5
<1>7. CASE req[c].kind = "other"
  <2>1. work' = work
    <3>1. ~Write(c)
      BY <1>7 DEF Write, Running, Runs
    <3>2. StatementFails(c) => work' = work
      BY <1>7 DEF StatementFails, Partly
    <3>3. OtherStatement(c) => work' = work
      BY DEF OtherStatement, txns
    <3> QED
      BY <3>1, <3>2, <3>3
  <2>2. Known(c)' = block[c]
    BY <1>3, <1>7 DEF Known, Control
  <2>3. block[c].open => /\ block[c].done \subseteq work[txn[c]]
                         /\ work[txn[c]] \subseteq block[c].done \union block[c].failed
    BY <1>4 DEF InBlock
  <2> QED
    BY <1>1, <1>2, <1>5, <2>1, <2>2, <2>3, TransactionGoesOn DEF Answers
<1> QED
  BY <1>3, <1>6, <1>7

(* BEGIN: a block that is open is committed, an implicit transaction has   *)
(* written nothing.                                                        *)
LEMMA TxnBeginStep ==
    ASSUME ServerIndInv, NEW c \in Clients, TxnBegin(c)
    PROVE  ServerIndInv'
<1> DEFINE n == NewId(c)
           t == txn[c]
           ends == t # nullptr /\ mode[t]
<1>1. /\ Running(c, {"begin"}) /\ Answer(c, "ok") /\ "ok" \in Answers
  BY DEF TxnBegin, Answers
<1>2. /\ Typed /\ Executing(c) /\ OwnIds(c)
      /\ pc[c] = "run" /\ pc'[c] = "reply"
      /\ req'[c].kind = "begin" /\ req'[c].answer = "ok"
      /\ pc' \in [Clients -> {"none", "start", "read", "run", "reply", "finish", "closed"}]
      /\ req' \in [Clients -> [kind : Kinds, plain : BOOLEAN, answer : Answers]]
      /\ \A e \in Clients \ {c} : pc'[e] = pc[e] /\ req'[e] = req[e]
      /\ UNCHANGED <<listening, fd>>
      /\ server' = server /\ sent' = sent /\ block' = block
      /\ next_txn_id[c] \in Nat /\ sent[c] \in Nat /\ next_txn_id[c] < 2 * sent[c]
      /\ sent[c] <= MaxRequests[c] /\ MaxRequests[c] \in Nat
  BY <1>1, StatementEnds
<1>3. /\ n \in TxnIds \ txn_map
      /\ n[1] = c /\ n[2] = next_txn_id[c] + 1
      /\ outcome[n] = "running" /\ work[n] = {}
  BY <1>2, NewIdIsFresh
<1>4. /\ txn' = [txn EXCEPT ![c] = n] /\ txn_id' = [txn_id EXCEPT ![c] = n]
      /\ next_txn_id' = [next_txn_id EXCEPT ![c] = @ + 1]
      /\ mode' = [mode EXCEPT ![n] = TRUE]
      /\ work' = work
  BY DEF TxnBegin, begin
<1>5. /\ t = txn_id[c] /\ (t # nullptr => t \in TxnIds /\ t \in txn_map /\ t[1] = c)
      /\ ~ends => t = nullptr \/ work[t] = {}
  <2>1. t = txn_id[c]
    BY <1>2 DEF Executing
  <2>2. t # nullptr => t \in txn_map /\ (mode[t] \/ work[t] = {})
    BY <1>2, <2>1 DEF Executing, InBlock, Implicit, nullptr
  <2> QED
    BY <1>2, <2>1, <2>2 DEF Typed, OwnIds, nullptr
<1>6. \/ /\ t # nullptr
         /\ txn_map' = (txn_map \ {t}) \union {n}
         /\ outcome' = [outcome EXCEPT ![t] = "committed"]
      \/ /\ t = nullptr \/ work[t] = {}
         /\ txn_map' = txn_map \union {n}
         /\ outcome' = outcome
  BY <1>5 DEF TxnBegin
<1> HIDE DEF n, t, ends
<1>7. /\ txn'[c] = n /\ txn_id'[c] = n /\ next_txn_id'[c] = next_txn_id[c] + 1
      /\ mode'[n]
      /\ \A e \in Clients \ {c} : /\ txn'[e] = txn[e] /\ txn_id'[e] = txn_id[e]
                                  /\ next_txn_id'[e] = next_txn_id[e]
      /\ \A u \in TxnIds \ {n} : mode'[u] = mode[u]
  BY <1>2, <1>3, <1>4 DEF Typed
<1>8. /\ txn_map' \subseteq TxnIds /\ outcome' \in [TxnIds -> {"running", "committed", "aborted"}]
      /\ n \in txn_map' /\ outcome'[n] = "running"
      /\ \A u \in TxnIds \ {n, t} : (u \in txn_map' <=> u \in txn_map) /\ outcome'[u] = outcome[u]
      /\ t \in TxnIds => /\ t \in txn_map' <=> outcome'[t] = "running"
                         /\ t \in txn_map' => work[t] = {}
  <2>1. /\ outcome \in [TxnIds -> {"running", "committed", "aborted"}] /\ txn_map \subseteq TxnIds
        /\ t \in TxnIds => t \in txn_map /\ outcome[t] = "running"
        /\ t # n
    BY <1>2, <1>3, <1>5, Ids DEF Typed, OwnIds, nullptr
  <2>2. CASE /\ t # nullptr
             /\ txn_map' = (txn_map \ {t}) \union {n}
             /\ outcome' = [outcome EXCEPT ![t] = "committed"]
    BY <1>3, <1>5, <2>1, <2>2
  <2>3. CASE /\ t = nullptr \/ work[t] = {}
             /\ txn_map' = txn_map \union {n}
             /\ outcome' = outcome
    BY <1>3, <1>5, <2>1, <2>3, Ids DEF nullptr
  <2> QED
    BY <1>6, <2>2, <2>3
<1>9. Typed'
  <2>1. /\ txn_id' \in [Clients -> TxnIds \union {INVALID_TXN_ID}]
        /\ txn' \in [Clients -> TxnIds \union {INVALID_TXN_ID}]
        /\ next_txn_id' \in [Clients -> Nat] /\ mode' \in [TxnIds -> BOOLEAN]
    BY <1>2, <1>3, <1>4 DEF Typed
  <2> QED
    BY <1>2, <1>4, <1>8, <2>1 DEF Typed, listening
<1>10. ASSUME NEW e \in Clients \ {c} PROVE Same(e)
  <2>1. \A u \in TxnIds : u[1] = e => u # n /\ u # t
    BY <1>3, <1>5, Ids DEF nullptr
  <2> QED
    BY <1>2, <1>4, <1>7, <1>8, <2>1 DEF Same
<1>11. OwnIds(c)'
  <2>1. ASSUME NEW u \in TxnIds, u[1] = c
        PROVE  /\ u \in txn_map' <=> u[2] <= next_txn_id[c] + 1 /\ outcome'[u] = "running"
               /\ u[2] > next_txn_id[c] + 1 => outcome'[u] = "running" /\ work[u] = {}
               /\ \A w \in work[u] : w[1] = c
               /\ u \in txn_map' /\ work[u] # {} => u = n
    <3>1. /\ u[2] <= next_txn_id[c] + 1 <=> u[2] <= next_txn_id[c] \/ u = n
          /\ u[2] > next_txn_id[c] + 1 => u[2] > next_txn_id[c] /\ u # n
          /\ ~(u[2] > next_txn_id[c] /\ u[2] <= next_txn_id[c])
      BY <1>2, <1>3, <2>1, Ids
    <3>2. CASE u = n
      BY <1>3, <1>8, <2>1, <3>1, <3>2
    <3>3. CASE u = t /\ u # n
      <4>1. u[2] <= next_txn_id[c]
        BY <1>2, <1>5, <2>1, <3>3, Ids DEF OwnIds, nullptr
      <4> QED
        BY <1>2, <1>8, <2>1, <3>1, <3>3, <4>1 DEF OwnIds
    <3>4. CASE u # n /\ u # t
      <4>1. /\ u \in txn_map' <=> u \in txn_map
            /\ outcome'[u] = outcome[u]
        BY <1>8, <3>4
      <4> QED
        BY <1>2, <1>5, <2>1, <3>1, <3>4, <4>1 DEF OwnIds
    <3> QED
      BY <3>2, <3>3, <3>4
  <2>2. sent[c] <= MaxRequests[c] /\ next_txn_id[c] + 1 <= 2 * sent[c]
    BY <1>2
  <2>3. \A u \in {n} : u[1] = c /\ u[2] <= next_txn_id[c] + 1
    BY <1>2, <1>3
  <2> QED
    BY <1>2, <1>4, <1>7, <2>1, <2>2, <2>3 DEF OwnIds
<1>12. Answered(c)'
  <2>1. Knows(c)' = [open |-> TRUE, done |-> {}, failed |-> {}]
    BY <1>2 DEF Knows, Known, Control
  <2> QED
    BY <1>3, <1>4, <1>7, <1>8, <2>1 DEF Answered, InBlock
<1> QED
  BY <1>2, <1>9, <1>10, <1>11, <1>12, SessionSteps DEF Session

(* The answer is sent. *)
LEMMA ReplyStep ==
    ASSUME ServerIndInv, NEW c \in Clients, Reply(c)
    PROVE  ServerIndInv'
<1>1. /\ Typed /\ Answered(c) /\ OwnIds(c) /\ pc[c] = "reply" /\ pc'[c] = "finish"
      /\ block' = [block EXCEPT ![c] = Known(c)]
      /\ \A e \in Clients \ {c} : pc'[e] = pc[e]
      /\ UNCHANGED <<server, listening, fd, req, txn_id, txn, txns, sent>>
  BY DEF ServerIndInv, Session, Reply, Typed
<1>2. Known(c) \in [open : BOOLEAN, done : SUBSET Writes, failed : SUBSET Writes]
  <2> DEFINE R == [open : BOOLEAN, done : SUBSET Writes, failed : SUBSET Writes]
             b == block[c]
             w == <<c, sent[c]>>
  <2>1. b \in R /\ w \in Writes
    BY <1>1 DEF Typed, Writes
  <2>2. /\ [b EXCEPT !.done = @ \union {w}] \in R
        /\ [b EXCEPT !.failed = @ \union {w}] \in R
        /\ [open |-> TRUE, done |-> {}, failed |-> {}] \in R
        /\ Outside \in R
    BY <2>1 DEF Outside
  <2>3. \/ Known(c) = b \/ Known(c) = Outside
        \/ Known(c) = [open |-> TRUE, done |-> {}, failed |-> {}]
        \/ Known(c) = [b EXCEPT !.done = @ \union {w}]
        \/ Known(c) = [b EXCEPT !.failed = @ \union {w}]
    BY DEF Known
  <2> HIDE DEF R
  <2>4. Known(c) \in R
    BY <2>1, <2>2, <2>3
  <2> QED
    BY <2>4 DEF R
<1>3. block'[c] = Known(c) /\ \A e \in Clients \ {c} : block'[e] = block[e]
  BY <1>1 DEF Typed
<1>4. Typed'
  BY <1>1, <1>2 DEF Reply, Typed, listening, txns
<1>5. \A e \in Clients \ {c} : Same(e)
  BY <1>1, <1>3 DEF Same, txns
<1>6. OwnIds(c)'
  BY <1>1 DEF OwnIds, txns
<1>7. Answered(c)'
  <2>1. Knows(c)' = Knows(c)
    BY <1>1, <1>3 DEF Knows
  <2> QED
    BY <1>1, <2>1 DEF Answered, InBlock, Implicit, txns
<1> QED
  BY <1>1, <1>4, <1>5, <1>6, <1>7, SessionSteps DEF Session

(* The context is deleted and what the session no longer reaches is        *)
(* forgotten.                                                              *)
LEMMA ContextGoes ==
    ASSUME Typed, NEW c \in Clients, ContextDeleted(c)
    PROVE  /\ txn'[c] = nullptr /\ \A e \in Clients \ {c} : txn'[e] = txn[e] /\ req'[e] = req[e]
           /\ txn' \in [Clients -> TxnIds \union {INVALID_TXN_ID}]
           /\ req' \in [Clients -> [kind : Kinds, plain : BOOLEAN, answer : Answers]]
           /\ mode' \in [TxnIds -> BOOLEAN] /\ work' \in [TxnIds -> SUBSET Writes]
           /\ \A t \in TxnIds : (t[1] # c \/ t \in txn_map') => mode'[t] = mode[t] /\ work'[t] = work[t]
           /\ \A t \in TxnIds : work'[t] \subseteq work[t]
           /\ next_txn_id' = next_txn_id
<1>1. NoRequest \in [kind : Kinds, plain : BOOLEAN, answer : Answers]
  BY DEF NoRequest, Kinds, Answers
<1>2. /\ txn'[c] = nullptr /\ \A e \in Clients \ {c} : txn'[e] = txn[e] /\ req'[e] = req[e]
      /\ txn' \in [Clients -> TxnIds \union {INVALID_TXN_ID}]
      /\ req' \in [Clients -> [kind : Kinds, plain : BOOLEAN, answer : Answers]]
      /\ next_txn_id' = next_txn_id
  BY <1>1 DEF ContextDeleted, Typed, nullptr
<1>3. ASSUME NEW t \in TxnIds
      PROVE  /\ work'[t] \subseteq work[t] /\ work'[t] \in SUBSET Writes
             /\ (t[1] # c \/ t \in txn_map') => work'[t] = work[t]
  <2>1. work'[t] = IF Gone(c, t) THEN {} ELSE work[t]
    BY DEF ContextDeleted
  <2>2. work[t] \in SUBSET Writes
    BY DEF Typed
  <2> QED
    BY <2>1, <2>2 DEF Gone
<1>4. ASSUME NEW t \in TxnIds
      PROVE  (t[1] # c \/ t \in txn_map') => mode'[t] = mode[t]
  <2>1. mode[t] \in BOOLEAN
    BY DEF Typed
  <2>2. mode'[t] = (mode[t] /\ ~Gone(c, t))
    BY DEF ContextDeleted
  <2>3. (t[1] # c \/ t \in txn_map') => ~Gone(c, t)
    BY DEF Gone
  <2> QED
    BY <2>1, <2>2, <2>3
<1>5. mode' \in [TxnIds -> BOOLEAN] /\ work' \in [TxnIds -> SUBSET Writes]
  BY <1>3 DEF ContextDeleted
<1> QED
  BY <1>2, <1>3, <1>4, <1>5

(* A connection that breaks while the answer is written *)
LEMMA WriteErrorStep ==
    ASSUME ServerIndInv, NEW c \in Clients, WriteError(c)
    PROVE  ServerIndInv'
<1>1. /\ Typed /\ OwnIds(c) /\ pc[c] = "reply" /\ pc'[c] = "closed"
      /\ \A e \in Clients \ {c} : pc'[e] = pc[e]
      /\ pc' \in [Clients -> {"none", "start", "read", "run", "reply", "finish", "closed"}]
      /\ ContextDeleted(c)
      /\ UNCHANGED <<txn_map, outcome, txn_id>> /\ UNCHANGED <<server, listening, fd, sent, block>>
  BY DEF ServerIndInv, Session, WriteError, Typed
<1>2. /\ txn'[c] = nullptr /\ \A e \in Clients \ {c} : txn'[e] = txn[e] /\ req'[e] = req[e]
      /\ txn' \in [Clients -> TxnIds \union {INVALID_TXN_ID}]
      /\ req' \in [Clients -> [kind : Kinds, plain : BOOLEAN, answer : Answers]]
      /\ mode' \in [TxnIds -> BOOLEAN] /\ work' \in [TxnIds -> SUBSET Writes]
      /\ \A t \in TxnIds : (t[1] # c \/ t \in txn_map') => mode'[t] = mode[t] /\ work'[t] = work[t]
      /\ \A t \in TxnIds : work'[t] \subseteq work[t]
      /\ next_txn_id' = next_txn_id
  BY <1>1, ContextGoes
<1>3. Typed'
  BY <1>1, <1>2 DEF Typed, listening
<1>4. \A e \in Clients \ {c} : Same(e)
  BY <1>1, <1>2 DEF Same
<1>5. OwnIds(c)'
  <2>1. \A t \in {txn_id[c], txn'[c]} \ {INVALID_TXN_ID} : t[1] = c /\ t[2] <= next_txn_id[c]
    BY <1>1, <1>2 DEF OwnIds, nullptr
  <2>2. ASSUME NEW t \in TxnIds, t[1] = c
        PROVE  /\ t[2] > next_txn_id[c] => work'[t] = {}
               /\ \A w \in work'[t] : w[1] = c
    BY <1>1, <1>2, <2>2 DEF OwnIds
  <2> QED
    BY <1>1, <1>2, <2>1, <2>2 DEF OwnIds
<1> QED
  BY <1>1, <1>3, <1>4, <1>5, SessionSteps DEF Session

(* Finish commits the implicit transaction of the statement. *)
LEMMA FinishStep ==
    ASSUME ServerIndInv, NEW c \in Clients, Finish(c)
    PROVE  ServerIndInv'
<1> DEFINE t == txn[c]
<1>1. /\ Typed /\ OwnIds(c) /\ Answered(c) /\ Knows(c) = block[c]
      /\ pc[c] = "finish" /\ pc'[c] = "read"
      /\ \A e \in Clients \ {c} : pc'[e] = pc[e]
      /\ pc' \in [Clients -> {"none", "start", "read", "run", "reply", "finish", "closed"}]
      /\ ContextDeleted(c)
      /\ UNCHANGED <<server, listening, fd, sent, block>>
  BY DEF ServerIndInv, Session, Finish, Typed, Knows
<1>2. /\ txn'[c] = nullptr /\ \A e \in Clients \ {c} : txn'[e] = txn[e] /\ req'[e] = req[e]
      /\ txn' \in [Clients -> TxnIds \union {INVALID_TXN_ID}]
      /\ req' \in [Clients -> [kind : Kinds, plain : BOOLEAN, answer : Answers]]
      /\ mode' \in [TxnIds -> BOOLEAN] /\ work' \in [TxnIds -> SUBSET Writes]
      /\ \A u \in TxnIds : (u[1] # c \/ u \in txn_map') => mode'[u] = mode[u] /\ work'[u] = work[u]
      /\ \A u \in TxnIds : work'[u] \subseteq work[u]
      /\ next_txn_id' = next_txn_id
  BY <1>1, ContextGoes
<1>3. /\ t # nullptr => t \in TxnIds /\ t[1] = c /\ t[2] \in Nat /\ t[2] <= next_txn_id[c]
      /\ txn_id[c] # INVALID_TXN_ID => txn_id[c] \in TxnIds /\ txn_id[c] = t
      /\ next_txn_id[c] \in Nat
  BY <1>1, Ids DEF Typed, OwnIds, Answered, nullptr
<1>4. CASE t # nullptr /\ ~mode[t]
  <2>1. /\ txn_map' = txn_map \ {t} /\ outcome' = [outcome EXCEPT ![t] = "committed"]
        /\ txn_id' = [txn_id EXCEPT ![c] = INVALID_TXN_ID]
    BY <1>4 DEF Finish, Ended
  <2>2. /\ outcome'[t] = "committed" /\ \A u \in TxnIds \ {t} : outcome'[u] = outcome[u]
        /\ txn_id'[c] = INVALID_TXN_ID /\ \A e \in Clients \ {c} : txn_id'[e] = txn_id[e]
    BY <1>1, <1>3, <1>4, <2>1 DEF Typed
  <2>3. ~block[c].open
    BY <1>1, <1>3, <1>4 DEF Answered, InBlock
  <2> HIDE DEF t
  <2>4. Typed'
    BY <1>1, <1>2, <2>1 DEF Typed, listening
  <2>5. \A e \in Clients \ {c} : Same(e)
    BY <1>1, <1>2, <1>3, <1>4, <2>1, <2>2 DEF Same
  <2>6. OwnIds(c)'
    <3>1. ASSUME NEW u \in TxnIds, u[1] = c
          PROVE  /\ u \in txn_map' <=> u[2] <= next_txn_id[c] /\ outcome'[u] = "running"
                 /\ u[2] > next_txn_id[c] => outcome'[u] = "running" /\ work'[u] = {}
                 /\ \A w \in work'[u] : w[1] = c
                 /\ u \in txn_map' => work'[u] = {}
      <4>1. /\ \A w \in work[u] : w[1] = c
            /\ u[2] > next_txn_id[c] => outcome[u] = "running" /\ work[u] = {}
            /\ u \in txn_map <=> u[2] <= next_txn_id[c] /\ outcome[u] = "running"
            /\ u \in txn_map /\ u # t => work[u] = {}
        BY <1>1, <1>3, <3>1, Ids DEF OwnIds
      <4>2. CASE u = t
        <5>1. ~(u[2] > next_txn_id[c])
          BY <1>3, <1>4, <4>2
        <5> QED
          BY <1>2, <2>1, <2>2, <4>1, <4>2, <5>1
      <4>3. CASE u # t
        BY <1>2, <2>1, <2>2, <4>1, <4>3
      <4> QED
        BY <4>2, <4>3
    <3>2. {txn_id'[c], txn'[c]} \ {INVALID_TXN_ID} = {}
      BY <1>2, <2>2 DEF nullptr
    <3>3. sent[c] <= MaxRequests[c] /\ next_txn_id[c] <= 2 * sent[c]
      BY <1>1 DEF OwnIds
    <3> QED
      BY <1>1, <1>2, <3>1, <3>2, <3>3 DEF OwnIds
  <2>7. Resting(c)'
    BY <1>1, <1>2, <2>2, <2>3 DEF Resting, nullptr
  <2> QED
    BY <1>1, <2>4, <2>5, <2>6, <2>7, SessionSteps DEF Session
<1>5. CASE t = nullptr \/ mode[t]
  <2>1. UNCHANGED <<txn_map, outcome, txn_id>>
    BY <1>5 DEF Finish
  <2>2. Typed'
    BY <1>1, <1>2, <2>1 DEF Typed, listening
  <2>3. \A e \in Clients \ {c} : Same(e)
    BY <1>1, <1>2, <2>1 DEF Same
  <2>4. OwnIds(c)'
    <3>1. \A u \in {txn_id[c], txn'[c]} \ {INVALID_TXN_ID} : u[1] = c /\ u[2] <= next_txn_id[c]
      BY <1>1, <1>2 DEF OwnIds, nullptr
    <3>2. ASSUME NEW u \in TxnIds, u[1] = c
          PROVE  /\ u[2] > next_txn_id[c] => work'[u] = {}
                 /\ \A w \in work'[u] : w[1] = c
                 /\ u \in txn_map /\ work'[u] # {} => txn_id[c] = u
      BY <1>1, <1>2, <2>1, <3>2 DEF OwnIds
    <3> QED
      BY <1>1, <1>2, <2>1, <3>1, <3>2 DEF OwnIds
  <2>5. Resting(c)'
    <3>1. CASE block[c].open
      <4>1. InBlock(txn_id[c], block[c])
        BY <1>1, <3>1 DEF Answered
      <4>2. InBlock(txn_id[c], block[c])'
        BY <1>1, <1>2, <2>1, <4>1 DEF InBlock, Typed
      <4> QED
        BY <1>1, <1>2, <2>1, <3>1, <4>2 DEF Resting
    <3>2. CASE ~block[c].open
      <4>1. txn_id[c] = INVALID_TXN_ID
        BY <1>1, <1>5, <3>2 DEF Answered, Implicit, nullptr
      <4> QED
        BY <1>1, <1>2, <2>1, <3>2, <4>1 DEF Resting
    <3> QED
      BY <3>1, <3>2
  <2> QED
    BY <1>1, <2>2, <2>3, <2>4, <2>5, SessionSteps DEF Session
<1> QED
  BY <1>4, <1>5

-----------------------------------------------------------------------------
(* The theorems *)

(* Every step of the server preserves the invariant. *)
LEMMA NextServer ==
    ASSUME ServerIndInv, [Next]_vars
    PROVE  ServerIndInv'
<1>1. CASE Listen \/ AcceptError \/ Shutdown
  BY <1>1, ListenSteps, CreateThreadStep, DownStep DEF Listen, Shutdown
<1>2. ASSUME NEW c \in Clients, Connect(c) \/ Disconnect(c) \/ \E r \in Requests : Receive(c, r)
      PROVE  ServerIndInv'
  BY <1>2, ListenSteps, DisconnectStep, ReceiveStep
<1>3. ASSUME NEW c \in Clients, Statement(c)
      PROVE  ServerIndInv'
  <2>1. CASE TxnBegin(c) \/ TxnCommit(c) \/ TxnRollback(c) \/ TxnAbort(c)
    BY <2>1, TxnBeginStep, TxnEndStep, TxnAbortStep DEF TxnCommit, TxnRollback
  <2>2. CASE Write(c) \/ AbortException(c) \/ StatementFails(c) \/ OtherStatement(c)
    BY <2>2, StatementStep, AbortExceptionStep
  <2>3. CASE Uncaught(c)
    BY <2>3, DownStep DEF Uncaught
  <2> QED
    BY <1>3, <2>1, <2>2, <2>3 DEF Statement
<1>4. ASSUME NEW c \in Clients, Handle(c)
      PROVE  ServerIndInv'
  BY <1>3, <1>4, StartStep, ReplyStep, WriteErrorStep, FinishStep DEF Handle
<1>5. CASE UNCHANGED vars
  <2>1. /\ UNCHANGED <<server, listener, sockfd_mutex, sockfd, waiting, accept_failed, pc, fd>>
        /\ UNCHANGED <<req, txn_id, txn, txns, sent, block>>
    BY <1>5 DEF vars, listening
  <2>2. Typed' /\ Handover'
    BY <2>1 DEF ServerIndInv, Typed, Handover, txns
  <2>3. \A e \in Clients : Same(e)
    BY <2>1 DEF Same, txns
  <2> QED
    BY <2>2, <2>3, SessionStays DEF ServerIndInv
<1> QED
  BY <1>1, <1>2, <1>4, <1>5 DEF Next

(* The invariant that the run checks is part of the inductive one. *)
LEMMA ServerInvFollows ==
    ASSUME ServerIndInv
    PROVE  ServerInv
<1>1. Typed /\ Handover /\ \A c \in Clients : Session(c) /\ OwnIds(c)
  BY DEF ServerIndInv, Session
<1>2. TypeOK
  <2>1. \A c \in Clients : req[c].kind \in Kinds /\ req[c].answer \in Answers
    BY <1>1 DEF Typed
  <2>2. ASSUME NEW c \in Clients, NEW t \in {txn_id[c], txn[c]}
        PROVE  t \in Begun \union {INVALID_TXN_ID}
    <3>1. t # INVALID_TXN_ID => t \in TxnIds /\ t[1] = c /\ t[2] <= next_txn_id[c]
      BY <1>1 DEF Typed, OwnIds
    <3> QED
      BY <3>1 DEF Begun
  <2>3. txn_map = {t \in Begun : outcome[t] = "running"}
    BY <1>1, Ids DEF OwnIds, Begun, Typed
  <2>4. Begun \subseteq TxnIds
    BY DEF Begun
  <2> QED
    BY <1>1, <2>1, <2>2, <2>3, <2>4 DEF Typed, TypeOK
<1>3. HandlersGetTheirSocket
  BY <1>1 DEF Handover, HandlersGetTheirSocket
<1>4. BlockIsOneTransaction
  <2> SUFFICES ASSUME NEW c \in Clients, pc[c] = "read"
               PROVE  /\ block[c].open <=> txn_id[c] # INVALID_TXN_ID
                      /\ block[c].open =>
                          /\ txn_id[c] \in txn_map /\ mode[txn_id[c]]
                          /\ block[c].done \subseteq work[txn_id[c]]
                          /\ work[txn_id[c]] \subseteq block[c].done \union block[c].failed
    BY DEF BlockIsOneTransaction
  <2>1. Resting(c)
    BY <1>1 DEF Session
  <2> QED
    BY <1>1, <2>1, Ids DEF Resting, InBlock, Typed
<1>5. NoWritesAreOrphaned
  <2> SUFFICES ASSUME NEW t \in txn_map, NEW w \in work[t]
               PROVE  pc[w[1]] = "closed" \/ txn_id[w[1]] = t
    BY DEF NoWritesAreOrphaned
  <2>1. t \in TxnIds /\ t[1] \in Clients
    BY <1>1, Ids DEF Typed
  <2>2. OwnIds(t[1]) /\ work[t] # {}
    BY <1>1, <2>1
  <2>3. w[1] = t[1] /\ (pc[t[1]] = "closed" \/ txn_id[t[1]] = t)
    BY <2>1, <2>2 DEF OwnIds
  <2> QED
    BY <2>3
<1> QED
  BY <1>2, <1>3, <1>4, <1>5 DEF ServerInv

(* However the threads of start_server and client_handler take turns,      *)
(* requests fail and connections break off: every handler reads its own    *)
(* client from the one variable sockfd, a client's BEGIN and the           *)
(* statements after it are one transaction, and no transaction that has    *)
(* written is lost or used by two sessions.                                *)
THEOREM SessionsKeepTheirTransactions == Spec => []ServerInv
<1>1. Init => ServerIndInv
  BY InitServer
<1>2. ServerIndInv /\ [Next]_vars => ServerIndInv'
  BY NextServer
<1>3. ServerIndInv => ServerInv
  BY ServerInvFollows
<1> QED
  BY <1>1, <1>2, <1>3, PTL DEF Spec

(* The transaction a handler ends still runs, or has not written: the only *)
(* one ended twice is that of an ABORT that was not recognised.            *)
LEMMA OutcomesStay ==
    ASSUME ServerIndInv, [Next]_vars, server' = "up", NEW t \in TxnIds,
           outcome[t] # "running", work[t] # {}
    PROVE  outcome'[t] = outcome[t]
<1>1. Typed /\ t \notin txn_map
  <2>1. t[1] \in Clients
    BY Ids
  <2> QED
    BY <2>1 DEF ServerIndInv, Session, OwnIds
<1>2. CASE Listen \/ AcceptError \/ UNCHANGED vars
  BY <1>2 DEF Listen, Lock, Accept, CreateThread, AcceptError, txns, vars
<1>3. ~Down
  BY DEF Down
<1>4. ASSUME NEW c \in Clients, Connect(c) \/ Disconnect(c) \/ \E r \in Requests : Receive(c, r)
      PROVE  outcome' = outcome
  BY <1>4 DEF Connect, Disconnect, Receive, SetTransaction, begin, txns
<1>5. ASSUME NEW c \in Clients, Statement(c)
      PROVE  outcome'[t] = outcome[t]
  <2>1. ASSUME Running(c, Kinds)
        PROVE  /\ txn[c] = txn_id[c]
               /\ txn[c] # nullptr => txn[c] \in txn_map
               /\ req[c].kind = "write" => txn[c] # nullptr
    <3>1. Executing(c)
      BY <2>1 DEF Running, Runs, ServerIndInv, Session
    <3> QED
      BY <3>1 DEF Executing, InBlock, Implicit, nullptr
  <2>2. ASSUME NEW u \in txn_map, NEW how, outcome' = [outcome EXCEPT ![u] = how]
        PROVE  outcome'[t] = outcome[t]
    BY <1>1, <2>2 DEF Typed
  <2>3. \A k \in Kinds : Running(c, {k}) => Running(c, Kinds)
    BY DEF Running, Runs
  <2>4. CASE TxnBegin(c)
    <3>1. Running(c, Kinds)
      BY <2>3, <2>4 DEF TxnBegin, Kinds, Control
    <3> QED
      BY <2>1, <2>2, <2>4, <3>1 DEF TxnBegin
  <2>5. ASSUME NEW kind \in {"commit", "rollback"}, NEW how, TxnEnd(c, kind, how)
        PROVE  outcome'[t] = outcome[t]
    <3>1. Running(c, Kinds)
      BY <2>3, <2>5 DEF TxnEnd, Kinds, Control
    <3> QED
      BY <2>1, <2>2, <2>5, <3>1 DEF TxnEnd, Ended
  <2>6. CASE TxnAbort(c)
    <3>1. txn_id[c] \in txn_map
      BY <2>6 DEF TxnAbort, get_transaction
    <3> QED
      BY <2>2, <2>6, <3>1 DEF TxnAbort, Ended
  <2>7. CASE AbortException(c)
    <3>1. Running(c, Kinds) /\ req[c].kind = "write"
      BY <2>3, <2>7 DEF AbortException, Kinds, Running, Runs
    <3> QED
      BY <2>1, <2>2, <2>7, <3>1 DEF AbortException, Ended
  <2>8. CASE Write(c) \/ StatementFails(c) \/ OtherStatement(c)
    BY <2>8 DEF Write, StatementFails, OtherStatement, txns
  <2>9. ~Uncaught(c)
    BY <1>3 DEF Uncaught
  <2> QED
    BY <1>5, <2>4, <2>5, <2>6, <2>7, <2>8, <2>9 DEF Statement, TxnCommit, TxnRollback
<1>6. ASSUME NEW c \in Clients, start(c) \/ Reply(c) \/ WriteError(c)
      PROVE  outcome' = outcome
  BY <1>6 DEF start, Reply, WriteError, txns
<1>7. ASSUME NEW c \in Clients, Finish(c)
      PROVE  outcome'[t] = outcome[t]
  <2>1. CASE txn[c] # nullptr /\ ~mode[txn[c]]
    <3>1. Answered(c)
      BY <1>7 DEF Finish, ServerIndInv, Session
    <3>2. txn[c] \in txn_map \/ work[txn[c]] = {}
      BY <2>1, <3>1 DEF Answered, InBlock, Implicit, nullptr
    <3>3. txn[c] # t
      BY <1>1, <3>2
    <3> QED
      BY <1>1, <1>7, <2>1, <3>3 DEF Finish, Ended, Typed
  <2>2. CASE ~(txn[c] # nullptr /\ ~mode[txn[c]])
    BY <1>7, <2>2 DEF Finish
  <2> QED
    BY <2>1, <2>2
<1> QED
  BY <1>2, <1>3, <1>4, <1>5, <1>6, <1>7 DEF Next, Shutdown, Handle

(* The autocommit of client_handler, BEGIN inside a block and the handlers *)
(* of the exceptions never end a transaction a second time once it has     *)
(* written: what was rolled back is not committed afterwards.              *)
THEOREM WritersEndOnce == Spec => EndsOnce
<1> DEFINE Once == \A t \in Begun :
              (server' = "up" /\ outcome[t] # "running" /\ work[t] # {}) => outcome'[t] = outcome[t]
<1>1. Init => ServerIndInv
  BY InitServer
<1>2. ServerIndInv /\ [Next]_vars => ServerIndInv'
  BY NextServer
<1>3. ServerIndInv /\ [Next]_vars => [Once]_vars
  BY OutcomesStay DEF Begun
<1> QED
  BY <1>1, <1>2, <1>3, PTL DEF Spec, EndsOnce
=============================================================================
