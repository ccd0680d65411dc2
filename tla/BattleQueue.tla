----------------------------- MODULE BattleQueue -----------------------------
(***************************************************************************)
(* V2UserQueue in front of the MySQL battle repository: Apply hands the    *)
(* request to a bounded channel, one worker goroutine per channel calls    *)
(* ApplyDamageNaive for one request at a time, and the caller waits for    *)
(* its own one-slot response channel or for its context.  Every pod has    *)
(* its own map of channels; all pods share the database of BattleRepo.     *)
(*                                                                         *)
(* A channel is named after the request whose getOrCreate made it, so that *)
(* two channels for one player would be two different values.              *)
(***************************************************************************)
EXTENDS BattleRepo, Sequences

CONSTANTS Pod,            \* server processes, each with its own V2UserQueue
          QueueCapacity,  \* buffer size of a player's channel
          NoReq           \* no channel, or an idle worker

ASSUME QueueAssumption ==
  /\ QueueCapacity \in Nat \ {0}
  /\ NoReq \notin Req

VARIABLES pod,      \* the pod a request arrived at
          caller,   \* where the goroutine running Apply is
          reply,    \* what Apply has returned
          queues,   \* V2UserQueue.queues of every pod: the player's channel
          chanOf,   \* q in Apply: the channel getOrCreate returned
          buf,      \* buffered requests of every channel
          work,     \* the request a channel's worker is processing
          replied,  \* requests whose response has been put in resp
          sent      \* history: requests in the order their sends succeeded

queueVars == <<pod, caller, reply, queues, chanOf, buf, work, replied, sent>>
allVars == <<repoVars, queueVars>>

Key(r) == <<pod[r], Target(r)>>
Keys == Pod \X Player
Channels == {queues[k] : k \in Keys} \ {NoReq}

QueueTypeOK ==
  /\ pod \in [Req -> Pod]
  /\ caller \in [Req -> {"new", "enqueue", "await", "returned"}]
  /\ reply \in [Req -> Ledger!Results]
  /\ queues \in [Keys -> Req \cup {NoReq}]
  /\ chanOf \in [Req -> Req \cup {NoReq}]
  /\ buf \in [Req -> Seq(Req)] /\ \A c \in Req : Len(buf[c]) <= QueueCapacity
  /\ work \in [Req -> Req \cup {NoReq}]
  /\ replied \subseteq Req
  /\ sent \in Seq(Req)

QueueInit ==
  /\ Init
  /\ pod \in [Req -> Pod]
  /\ caller = [r \in Req |-> "new"]
  /\ reply = [r \in Req |-> Ledger!Pending]
  /\ queues = [k \in Keys |-> NoReq]
  /\ chanOf = [r \in Req |-> NoReq]
  /\ buf = [c \in Req |-> <<>>]
  /\ work = [c \in Req |-> NoReq]
  /\ replied = {}
  /\ sent = <<>>

-----------------------------------------------------------------------------
(* Apply *)

Return(r, res) ==
  /\ caller' = [caller EXCEPT ![r] = "returned"]
  /\ reply' = [reply EXCEPT ![r] = res]
  /\ UNCHANGED <<repoVars, pod, queues, chanOf, buf, work, replied, sent>>

ApplyInvalid(r) ==
  /\ caller[r] = "new"
  /\ ~ValidDamage(args[r].damage)
  /\ Return(r, Ledger!Error)

\* Faulty variant: the map is not consulted, every request makes a channel.
GetOrCreateAlwaysCreates(r) ==
  /\ caller[r] = "new"
  /\ ValidDamage(args[r].damage)
  /\ queues' = [queues EXCEPT ![Key(r)] = r]
  /\ chanOf' = [chanOf EXCEPT ![r] = r]
  /\ caller' = [caller EXCEPT ![r] = "enqueue"]
  /\ UNCHANGED <<repoVars, pod, reply, buf, work, replied, sent>>

\* getOrCreate, under the mutex of the pod's V2UserQueue: the map decides.
GetOrCreate(r) ==
  /\ caller[r] = "new"
  /\ ValidDamage(args[r].damage)
  /\ LET q == IF queues[Key(r)] = NoReq THEN r ELSE queues[Key(r)]
     IN /\ queues' = [queues EXCEPT ![Key(r)] = q]
        /\ chanOf' = [chanOf EXCEPT ![r] = q]
  /\ caller' = [caller EXCEPT ![r] = "enqueue"]
  /\ UNCHANGED <<repoVars, pod, reply, buf, work, replied, sent>>

\* case q <- req: the send succeeds when the buffer has room.
Enqueue(r) ==
  /\ caller[r] = "enqueue"
  /\ Len(buf[chanOf[r]]) < QueueCapacity
  /\ buf' = [buf EXCEPT ![chanOf[r]] = Append(@, r)]
  /\ sent' = Append(sent, r)
  /\ caller' = [caller EXCEPT ![r] = "await"]
  /\ UNCHANGED <<repoVars, pod, reply, queues, chanOf, work, replied>>

\* case <-ctx.Done() of the first select.
EnqueueTimeout(r) ==
  /\ caller[r] = "enqueue"
  /\ r \in ctxDone
  /\ Return(r, Ledger!Error)

\* Faulty variant: the requests of a channel share one response channel.
ReceiveShared(r) ==
  /\ caller[r] = "await"
  /\ \E s \in replied : chanOf[s] = chanOf[r] /\ Return(r, result[s])

\* case r := <-resp.
Receive(r) ==
  /\ caller[r] = "await"
  /\ r \in replied
  /\ Return(r, result[r])

\* case <-ctx.Done() of the second select; it may win against a ready response.
AwaitTimeout(r) ==
  /\ caller[r] = "await"
  /\ r \in ctxDone
  /\ Return(r, Ledger!Error)

-----------------------------------------------------------------------------
(* worker *)

\* for req := range q: take the oldest request and call the repository.
WorkerTake(c) ==
  /\ work[c] = NoReq
  /\ buf[c] # <<>>
  /\ work' = [work EXCEPT ![c] = Head(buf[c])]
  /\ buf' = [buf EXCEPT ![c] = Tail(@)]
  /\ Call(Head(buf[c]))
  /\ UNCHANGED <<pod, caller, reply, queues, chanOf, replied, sent>>

\* Faulty variant: an unbuffered response channel needs a waiting receiver.
WorkerReplyUnbuffered(c) ==
  /\ work[c] # NoReq
  /\ Returned(work[c])
  /\ caller[work[c]] = "await"
  /\ replied' = replied \cup {work[c]}
  /\ work' = [work EXCEPT ![c] = NoReq]
  /\ UNCHANGED <<repoVars, pod, caller, reply, queues, chanOf, buf, sent>>

\* Faulty variant: a failed request gets no response.
WorkerReplySuccessOnly(c) ==
  /\ work[c] # NoReq
  /\ Returned(work[c])
  /\ replied' = IF pc[work[c]] = "done" THEN replied \cup {work[c]} ELSE replied
  /\ work' = [work EXCEPT ![c] = NoReq]
  /\ UNCHANGED <<repoVars, pod, caller, reply, queues, chanOf, buf, sent>>

\* req.result <- resp never blocks: the channel has one slot and one sender.
WorkerReply(c) ==
  /\ work[c] # NoReq
  /\ Returned(work[c])
  /\ replied' = replied \cup {work[c]}
  /\ work' = [work EXCEPT ![c] = NoReq]
  /\ UNCHANGED <<repoVars, pod, caller, reply, queues, chanOf, buf, sent>>

-----------------------------------------------------------------------------
\* The contexts of requests that are still in Apply end at any moment.
RequestCtxExpire(r) ==
  /\ caller[r] # "returned"
  /\ CtxExpire(r)
  /\ UNCHANGED queueVars

\* The database advances a request a worker is processing.
RepoRuns(r) == RepoStep(r) /\ UNCHANGED queueVars

ApplyStep(r) ==
  \/ ApplyInvalid(r) \/ GetOrCreate(r) \/ Enqueue(r) \/ EnqueueTimeout(r)
  \/ Receive(r) \/ AwaitTimeout(r)

WorkerStep(c) == WorkerTake(c) \/ WorkerReply(c)

QueueNext ==
  \/ \E r \in Req : ApplyStep(r) \/ RequestCtxExpire(r) \/ RepoRuns(r)
  \/ \E c \in Req : WorkerStep(c)

QueueSpec == QueueInit /\ [][QueueNext]_allVars

-----------------------------------------------------------------------------
(* Properties *)

\* Requests of one player at one pod reach the database in the order their
\* sends succeeded, each only after its predecessor has returned.
ServedInOrder ==
  \A i, j \in DOMAIN sent :
     i < j /\ Key(sent[i]) = Key(sent[j]) /\ pc[sent[j]] # "idle"
        => Returned(sent[i])

\* Within a pod the queue removes all waiting for a player's row: no request
\* that came through it finds the record it reads locked by another request of
\* its own pod.
NoRowLockWait ==
  \A r, s \in Req :
     r # s /\ chanOf[r] # NoReq /\ pod[r] = pod[s] /\ pc[r] = "begun"
        => Target(r) \notin rec[s]

\* What Apply returns is what the repository returned for this very request, or
\* an error that says nothing of the damage: the context ended while the request
\* was queued or in a transaction that may still commit, or the damage was
\* refused before the queue.
ReplyIsTruthful ==
  \A r \in Req : caller[r] = "returned" =>
     \/ Returned(r) /\ reply[r] = result[r]
     \/ reply[r] = Ledger!Error /\ (r \in ctxDone \/ ~ValidDamage(args[r].damage))

\* Every request a channel has accepted, and every call of ApplyDamageNaive that
\* V1Naive or a worker has made, comes to its end: waits for row and gap locks
\* end without the help of a lock wait timeout, and a response nobody waits for
\* any more never stops the worker.
EveryCallReturns ==
  \A r \in Req : (caller[r] = "await" \/ pc[r] = "called") ~> Returned(r)

\* Apply returns for every caller, also for one that found the channel full.
ApplyReturns == \A r \in Req : caller[r] = "enqueue" ~> caller[r] = "returned"

\* The claim of V2UserQueue's comment that the queue rules deadlocks out.
NoDeadlock == \A r \in Req : Blockers(r) # {} => ~OnWaitCycle(r)
=============================================================================
