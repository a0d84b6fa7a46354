------------------------------- MODULE Broker -------------------------------
(***************************************************************************)
(* RedisQueue over RQ: one Redis list of job ids, pushed at the tail by    *)
(* the API and popped at the head by the workers.  RQ and Redis are        *)
(* external; what they do is modelled from how queue.py calls them.        *)
(***************************************************************************)
EXTENDS Naturals, Sequences

VARIABLE queue

BrokerInit == queue = << >>

(* Queue.enqueue: RPUSH of the id, n times when the client library retries *)
(* a push whose reply it did not get.                                      *)
Push(j) == queue' = Append(queue, j)
PushTwice(j) == queue' = Append(Append(queue, j), j)

(* A worker takes the head: once popped, no other worker can get it.       *)
Pop(j) ==
    /\ queue # << >>
    /\ j = Head(queue)
    /\ queue' = Tail(queue)

InQueue(j) == \E i \in 1..Len(queue) : queue[i] = j

(* Job.cancel: LREM of the first occurrence.  A job that is not in Redis   *)
(* (consumed, expired or never pushed) raises NoSuchJobError, which        *)
(* RedisQueue.cancel swallows.                                             *)
RemoveEntry(j) ==
    \/ /\ ~InQueue(j)
       /\ UNCHANGED queue
    \/ \E i \in 1..Len(queue) :
         /\ queue[i] = j
         /\ \A k \in 1..(i - 1) : queue[k] # j
         /\ queue' = SubSeq(queue, 1, i - 1) \o SubSeq(queue, i + 1, Len(queue))

(* Redis restarts without its data.                                        *)
LoseAll ==
    /\ queue # << >>
    /\ queue' = << >>
=============================================================================
