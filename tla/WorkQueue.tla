------------------------------ MODULE WorkQueue ------------------------------
(***************************************************************************)
(* The rate-limiting work queue of client-go, as the controllers of this    *)
(* repository use it: a key that is being processed is not handed out       *)
(* again until Done, however often it is added meanwhile; and a failed key  *)
(* comes back after a delay, at most maxRetries times in a row.             *)
(***************************************************************************)
EXTENDS Naturals

EmptyQueue(Keys) == [dirty |-> {}, processing |-> {}, delayed |-> {},
                     failures |-> [k \in Keys |-> 0]]

\* Add, for every key of a set.
QueueAdd(q, keys) == [q EXCEPT !.dirty = @ \cup keys]

\* The keys that Get may return.
QueueReady(q) == q.dirty \ q.processing

QueueGet(q, k) == [q EXCEPT !.dirty = @ \ {k}, !.processing = @ \cup {k}]

QueueForget(q, k) == [q EXCEPT !.failures[k] = 0]

QueueAddRateLimited(q, k) == [q EXCEPT !.failures[k] = @ + 1, !.delayed = @ \cup {k}]

\* The delay of a rate-limited key is over.
QueueDelayOver(q, k) == [QueueAdd(q, {k}) EXCEPT !.delayed = @ \ {k}]

QueueDone(q, k) == [q EXCEPT !.processing = @ \ {k}]

\* Whether handleErr gives up on a key that failed again.
GivesUp(q, k, maxRetries) == q.failures[k] >= maxRetries

\* handleErr followed by the deferred Done.
HandleErr(q, k, failed, maxRetries) ==
  QueueDone(IF failed /\ ~GivesUp(q, k, maxRetries)
            THEN QueueAddRateLimited(q, k) ELSE QueueForget(q, k), k)

\* Nothing queued, delayed or in progress.
QueueIdle(q) == q.dirty = {} /\ q.processing = {} /\ q.delayed = {}

QueueTypes(Keys, maxRetries) ==
  [dirty : SUBSET Keys, processing : SUBSET Keys, delayed : SUBSET Keys,
   failures : [Keys -> 0 .. maxRetries]]
=============================================================================
