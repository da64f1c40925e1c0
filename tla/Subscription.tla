---------------------------- MODULE Subscription ----------------------------
(***************************************************************************)
(* The queue of one consumer of a stream: `_Subscription` in stream.py, an *)
(* asyncio.Queue with a bound that the reader of the socket fills without  *)
(* ever waiting.  A full queue loses its OLDEST item, whatever it is: data *)
(* or one of the sentinels that end or fault the consumer's iterator.      *)
(*                                                                         *)
(* The market streams (DepthBook, Connection) and the user-data streams    *)
(* (OrderTracker) share it.                                                *)
(***************************************************************************)
EXTENDS Sequences, Naturals

(* Mutants: the newest item is refused instead of the oldest dropped; the  *)
(* bound is off by one.                                                    *)
OfferDropsNewest(queue, maxsize, item) ==
  IF Len(queue) < maxsize THEN Append(queue, item) ELSE queue
OfferOffByOne(queue, maxsize, item) ==
  IF Len(queue) <= maxsize
  THEN Append(queue, item)
  ELSE Append(Tail(queue), item)

(* What offer() leaves in the queue: the item is always taken, and a full  *)
(* queue pays for it with its head.                                        *)
Offer(queue, maxsize, item) ==
  IF Len(queue) < maxsize
  THEN Append(queue, item)
  ELSE Append(Tail(queue), item)

(* The item offer() throws away, as a set: lagged counts these.            *)
Dropped(queue, maxsize) ==
  IF Len(queue) < maxsize THEN {} ELSE {Head(queue)}

=============================================================================
