------------------------------ MODULE JobEvents ------------------------------
(* The in-memory event stream of one job of the Go server                     *)
(* (apps/server-go/internal/jobevents/stream.go): numbered events, a bounded  *)
(* replay buffer, and subscribers that are never waited for. Operators only;  *)
(* each is what one critical section of Stream.mu does to the state of a key. *)
EXTENDS Integers, Sequences

CONSTANTS
  ReplayCapacity,    \* events kept for replay (64 in NewServer)
  SubscriberBuffer,  \* live events a slow subscriber may lag behind (16)
  Subscribers        \* the open event requests

ASSUME EventsAssumption ==
  /\ ReplayCapacity \in Nat
  /\ SubscriberBuffer \in Nat

(* A channel as the subscriber holds it. missed is history: a live event was  *)
(* dropped because the channel was full.                                      *)
NoChannel == [open |-> FALSE, capacity |-> 0, events |-> <<>>, missed |-> FALSE]

EmptyStream ==
  [sequence |-> 0, replay |-> <<>>,
   channel |-> [s \in Subscribers |-> NoChannel]]

AppendReplay(replay, event) ==
  LET all == Append(replay, event)
  IN  IF Len(all) <= ReplayCapacity THEN all
      ELSE SubSeq(all, Len(all) - ReplayCapacity + 1, Len(all))

(* Wrong: the first event after the cursor is skipped.                        *)
EventsAfter_Wrong(replay, after) ==
  LET newer(event) == event.sequence > after + 1 IN SelectSeq(replay, newer)

(* The loop over the replay buffer: events[n] is what its first n give.       *)
EventsAfter(replay, after) ==
  LET events[n \in 0 .. Len(replay)] ==
        IF n = 0 THEN <<>>
        ELSE IF replay[n].sequence > after THEN Append(events[n - 1], replay[n])
        ELSE events[n - 1]
  IN  events[Len(replay)]

(* select { case subscriber <- event: default: }                              *)
Offer(channel, event) ==
  IF ~channel.open THEN channel
  ELSE IF Len(channel.events) < channel.capacity
       THEN [channel EXCEPT !.events = Append(@, event)]
       ELSE [channel EXCEPT !.missed = TRUE]

(* An event has a type, and carries a job, of which the status matters here.  *)
Published(stream, type, status) ==
  LET event == [sequence |-> stream.sequence + 1, type |-> type, status |-> status]
  IN  [sequence |-> stream.sequence + 1,
       replay   |-> AppendReplay(stream.replay, event),
       channel  |-> [s \in Subscribers |-> Offer(stream.channel[s], event)]]

Subscribed(stream, s, after) ==
  LET replay == EventsAfter(stream.replay, after)
  IN  [stream EXCEPT !.channel[s] =
         [open |-> TRUE, capacity |-> Len(replay) + SubscriberBuffer,
          events |-> replay, missed |-> FALSE]]

Unsubscribed(stream, s) == [stream EXCEPT !.channel[s] = NoChannel]

(* What the handler's loop receives from the channel.                         *)
Received(stream, s) == [stream EXCEPT !.channel[s].events = Tail(@)]
===============================================================================
