----------------------------- MODULE PublicPrompts -----------------------------
(***************************************************************************)
(* The public square (studio-service/publicPrompts.js) under the two locks *)
(* of the service: a request on personal data holds the lock of its user   *)
(* from its first line to its last (handler), and the store takes the lock *)
(* of the publication inside it.  The keys of both locks are disjoint, so  *)
(* that one KeyedLock stands for both.  A publication is a metadata file,  *)
(* replaced atomically, and a directory with a copy of the image.          *)
(*                                                                         *)
(* A crash between two operations leaves the files of a failure at the     *)
(* same place whose cleaning also fails, and no lock.  Left out: the       *)
(* publication without an image, which has no directory, and the counters  *)
(* of copies and shares, which are kept as the votes are.                  *)
(***************************************************************************)
EXTENDS KeyedLock, FiniteSets

CONSTANTS
  Users,
  Shares,        \* identifiers of publications, each drawn for one publish
  MaxRequests    \* bound: requests

ASSUME KeysAssumption ==
  Keys = Users \cup Shares /\ Users \cap Shares = {} /\ IsFiniteSet(Users)

VARIABLES
  requests,      \* the requests on the public square so far
  metadata,      \* share -> the content of its metadata file, or NoEntry
  files,         \* the shares whose copied image is in place
  fresh,         \* the shares that no request has drawn
  promised       \* ghost: the reactions that were answered as done

pvars == << calls, tails, requests, metadata, files, fresh, promised >>

Votes == {"none", "up", "down"}

NoReactions == [ votes |-> [u \in Users |-> "none"], up |-> 0, down |-> 0 ]

NoEntry == [ owner |-> "nobody", reactions |-> NoReactions ]

Published(s) == metadata[s] # NoEntry

(* The entry that publish writes: nobody has voted. *)
Entry(u) == [ owner |-> u, reactions |-> NoReactions ]

(* What a reaction makes of the counters: a vote replaces the former vote  *)
(* of the user, and the same vote again takes it back.                     *)
Reacted(x, u, vote) ==
  LET previous == x.votes[u]
      without  == IF previous = "none" THEN x
                  ELSE [x EXCEPT ![previous] = IF @ = 0 THEN 0 ELSE @ - 1]
  IN  IF vote = previous THEN [without EXCEPT !.votes[u] = "none"]
      ELSE [without EXCEPT !.votes[u] = vote, ![vote] = @ + 1]

PInit ==
  /\ Init
  /\ requests = << >>
  /\ fresh = Shares
  /\ metadata = [s \in Shares |-> NoEntry]
  /\ files = {}
  /\ promised = [s \in Shares |-> NoReactions]

-------------------------------------------------------------------------------
Goto(r, pc) == requests' = [requests EXCEPT ![r].pc = pc]

(* Of a request that is done only its place in the order is kept. *)
Done(q) == [q EXCEPT !.op = "none", !.vote = "none", !.pc = "done", !.read = NoEntry]

At(r, op, pc) == requests[r].op = op /\ requests[r].pc = pc

(* The handler acquires the lock of the user.                              *)
Arrive(u, op, s, vote) ==
  /\ Len(requests) < MaxRequests
  /\ op = "publish" <=> s \in fresh
  /\ Acquire(u)
  /\ fresh' = fresh \ {s}
  /\ requests' = Append(requests,
       [ user |-> u, op |-> op, share |-> s, vote |-> vote, pc |-> "queued",
         outer |-> Len(calls) + 1, inner |-> 0, read |-> NoEntry ])
  /\ UNCHANGED << metadata, files, promised >>

(* It runs; locks.run of the store lines up for the publication.           *)
LineUp(r) ==
  /\ requests[r].pc = "admitted"
  /\ Acquire(requests[r].share)
  /\ requests' = [requests EXCEPT ![r].pc = "lined up", ![r].inner = Len(calls) + 1]
  /\ UNCHANGED << metadata, files, fresh, promised >>

Admit(r) ==
  /\ \/ requests[r].pc = "queued" /\ Enter(requests[r].outer) /\ Goto(r, "admitted")
     \/ requests[r].pc = "lined up" /\ Enter(requests[r].inner) /\ Goto(r, "working")
  /\ UNCHANGED << metadata, files, fresh, promised >>

-------------------------------------------------------------------------------
Unlocked == UNCHANGED << calls, tails, fresh >>

(* publish: the image is copied first, then the metadata file is written.  *)
Copy(r) ==
  /\ At(r, "publish", "working")
  /\ files' = files \cup {requests[r].share}
  /\ Goto(r, "copied")
  /\ Unlocked /\ UNCHANGED << metadata, promised >>

WriteEntry(r) ==
  /\ At(r, "publish", "copied")
  /\ metadata' = [metadata EXCEPT ![requests[r].share] = Entry(requests[r].user)]
  /\ Goto(r, "leaving")
  /\ Unlocked /\ UNCHANGED << files, promised >>

PublishFails(r) ==
  /\ requests[r].op = "publish"
  /\ requests[r].pc \in {"working", "copied"}
  /\ Goto(r, "undoing")
  /\ Unlocked /\ UNCHANGED << metadata, files, promised >>

(* The rest of a publication is removed, or fails to be.                   *)
Sweep(r) ==
  /\ requests[r].pc = "undoing"
  /\ \E gone \in {{}, {requests[r].share}} : files' = files \ gone
  /\ Goto(r, "leaving")
  /\ Unlocked /\ UNCHANGED << metadata, promised >>

(* withdraw and react read the metadata file; withdraw refuses who is not  *)
(* the owner, and both end when there is none.                             *)
Read(r) ==
  LET q == requests[r]
      e == metadata[q.share]
      goes == e # NoEntry /\ (q.op = "withdraw" => e.owner = q.user)
  IN  /\ q.op # "publish" /\ q.pc = "working"
      /\ requests' = [requests EXCEPT ![r].read = e,
                                      ![r].pc = IF goes THEN "read" ELSE "leaving"]
      /\ Unlocked /\ UNCHANGED << metadata, files, promised >>

(* Remove the publication first: its image is not served from then on.     *)
Unlink_Wrong(r) ==
  /\ At(r, "withdraw", "read")
  /\ files' = files \ {requests[r].share}
  /\ Goto(r, "undoing")
  /\ Unlocked /\ UNCHANGED << metadata, promised >>
Unlink(r) ==
  /\ At(r, "withdraw", "read")
  /\ metadata' = [metadata EXCEPT ![requests[r].share] = NoEntry]
  /\ Goto(r, "undoing")
  /\ Unlocked /\ UNCHANGED << files, promised >>

(* The counters that were read, with the reaction, replace the file.       *)
WriteReaction(r) ==
  LET q == requests[r]
  IN  /\ At(r, "react", "read")
      /\ metadata' = [metadata EXCEPT ![q.share] =
            [q.read EXCEPT !.reactions = Reacted(@, q.user, q.vote)]]
      /\ promised' = [promised EXCEPT ![q.share] = Reacted(@, q.user, q.vote)]
      /\ Goto(r, "leaving")
      /\ Unlocked /\ UNCHANGED files

(* An unlink, a write or an unknown action fails: nothing has changed.     *)
RequestFails(r) ==
  /\ requests[r].op # "publish" /\ requests[r].pc = "read"
  /\ Goto(r, "leaving")
  /\ Unlocked /\ UNCHANGED << metadata, files, promised >>

(* The locks are released in the finally of locks.run, then of the handler. *)
Leave_Wrong(r) ==
  /\ requests[r].pc = "leaving" /\ Release(requests[r].inner) /\ Goto(r, "done")
  /\ UNCHANGED << metadata, files, fresh, promised >>
Leave(r) ==
  /\ \/ requests[r].pc = "leaving" /\ Release(requests[r].inner) /\ Goto(r, "ending")
     \/ /\ requests[r].pc = "ending" /\ Release(requests[r].outer)
        /\ requests' = [requests EXCEPT ![r] = Done(@)]
  /\ UNCHANGED << metadata, files, fresh, promised >>

Step(r) ==
  \/ LineUp(r) \/ Admit(r) \/ Leave(r)
  \/ Copy(r) \/ WriteEntry(r) \/ PublishFails(r) \/ Sweep(r)
  \/ Read(r) \/ Unlink(r) \/ WriteReaction(r) \/ RequestFails(r)

PNext ==
  \/ \E u \in Users, s \in Shares :
       \/ Arrive(u, "publish", s, "none")
       \/ \E vote \in {"up", "down"} : Arrive(u, "react", s, vote)
       \/ Arrive(u, "withdraw", s, "none")
  \/ \E r \in DOMAIN requests : Step(r)

(* The event loop resumes every request that can go on.                    *)
PSpec ==
  /\ PInit /\ [][PNext]_pvars
  /\ \A r \in 1 .. MaxRequests : WF_pvars(r \in DOMAIN requests /\ Step(r))

-------------------------------------------------------------------------------
(* Properties. *)

(* A publication that is listed is whole: its image is in place, whatever  *)
(* publications, withdrawals and reactions run beside it and wherever one  *)
(* of them fails, so that no late reaction brings back what was withdrawn; *)
(* and its counters are the votes of the users.                            *)
ListedIsWhole ==
  \A s \in Shares : Published(s) =>
    /\ s \in files
    /\ \A v \in {"up", "down"} :
         metadata[s].reactions[v] =
           Cardinality({ u \in Users : metadata[s].reactions.votes[u] = v })

(* Reactions of different users, read and written back in several steps,   *)
(* act as if each had been applied at once: none is lost (react).          *)
ReactionsKept ==
  \A s \in Shares : Published(s) => metadata[s].reactions = promised[s]

(* No request waits for ever, for the lock of its user or for the lock of  *)
(* a publication: the two are always taken in this order.                  *)
EveryRequestEnds ==
  \A r \in 1 .. MaxRequests :
    (r \in DOMAIN requests) ~> (r \in DOMAIN requests /\ requests[r].pc = "done")
===============================================================================
