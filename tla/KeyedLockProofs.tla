--------------------------- MODULE KeyedLockProofs ---------------------------
(* Theorems about KeyedLock, for every set of keys and number of calls, and   *)
(* about the public square that is kept under it (PublicPrompts), for any     *)
(* users, publications and number of requests.                                *)
EXTENDS PublicPrompts, FiniteSetTheorems, TLAPS

(* Nothing is locked when the service starts. *)
LEMMA InitKeeps == Init => IInv
  BY DEF Init, IInv, TypeOK, Chained, Exclusive

(* A new call waits behind the last one of its key (acquire). *)
LEMMA AcquireKeeps ==
  ASSUME IInv, NEW k \in Keys, Acquire(k)
  PROVE  IInv'
<1> DEFINE n == Len(calls) + 1
           c == [key |-> k, previous |-> tails[k], pc |-> "waiting"]
<1>1. /\ calls \in Seq(CallRecords)
      /\ tails \in [Keys -> 0 .. Len(calls)]
      /\ Len(calls) \in Nat
      /\ DOMAIN calls = 1 .. Len(calls)
  BY DEF IInv, TypeOK
<1>2. /\ calls' = Append(calls, c)
      /\ tails' = [tails EXCEPT ![k] = n]
      /\ c \in CallRecords
  BY <1>1 DEF Acquire, CallRecords
<1>3. /\ calls' \in Seq(CallRecords)
      /\ Len(calls') = n
      /\ DOMAIN calls' = 1 .. n
      /\ calls'[n] = c
      /\ \A t \in DOMAIN calls : calls'[t] = calls[t]
  BY <1>1, <1>2
<1>4. TypeOK'
  BY <1>1, <1>2, <1>3 DEF TypeOK
<1>5. Chained'
  <2>1. \A t \in DOMAIN calls' : calls'[t].previous < t
    BY <1>1, <1>3 DEF IInv, Chained
  <2>2. \A t \in DOMAIN calls' : calls'[t].previous # 0
          => calls'[calls'[t].previous].key = calls'[t].key
    <3>1. ASSUME NEW t \in DOMAIN calls, calls[t].previous # 0
          PROVE  /\ calls[t].previous \in DOMAIN calls
                 /\ calls[calls[t].previous].key = calls[t].key
      <4>1. calls[t].previous \in Nat
        <5>1. calls[t] \in CallRecords
          BY <1>1
        <5> QED
          BY <5>1 DEF CallRecords
      <4>2. /\ calls[t].previous < t
            /\ calls[calls[t].previous].key = calls[t].key
        BY <3>1 DEF IInv, Chained
      <4>3. t \in 1 .. Len(calls)
        BY <1>1
      <4> QED
        BY <1>1, <3>1, <4>1, <4>2, <4>3
    <3>2. ASSUME tails[k] # 0
          PROVE  tails[k] \in DOMAIN calls /\ calls[tails[k]].key = k
      BY <1>1, <3>2 DEF IInv, Chained
    <3> QED
      BY <1>1, <1>3, <3>1, <3>2
  <2>3. ASSUME NEW t \in DOMAIN calls', NEW u \in DOMAIN calls',
               calls'[u].key = calls'[t].key, u < t
        PROVE  calls'[u].pc = "released" \/ u <= calls'[t].previous
    BY <1>1, <1>3, <2>3 DEF IInv, Chained
  <2>4. ASSUME NEW l \in Keys, NEW t \in DOMAIN calls', calls'[t].key = l
        PROVE  calls'[t].pc = "released" \/ t <= tails'[l]
    BY <1>1, <1>2, <1>3, <2>4 DEF IInv, Chained
  <2>5. \A l \in Keys : tails'[l] # 0
          => calls'[tails'[l]].key = l /\ calls'[tails'[l]].pc # "released"
    BY <1>1, <1>2, <1>3 DEF IInv, Chained
  <2> QED
    BY <2>1, <2>2, <2>3, <2>4, <2>5 DEF Chained
<1>6. Exclusive'
  BY <1>1, <1>3 DEF IInv, Exclusive
<1> QED
  BY <1>4, <1>5, <1>6 DEF IInv

(* What a change of pc of one call leaves alone. *)
LEMMA PcStep ==
  ASSUME IInv, NEW t \in DOMAIN calls, NEW s \in {"holding", "released"},
         calls' = [calls EXCEPT ![t].pc = s]
  PROVE  /\ calls' \in Seq(CallRecords)
         /\ Len(calls') = Len(calls)
         /\ DOMAIN calls' = DOMAIN calls
         /\ DOMAIN calls = 1 .. Len(calls)
         /\ \A u \in DOMAIN calls :
              /\ calls'[u].key = calls[u].key
              /\ calls'[u].previous = calls[u].previous
              /\ calls'[u].pc = IF u = t THEN s ELSE calls[u].pc
              /\ calls[u] \in CallRecords
<1>1. calls \in Seq(CallRecords)
  BY DEF IInv, TypeOK
<1>2. calls[t] \in CallRecords /\ [calls[t] EXCEPT !.pc = s] \in CallRecords
  <2>1. calls[t] \in CallRecords
    BY <1>1
  <2> QED
    BY <2>1 DEF CallRecords
<1>3. calls' = [calls EXCEPT ![t] = [calls[t] EXCEPT !.pc = s]]
  OBVIOUS
<1>4. /\ calls' \in Seq(CallRecords)
      /\ Len(calls') = Len(calls)
      /\ DOMAIN calls' = DOMAIN calls
      /\ DOMAIN calls = 1 .. Len(calls)
  BY <1>1, <1>2, <1>3
<1>5. ASSUME NEW u \in DOMAIN calls
      PROVE  /\ calls'[u].key = calls[u].key
             /\ calls'[u].previous = calls[u].previous
             /\ calls'[u].pc = IF u = t THEN s ELSE calls[u].pc
             /\ calls[u] \in CallRecords
  <2>1. calls[u] \in CallRecords
    BY <1>1
  <2>2. CASE u = t
    BY <1>1, <1>3, <2>1, <2>2 DEF CallRecords
  <2>3. CASE u # t
    BY <1>1, <1>3, <2>1, <2>3
  <2> QED
    BY <2>1, <2>2, <2>3
<1> QED
  BY <1>4, <1>5

(* A call enters when the one it awaits is done; those before that one     *)
(* were done before it entered.                                            *)
LEMMA EnterKeeps ==
  ASSUME IInv, NEW t \in DOMAIN calls, Enter(t)
  PROVE  IInv'
<1>1. calls' = [calls EXCEPT ![t].pc = "holding"] /\ UNCHANGED tails
  BY DEF Enter
<1>2. /\ calls' \in Seq(CallRecords)
      /\ Len(calls') = Len(calls)
      /\ DOMAIN calls' = DOMAIN calls
      /\ DOMAIN calls = 1 .. Len(calls)
      /\ \A u \in DOMAIN calls :
           /\ calls'[u].key = calls[u].key
           /\ calls'[u].previous = calls[u].previous
           /\ calls'[u].pc = IF u = t THEN "holding" ELSE calls[u].pc
           /\ calls[u] \in CallRecords
  BY <1>1, PcStep
<1>3. calls[t].pc = "waiting"
  BY DEF Enter
<1>4. TypeOK'
  BY <1>1, <1>2 DEF IInv, TypeOK
<1>5. Chained'
  <2>1. \A u \in DOMAIN calls : calls[u].previous # 0 => calls[u].previous \in DOMAIN calls
    BY <1>2 DEF IInv, Chained, CallRecords
  <2>2. \A k \in Keys : tails[k] # 0 => tails[k] \in DOMAIN calls
    BY <1>2 DEF IInv, TypeOK
  <2> QED
    BY <1>1, <1>2, <1>3, <2>1, <2>2 DEF IInv, Chained
<1>6. Exclusive'
  <2>1. ASSUME NEW u \in DOMAIN calls, calls[u].key = calls[t].key, u < t
        PROVE  calls[u].pc = "released"
    <3>1. calls[u].pc = "released" \/ u <= calls[t].previous
      BY <2>1 DEF IInv, Chained
    <3>2. CASE u <= calls[t].previous
      <4> DEFINE p == calls[t].previous
      <4>1. p \in DOMAIN calls /\ p # 0 /\ calls[p].key = calls[t].key
        BY <1>2, <3>2 DEF IInv, Chained, CallRecords
      <4>2. calls[p].pc = "released"
        BY <4>1 DEF Enter
      <4>3. CASE u = p
        BY <4>2, <4>3
      <4>4. CASE u < p
        BY <2>1, <4>1, <4>2, <4>4 DEF IInv, Exclusive
      <4> QED
        BY <1>2, <3>2, <4>1, <4>3, <4>4
    <3> QED
      BY <3>1, <3>2
  <2> QED
    BY <1>2, <1>3, <2>1 DEF IInv, Exclusive
<1> QED
  BY <1>4, <1>5, <1>6 DEF IInv

(* The last call of a key deletes the entry of the map, any other leaves   *)
(* it to those that wait (the release function).                           *)
LEMMA ReleaseKeeps ==
  ASSUME IInv, NEW t \in DOMAIN calls, Release(t)
  PROVE  IInv'
<1>1. calls' = [calls EXCEPT ![t].pc = "released"]
  BY DEF Release
<1>2. /\ calls' \in Seq(CallRecords)
      /\ Len(calls') = Len(calls)
      /\ DOMAIN calls' = DOMAIN calls
      /\ DOMAIN calls = 1 .. Len(calls)
      /\ \A u \in DOMAIN calls :
           /\ calls'[u].key = calls[u].key
           /\ calls'[u].previous = calls[u].previous
           /\ calls'[u].pc = IF u = t THEN "released" ELSE calls[u].pc
           /\ calls[u] \in CallRecords
  BY <1>1, PcStep
<1>3. calls[t].pc = "holding" /\ calls[t].key \in Keys
  BY <1>2 DEF Release, CallRecords
<1>4. tails' \in [Keys -> 0 .. Len(calls)]
  <2>1. tails \in [Keys -> 0 .. Len(calls)] /\ Len(calls) \in Nat
    BY DEF IInv, TypeOK
  <2>2. CASE tails[calls[t].key] = t
    BY <1>3, <2>1, <2>2 DEF Release
  <2>3. CASE tails[calls[t].key] # t
    BY <2>1, <2>3 DEF Release
  <2> QED
    BY <2>2, <2>3
<1>5. TypeOK'
  BY <1>2, <1>4 DEF TypeOK
<1>6. Chained'
  <2>1. \A u \in DOMAIN calls : calls[u].previous # 0 => calls[u].previous \in DOMAIN calls
    BY <1>2 DEF IInv, Chained, CallRecords
  <2>2. tails \in [Keys -> 0 .. Len(calls)]
    BY DEF IInv, TypeOK
  <2>3. ASSUME NEW k \in Keys, NEW u \in DOMAIN calls, calls[u].key = k
        PROVE  calls'[u].pc = "released" \/ u <= tails'[k]
    <3>1. CASE tails[calls[t].key] = t /\ k = calls[t].key
      <4>1. calls[u].pc = "released" \/ u <= t
        BY <2>3, <3>1 DEF IInv, Chained
      <4>2. u < t => calls[u].pc = "released"
        BY <1>3, <2>3, <3>1 DEF IInv, Exclusive
      <4> QED
        BY <1>2, <4>1, <4>2
    <3>2. CASE ~(tails[calls[t].key] = t /\ k = calls[t].key)
      <4>1. tails'[k] = tails[k]
        BY <2>2, <3>2 DEF Release
      <4> QED
        BY <1>2, <2>3, <4>1 DEF IInv, Chained
    <3> QED
      BY <3>1, <3>2
  <2>4. ASSUME NEW k \in Keys, tails'[k] # 0
        PROVE  calls'[tails'[k]].key = k /\ calls'[tails'[k]].pc # "released"
    <3>1. tails'[k] = tails[k] /\ tails[k] # t
      BY <1>3, <2>2, <2>4 DEF Release, IInv, Chained
    <3> QED
      BY <1>2, <2>2, <2>4, <3>1 DEF IInv, Chained
  <2>5. \A u, v \in DOMAIN calls :
          (calls'[u].key = calls'[v].key /\ u < v)
            => calls'[u].pc = "released" \/ u <= calls'[v].previous
    BY <1>2 DEF IInv, Chained
  <2> QED
    BY <1>2, <2>1, <2>3, <2>4, <2>5 DEF IInv, Chained
<1>7. Exclusive'
  BY <1>2, <1>3 DEF IInv, Exclusive
<1> QED
  BY <1>5, <1>6, <1>7 DEF IInv

(* The invariant of the lock: types, the chain of promises, exclusion. *)
THEOREM Invariant == Spec => []IInv
<1>1. IInv /\ UNCHANGED vars => IInv'
  BY DEF vars, IInv, TypeOK, Chained, Exclusive
<1>2. IInv /\ [Next]_vars => IInv'
  BY <1>1, AcquireKeeps, EnterKeeps, ReleaseKeeps DEF Next
<1> QED
  BY InitKeeps, <1>2, PTL DEF Spec

(* Whoever is inside the lock of a user, or has been, came before all that *)
(* wait: the lock excludes and is fair (acquire).                          *)
THEOREM MutualExclusion == Spec => []Exclusive
<1>1. IInv => Exclusive
  BY DEF IInv
<1> QED
  BY <1>1, Invariant, PTL

(* The map never loses a key in use nor keeps one that is free.            *)
THEOREM MapMatches == Spec => []MapIsLive
<1>1. IInv => MapIsLive
  <2> SUFFICES ASSUME IInv, NEW k \in Keys
               PROVE  tails[k] # 0 <=> Line(k) # {}
    BY DEF MapIsLive
  <2>1. tails[k] \in 0 .. Len(calls) /\ DOMAIN calls = 1 .. Len(calls)
    BY DEF IInv, TypeOK
  <2>2. ASSUME tails[k] # 0 PROVE Line(k) # {}
    BY <2>1, <2>2 DEF IInv, Chained, Line
  <2>3. ASSUME Line(k) # {} PROVE tails[k] # 0
    <3>1. PICK t \in DOMAIN calls : calls[t].key = k /\ calls[t].pc # "released"
      BY <2>3 DEF Line
    <3> QED
      BY <2>1, <3>1 DEF IInv, Chained
  <2> QED
    BY <2>2, <2>3
<1> QED
  BY <1>1, Invariant, PTL

(* The chain of promises implements the first come, first served lock that *)
(* GenerationJobs uses.                                                    *)
THEOREM Refinement == Spec => Implements
<1> DEFINE line == [k \in Keys |-> Line(k)]
<1>1. Init => Fifo!Init
  BY DEF Init, Fifo!Init, Line
<1>2. ASSUME IInv, NEW k \in Keys, Acquire(k)
      PROVE  Fifo!Arrive(k)
  <2> DEFINE n == Len(calls) + 1
  <2>1. /\ calls \in Seq(CallRecords) /\ tails \in [Keys -> 0 .. Len(calls)]
        /\ DOMAIN calls = 1 .. Len(calls) /\ Len(calls) \in Nat
    BY <1>2 DEF IInv, TypeOK
  <2>2. /\ Len(calls') = n
        /\ DOMAIN calls' = 1 .. n
        /\ calls'[n].key = k /\ calls'[n].pc = "waiting"
        /\ \A t \in DOMAIN calls : calls'[t] = calls[t]
    BY <1>2, <2>1 DEF Acquire
  <2>3. ASSUME NEW l \in Keys
        PROVE  Line(l)' = IF l = k THEN Line(l) \cup {n} ELSE Line(l)
    BY <2>1, <2>2 DEF Line
  <2> QED
    BY <2>2, <2>3 DEF Fifo!Arrive
<1>3. ASSUME IInv, NEW t \in DOMAIN calls, Enter(t)
      PROVE  UNCHANGED << line, Len(calls) >>
  <2>1. calls' = [calls EXCEPT ![t].pc = "holding"] /\ calls[t].pc = "waiting"
    BY <1>3 DEF Enter
  <2>2. /\ Len(calls') = Len(calls) /\ DOMAIN calls' = DOMAIN calls
        /\ \A u \in DOMAIN calls :
             /\ calls'[u].key = calls[u].key
             /\ calls'[u].pc = IF u = t THEN "holding" ELSE calls[u].pc
    BY <1>3, <2>1, PcStep
  <2>3. ASSUME NEW k \in Keys PROVE Line(k)' = Line(k)
    BY <2>1, <2>2 DEF Line
  <2> QED
    BY <2>2, <2>3
<1>4. ASSUME IInv, NEW t \in DOMAIN calls, Release(t)
      PROVE  \E k \in Keys : \E u \in line[k] : Fifo!Leave(k, u)
  <2> DEFINE k == calls[t].key
  <2>1. calls' = [calls EXCEPT ![t].pc = "released"] /\ calls[t].pc = "holding"
    BY <1>4 DEF Release
  <2>2. /\ Len(calls') = Len(calls) /\ DOMAIN calls' = DOMAIN calls
        /\ DOMAIN calls = 1 .. Len(calls)
        /\ \A u \in DOMAIN calls :
             /\ calls'[u].key = calls[u].key
             /\ calls'[u].pc = IF u = t THEN "released" ELSE calls[u].pc
             /\ calls[u] \in CallRecords
    BY <1>4, <2>1, PcStep
  <2>3. k \in Keys /\ t \in Line(k)
    BY <2>1, <2>2 DEF Line, CallRecords
  <2>4. ASSUME NEW u \in Line(k) PROVE t <= u
    <3>1. u \in DOMAIN calls /\ calls[u].key = k /\ calls[u].pc # "released"
      BY DEF Line
    <3> QED
      BY <1>4, <2>1, <2>2, <3>1 DEF IInv, Exclusive
  <2>5. ASSUME NEW l \in Keys
        PROVE  Line(l)' = IF l = k THEN Line(l) \ {t} ELSE Line(l)
    BY <2>1, <2>2 DEF Line
  <2>6. Fifo!Leave(k, t)
    BY <2>2, <2>3, <2>4, <2>5 DEF Fifo!Leave
  <2> QED
    BY <2>3, <2>6
<1>5. IInv /\ [Next]_vars => [Fifo!Next]_<< line, Len(calls) >>
  <2>1. UNCHANGED vars => UNCHANGED << line, Len(calls) >>
    BY DEF vars, Line
  <2> QED
    BY <1>2, <1>3, <1>4, <2>1 DEF Next, Fifo!Next
<1> QED
  BY <1>1, <1>5, Invariant, PTL DEF Spec, Implements, Fifo!Spec

-------------------------------------------------------------------------------
(* The public square under the lock (PublicPrompts). A request that is inside *)
(* the lock of its publication is alone there; what it read is then still     *)
(* what is stored, and what it removes or completes is nobody else's.         *)
ReactionsType == [ votes : [Users -> Votes], up : Nat, down : Nat ]
EntryType == [ owner : Users \cup {"nobody"}, reactions : ReactionsType ]

Inside  == {"working", "copied", "undoing", "read", "leaving"}
Coming  == {"queued", "admitted", "lined up", "working", "copied"}
Places  == Inside \cup Coming \cup {"ending", "done"}

RequestType ==
  [ user : Users, op : {"publish", "react", "withdraw", "none"}, share : Shares,
    vote : Votes, pc : Places,
    outer : Nat, inner : Nat, read : EntryType ]

StoreOK ==
  /\ requests \in Seq(RequestType)
  /\ metadata \in [Shares -> EntryType]
  /\ promised \in [Shares -> ReactionsType]
  /\ fresh \subseteq Shares

(* The places of a request in the lines of its user and of its publication.   *)
InLine(q) == q.pc \in Inside \cup {"lined up"}

LineOK(q, line) ==
  /\ q.outer \in DOMAIN line /\ line[q.outer].key = q.user
  /\ InLine(q) => q.inner \in DOMAIN line /\ line[q.inner].key = q.share
  /\ q.pc \in Inside => line[q.inner].pc = "holding"

LinesOK == \A r \in DOMAIN requests : LineOK(requests[r], calls)

PlacesDiffer ==
  \A r, t \in DOMAIN requests :
    /\ InLine(requests[r]) /\ InLine(requests[t])
    /\ requests[r].inner = requests[t].inner
    => r = t

(* A publication is drawn once, and not reacted to before it is listed.       *)
DrawnOnce ==
  /\ \A r \in DOMAIN requests : requests[r].share \notin fresh
  /\ \A r, t \in DOMAIN requests :
       /\ requests[r].op = "publish" /\ requests[t].op = "publish"
       /\ requests[r].share = requests[t].share
       => r = t
  /\ \A s \in fresh : metadata[s] = NoEntry /\ promised[s] = NoReactions

WorkOK ==
  \A r \in DOMAIN requests :
    LET q == requests[r]
    IN  /\ q.op = "publish" /\ q.pc \in Coming =>
             metadata[q.share] = NoEntry /\ promised[q.share] = NoReactions
        /\ q.pc = "copied" => q.op = "publish" /\ q.share \in files
        /\ q.op = "react" => q.vote \in {"up", "down"}
        /\ q.pc = "undoing" => metadata[q.share] = NoEntry
        /\ q.pc = "read" => /\ q.op # "publish"
                             /\ q.read = metadata[q.share] /\ q.read # NoEntry

(* The counters are the votes.                                                *)
Counted(x) ==
  \A v \in {"up", "down"} : x[v] = Cardinality({ u \in Users : x.votes[u] = v })

ListedOK ==
  \A s \in Shares : metadata[s] # NoEntry =>
    /\ s \in files
    /\ Counted(metadata[s].reactions)
    /\ metadata[s].reactions = promised[s]

PInv == StoreOK /\ LinesOK /\ PlacesDiffer /\ DrawnOnce /\ WorkOK /\ ListedOK

(* One request is replaced.                                                   *)
LEMMA Replaces ==
  ASSUME StoreOK, NEW r \in DOMAIN requests, NEW q \in RequestType,
         requests' = [requests EXCEPT ![r] = q]
  PROVE  /\ requests' \in Seq(RequestType) /\ DOMAIN requests' = DOMAIN requests
         /\ requests'[r] = q
         /\ \A t \in DOMAIN requests : t # r => requests'[t] = requests[t]
BY DEF StoreOK

LEMMA Requested ==
  ASSUME StoreOK, NEW r \in DOMAIN requests
  PROVE  requests[r] \in RequestType /\ requests[r].share \in Shares
         /\ requests[r].user \in Users
<1>1. requests[r] \in RequestType
  BY DEF StoreOK
<1> QED  BY <1>1 DEF RequestType

(* Inside the lock of a publication a request is alone.                       *)
LEMMA Alone ==
  ASSUME IInv, LinesOK, PlacesDiffer, NEW r \in DOMAIN requests, NEW t \in DOMAIN requests,
         requests[r].pc \in Inside, requests[t].pc \in Inside,
         requests[r].share = requests[t].share
  PROVE  r = t
<1> DEFINE i == requests[r].inner
           j == requests[t].inner
<1>1. /\ i \in DOMAIN calls /\ j \in DOMAIN calls /\ calls[i].key = calls[j].key
      /\ calls[i].pc = "holding" /\ calls[j].pc = "holding"
  BY DEF LinesOK, LineOK, InLine
<1>2. ~(i < j) /\ ~(j < i)
  BY <1>1 DEF IInv, Exclusive
<1>3. i \in Nat /\ j \in Nat
  BY <1>1 DEF IInv, TypeOK
<1>4. i = j
  BY <1>2, <1>3
<1> QED  BY <1>4 DEF PlacesDiffer, InLine

(* A step of a request on the files: it stays inside the lock, and changes    *)
(* nothing but its publication.                                               *)
Same(q, p) ==
  /\ q.user = p.user /\ q.share = p.share /\ q.op = p.op
  /\ q.vote = p.vote /\ q.outer = p.outer /\ q.inner = p.inner

WorkLeft(q) ==
  /\ q.op = "publish" /\ q.pc \in Coming =>
       metadata'[q.share] = NoEntry /\ promised'[q.share] = NoReactions
  /\ q.pc = "copied" => q.op = "publish" /\ q.share \in files'
  /\ q.pc = "undoing" => metadata'[q.share] = NoEntry
  /\ q.pc = "read" => q.op # "publish" /\ q.read = metadata'[q.share] /\ q.read # NoEntry

Listed(s) ==
  metadata'[s] # NoEntry =>
    /\ s \in files'
    /\ Counted(metadata'[s].reactions)
    /\ metadata'[s].reactions = promised'[s]

Touches(s) ==
  /\ metadata' \in [Shares -> EntryType] /\ promised' \in [Shares -> ReactionsType]
  /\ \A z \in Shares : z # s =>
       /\ metadata'[z] = metadata[z] /\ promised'[z] = promised[z]
       /\ z \in files' <=> z \in files

MayTouch(p) ==
  \/ metadata'[p.share] = metadata[p.share] /\ promised'[p.share] = promised[p.share]
  \/ metadata[p.share] # NoEntry
  \/ p.op = "publish"

LEMMA WorkKeeps ==
  ASSUME IInv, PInv, NEW r \in DOMAIN requests, NEW q \in RequestType,
         requests' = [requests EXCEPT ![r] = q], Unlocked,
         NEW p, p = requests[r], p.pc \in Inside, q.pc \in Inside,
         Same(q, p), Touches(p.share), MayTouch(p), WorkLeft(q), Listed(p.share)
  PROVE  PInv'
<1>1. /\ requests' \in Seq(RequestType) /\ DOMAIN requests' = DOMAIN requests
      /\ requests'[r] = q
      /\ \A t \in DOMAIN requests : t # r => requests'[t] = requests[t]
  BY Replaces DEF PInv
<1>2. calls' = calls /\ fresh' = fresh
  BY DEF Unlocked
<1>3. \A t \in DOMAIN requests : requests[t].share \in Shares
  BY Requested DEF PInv
<1>4. StoreOK'
  BY <1>1, <1>2 DEF PInv, StoreOK, Touches
<1>5. LinesOK'
  <2>1. LineOK(q, calls)
    BY DEF PInv, LinesOK, LineOK, InLine, Same
  <2> QED  BY <1>1, <1>2, <2>1 DEF PInv, LinesOK
<1>6. PlacesDiffer'
  <2>1. \A t \in DOMAIN requests : requests'[t].inner = requests[t].inner
                                   /\ (InLine(requests'[t]) => InLine(requests[t]))
    BY <1>1 DEF InLine, Same
  <2> QED  BY <1>1, <2>1 DEF PInv, PlacesDiffer
<1>7. DrawnOnce'
  <2>1. p.share \notin fresh /\ \A s \in fresh : s \in Shares
    BY DEF PInv, DrawnOnce, StoreOK
  <2>2. \A s \in fresh : metadata'[s] = NoEntry /\ promised'[s] = NoReactions
    BY <2>1 DEF PInv, DrawnOnce, Touches
  <2> QED  BY <1>1, <1>2, <2>2 DEF PInv, DrawnOnce, Same
<1>8. WorkOK'
  <2> SUFFICES ASSUME NEW t \in DOMAIN requests
               PROVE
                 LET k == requests'[t]
                 IN  /\ k.op = "publish" /\ k.pc \in Coming =>
                          metadata'[k.share] = NoEntry /\ promised'[k.share] = NoReactions
                     /\ k.pc = "copied" => k.op = "publish" /\ k.share \in files'
                     /\ k.op = "react" => k.vote \in {"up", "down"}
                     /\ k.pc = "undoing" => metadata'[k.share] = NoEntry
                     /\ k.pc = "read" => /\ k.op # "publish"
                                         /\ k.read = metadata'[k.share] /\ k.read # NoEntry
    BY <1>1 DEF WorkOK
  <2>1. CASE t = r
    BY <1>1, <2>1 DEF PInv, WorkOK, WorkLeft, Same
  <2>2. CASE t # r /\ requests[t].share # p.share
    BY <1>1, <1>3, <2>2 DEF PInv, WorkOK, Touches
  <2>3. CASE t # r /\ requests[t].share = p.share
    <3>1. requests[t].pc \notin Inside
      BY <2>3, Alone DEF PInv
    <3>2. requests[t].pc \notin {"copied", "undoing", "read"}
      BY <3>1 DEF Inside
    <3>3. ASSUME requests[t].op = "publish", requests[t].pc \in Coming
          PROVE  metadata'[p.share] = NoEntry /\ promised'[p.share] = NoReactions
      <4>1. metadata[p.share] = NoEntry /\ promised[p.share] = NoReactions
        BY <2>3, <3>3 DEF PInv, WorkOK
      <4>2. p.op # "publish"
        BY <2>3, <3>3 DEF PInv, DrawnOnce
      <4> QED  BY <4>1, <4>2 DEF MayTouch
    <3> QED  BY <1>1, <2>3, <3>2, <3>3 DEF PInv, WorkOK
  <2> QED  BY <2>1, <2>2, <2>3
<1>9. ListedOK'
  <2> SUFFICES ASSUME NEW s \in Shares, metadata'[s] # NoEntry
               PROVE  /\ s \in files'
                      /\ Counted(metadata'[s].reactions)
                      /\ metadata'[s].reactions = promised'[s]
    BY DEF ListedOK, Counted
  <2> QED  BY DEF PInv, ListedOK, Listed, Touches
<1> QED  BY <1>4, <1>5, <1>6, <1>7, <1>8, <1>9 DEF PInv

(* A step of a request in the lines: the files stay as they are.              *)
LEMMA LineKeeps ==
  ASSUME PInv, NEW r \in DOMAIN requests, NEW q \in RequestType,
         requests' = [requests EXCEPT ![r] = q],
         UNCHANGED << metadata, files, fresh, promised >>,
         NEW p, p = requests[r], q.share = p.share,
         q.op = "none" \/ (q.op = p.op /\ q.vote = p.vote),
         q.pc \in Coming => p.pc \in Coming,
         q.pc \notin {"copied", "undoing", "read"},
         LineOK(q, calls'),
         \A t \in DOMAIN requests : t # r =>
           /\ LineOK(requests[t], calls')
           /\ InLine(q) /\ InLine(requests[t]) => q.inner # requests[t].inner
  PROVE  PInv'
<1>1. /\ requests' \in Seq(RequestType) /\ DOMAIN requests' = DOMAIN requests
      /\ requests'[r] = q
      /\ \A t \in DOMAIN requests : t # r => requests'[t] = requests[t]
  BY Replaces DEF PInv
<1>2. StoreOK'
  BY <1>1 DEF PInv, StoreOK
<1>3. LinesOK'
  BY <1>1 DEF LinesOK
<1>4. PlacesDiffer'
  BY <1>1 DEF PInv, PlacesDiffer
<1>5. DrawnOnce'
  BY <1>1 DEF PInv, DrawnOnce
<1>6. WorkOK'
  <2>1. ASSUME NEW t \in DOMAIN requests
        PROVE
                 LET k == requests'[t]
                 IN  /\ k.op = "publish" /\ k.pc \in Coming =>
                          metadata[k.share] = NoEntry /\ promised[k.share] = NoReactions
                     /\ k.pc = "copied" => k.op = "publish" /\ k.share \in files
                     /\ k.op = "react" => k.vote \in {"up", "down"}
                     /\ k.pc = "undoing" => metadata[k.share] = NoEntry
                     /\ k.pc = "read" => /\ k.op # "publish"
                                         /\ k.read = metadata[k.share] /\ k.read # NoEntry
    <3>1. CASE t = r
      BY <1>1, <3>1 DEF PInv, WorkOK
    <3>2. CASE t # r
      BY <1>1, <3>2 DEF PInv, WorkOK
    <3> QED  BY <3>1, <3>2
  <2> QED  BY <1>1, <2>1 DEF WorkOK
<1>7. ListedOK'
  BY DEF PInv, ListedOK
<1> QED  BY <1>2, <1>3, <1>4, <1>5, <1>6, <1>7 DEF PInv

(* Whoever holds a lock keeps it unless it is the call that is released.      *)
LEMMA LinesStay ==
  ASSUME NEW k, LineOK(k, calls), NEW n,
         \A i \in DOMAIN calls :
           /\ i \in DOMAIN calls' /\ calls'[i].key = calls[i].key
           /\ i # n /\ calls[i].pc = "holding" => calls'[i].pc = "holding",
         k.pc \in Inside => k.inner # n
  PROVE  LineOK(k, calls')
BY DEF LineOK, InLine

LEMMA LineUpKeeps ==
  ASSUME IInv, PInv, NEW r \in DOMAIN requests, LineUp(r)
  PROVE  IInv' /\ PInv'
<1> DEFINE p == requests[r]
           n == Len(calls) + 1
           q == [p EXCEPT !.pc = "lined up", !.inner = n]
<1>1. /\ p \in RequestType /\ p.share \in Keys /\ p.pc = "admitted" /\ Acquire(p.share)
      /\ UNCHANGED << metadata, files, fresh, promised >>
  BY Requested, KeysAssumption DEF LineUp, PInv
<1>2. /\ calls \in Seq(CallRecords) /\ Len(calls) \in Nat /\ DOMAIN calls = 1 .. Len(calls)
  BY DEF IInv, TypeOK
<1>3. /\ q \in RequestType /\ q.pc = "lined up" /\ q.inner = n /\ q.share = p.share
      /\ q.op = p.op /\ q.vote = p.vote /\ q.outer = p.outer /\ q.user = p.user
  <2>1. n \in Nat /\ "lined up" \in Places
    BY <1>2 DEF Places, Coming
  <2> HIDE DEF n
  <2> QED  BY <1>1, <2>1 DEF RequestType
<1>4. requests' = [requests EXCEPT ![r] = q]
  BY DEF LineUp
<1> HIDE DEF q
<1>5. /\ DOMAIN calls' = 1 .. n /\ n \in DOMAIN calls'
      /\ calls'[n].key = p.share
      /\ \A i \in DOMAIN calls : calls'[i] = calls[i]
  BY <1>1, <1>2 DEF Acquire
<1>6. \A i \in DOMAIN calls : i \in DOMAIN calls' /\ calls'[i].key = calls[i].key
                              /\ calls'[i].pc = calls[i].pc /\ i # n
  BY <1>2, <1>5
<1> HIDE DEF n
<1>7. ASSUME NEW t \in DOMAIN requests
      PROVE  /\ LineOK(requests[t], calls')
             /\ InLine(q) /\ InLine(requests[t]) => q.inner # requests[t].inner
  <2>1. LineOK(requests[t], calls)
    BY DEF PInv, LinesOK
  <2>2. LineOK(requests[t], calls')
    BY <1>6, <2>1 DEF LineOK, InLine
  <2>3. InLine(requests[t]) => requests[t].inner # n
    BY <1>6, <2>1 DEF LineOK
  <2> QED  BY <1>3, <2>2, <2>3
<1>8. LineOK(q, calls')
  <2>1. LineOK(p, calls')
    BY <1>7
  <2> QED  BY <1>3, <1>5, <2>1 DEF LineOK, Inside
<1>9. IInv'
  BY <1>1, AcquireKeeps
<1>10. p.pc \in Coming /\ q.pc \notin {"copied", "undoing", "read"}
  BY <1>1, <1>3 DEF Coming
<1>11. PInv'
  <2>1. \A t \in DOMAIN requests : t # r =>
          /\ LineOK(requests[t], calls')
          /\ InLine(q) /\ InLine(requests[t]) => q.inner # requests[t].inner
    BY <1>7
  <2>2. /\ UNCHANGED << metadata, files, fresh, promised >> /\ q \in RequestType
        /\ q.share = p.share /\ q.op = p.op /\ q.vote = p.vote
    BY <1>1, <1>3
  <2> QED  BY <1>4, <1>8, <1>10, <2>1, <2>2, LineKeeps
<1> QED  BY <1>9, <1>11

LEMMA AdmitKeeps ==
  ASSUME IInv, PInv, NEW r \in DOMAIN requests, Admit(r)
  PROVE  IInv' /\ PInv'
<1> DEFINE p == requests[r]
<1>1. /\ p \in RequestType /\ UNCHANGED << metadata, files, fresh, promised >>
  BY Requested DEF Admit, PInv
<1>2. PICK n \in {p.outer, p.inner}, pc \in {"admitted", "working"} :
        /\ Enter(n) /\ Goto(r, pc) /\ p.pc \in {"queued", "lined up"}
        /\ pc = "admitted" => n = p.outer
        /\ pc = "working" => p.pc = "lined up" /\ n = p.inner
  BY DEF Admit
<1>3. n \in DOMAIN calls
  <2>1. LineOK(p, calls)
    BY DEF PInv, LinesOK
  <2> QED  BY <1>2, <2>1 DEF LineOK, InLine
<1>4. calls' = [calls EXCEPT ![n].pc = "holding"] /\ IInv'
  BY <1>2, <1>3, EnterKeeps DEF Enter
<1>5. /\ DOMAIN calls' = DOMAIN calls
      /\ \A i \in DOMAIN calls : /\ calls'[i].key = calls[i].key
                                 /\ calls'[i].pc = IF i = n THEN "holding" ELSE calls[i].pc
  BY <1>3, <1>4, PcStep
<1> DEFINE q == [p EXCEPT !.pc = pc]
<1>6. /\ q \in RequestType /\ q.pc = pc /\ q.inner = p.inner /\ q.share = p.share
      /\ q.op = p.op /\ q.vote = p.vote /\ q.outer = p.outer /\ q.user = p.user
  BY <1>1, <1>2 DEF RequestType, Places, Coming
<1>7. requests' = [requests EXCEPT ![r] = q]
  BY <1>2 DEF Goto
<1> HIDE DEF q
<1>8. \A t \in DOMAIN requests : LineOK(requests[t], calls')
  <2> SUFFICES ASSUME NEW t \in DOMAIN requests PROVE LineOK(requests[t], calls')
    OBVIOUS
  <2>1. LineOK(requests[t], calls)
    BY DEF PInv, LinesOK
  <2> QED  BY <1>5, <2>1 DEF LineOK, InLine
<1>9. LineOK(q, calls')
  BY <1>2, <1>3, <1>5, <1>6, <1>8 DEF LineOK, InLine, Inside
<1>10. ASSUME NEW t \in DOMAIN requests, t # r, InLine(q), InLine(requests[t])
       PROVE  q.inner # requests[t].inner
  <2>1. InLine(p)
    BY <1>2, <1>6, <1>10 DEF InLine, Inside
  <2> QED  BY <1>6, <1>10, <2>1 DEF PInv, PlacesDiffer
<1>11. p.pc \in Coming /\ q.pc \notin {"copied", "undoing", "read"}
  BY <1>2, <1>6 DEF Coming
<1> QED  BY <1>1, <1>4, <1>6, <1>7, <1>8, <1>9, <1>10, <1>11, LineKeeps

(* The locks of users are not those of publications.                          *)
LEMMA LeaveKeeps ==
  ASSUME IInv, PInv, NEW r \in DOMAIN requests, Leave(r)
  PROVE  IInv' /\ PInv'
<1> DEFINE p == requests[r]
<1>1. /\ p \in RequestType /\ UNCHANGED << metadata, files, fresh, promised >>
      /\ LineOK(p, calls)
  BY Requested DEF Leave, PInv, LinesOK
<1>2. PICK n, q :
        /\ n \in {p.outer, p.inner}
        /\ Release(n) /\ requests' = [requests EXCEPT ![r] = q]
        /\ n = p.outer \/ (n = p.inner /\ p.pc = "leaving")
        /\ q \in {[p EXCEPT !.pc = "ending"], Done(p)}
  BY DEF Leave, Goto
<1>3. /\ q \in RequestType /\ q.pc \in {"ending", "done"} /\ q.share = p.share
      /\ q.op = "none" \/ (q.op = p.op /\ q.vote = p.vote)
      /\ q.outer = p.outer /\ q.user = p.user
  <2>1. CASE q = [p EXCEPT !.pc = "ending"]
    BY <1>1, <2>1 DEF RequestType, Places
  <2>2. CASE q = Done(p)
    <3>1. NoEntry \in EntryType
      BY DEF NoEntry, NoReactions, EntryType, ReactionsType, Votes
    <3> QED  BY <1>1, <2>2, <3>1 DEF RequestType, Places, Done, Votes
  <2> QED  BY <1>2, <2>1, <2>2
<1>4. n \in DOMAIN calls
  BY <1>1, <1>2 DEF LineOK, InLine, Inside
<1>5. calls' = [calls EXCEPT ![n].pc = "released"] /\ IInv'
  BY <1>2, <1>4, ReleaseKeeps DEF Release
<1>6. /\ DOMAIN calls' = DOMAIN calls
      /\ \A i \in DOMAIN calls : /\ calls'[i].key = calls[i].key
                                 /\ calls'[i].pc = IF i = n THEN "released" ELSE calls[i].pc
  BY <1>4, <1>5, PcStep
<1>7. ASSUME NEW t \in DOMAIN requests, t # r PROVE LineOK(requests[t], calls')
  <2>1. LineOK(requests[t], calls)
    BY DEF PInv, LinesOK
  <2>2. ASSUME requests[t].pc \in Inside PROVE requests[t].inner # n
    <3>1. CASE n = p.outer
      <4>1. calls[n].key \in Users
        BY <1>1, <3>1, Requested DEF LineOK, PInv
      <4>2. calls[requests[t].inner].key \in Shares
        BY <2>1, <2>2, Requested DEF LineOK, InLine, PInv
      <4> QED  BY <4>1, <4>2, KeysAssumption
    <3>2. CASE n = p.inner /\ p.pc = "leaving"
      <4>1. InLine(p) /\ InLine(requests[t])
        BY <2>2, <3>2 DEF InLine, Inside
      <4> QED  BY <1>7, <3>2, <4>1 DEF PInv, PlacesDiffer
    <3> QED  BY <1>2, <3>1, <3>2
  <2> QED  BY <1>6, <2>1, <2>2, LinesStay
<1>8. ~InLine(q) /\ q.pc \notin Inside \cup Coming
  BY <1>3 DEF InLine, Inside, Coming
<1>9. LineOK(q, calls')
  BY <1>1, <1>3, <1>6, <1>8 DEF LineOK
<1>10. q.pc \notin {"copied", "undoing", "read"}
  BY <1>3
<1> QED  BY <1>1, <1>2, <1>3, <1>5, <1>7, <1>8, <1>9, <1>10, LineKeeps

LEMMA ArriveKeeps ==
  ASSUME IInv, PInv, NEW u \in Users, NEW s \in Shares,
         NEW op \in {"publish", "react", "withdraw"}, NEW vote \in Votes,
         op = "react" => vote \in {"up", "down"}, Arrive(u, op, s, vote)
  PROVE  IInv' /\ PInv'
<1> DEFINE n == Len(calls) + 1
           q == [ user |-> u, op |-> op, share |-> s, vote |-> vote, pc |-> "queued",
                  outer |-> n, inner |-> 0, read |-> NoEntry ]
           m == Len(requests) + 1
<1>1. /\ Acquire(u) /\ u \in Keys /\ (op = "publish" <=> s \in fresh)
      /\ fresh' = fresh \ {s} /\ requests' = Append(requests, q)
      /\ UNCHANGED << metadata, files, promised >>
  BY KeysAssumption DEF Arrive
<1>2. /\ calls \in Seq(CallRecords) /\ Len(calls) \in Nat /\ DOMAIN calls = 1 .. Len(calls)
      /\ requests \in Seq(RequestType) /\ DOMAIN requests = 1 .. Len(requests)
      /\ Len(requests) \in Nat
  BY DEF IInv, TypeOK, PInv, StoreOK
<1>3. NoEntry \in EntryType
  BY DEF NoEntry, NoReactions, EntryType, ReactionsType, Votes
<1>4. q \in RequestType
  <2>1. n \in Nat /\ 0 \in Nat /\ "queued" \in Places
    BY <1>2 DEF Places, Coming
  <2> HIDE DEF n
  <2> QED  BY <1>3, <2>1 DEF RequestType
<1>5. /\ q.user = u /\ q.op = op /\ q.share = s /\ q.pc = "queued" /\ q.outer = n
      /\ q.vote = vote
  OBVIOUS
<1> HIDE DEF q
<1>6. /\ requests' \in Seq(RequestType) /\ DOMAIN requests' = 1 .. m
      /\ requests'[m] = q /\ \A t \in DOMAIN requests : requests'[t] = requests[t]
  BY <1>1, <1>2, <1>4
<1>7. /\ DOMAIN calls' = 1 .. n
      /\ calls'[n].key = u
      /\ \A i \in DOMAIN calls : calls'[i] = calls[i]
  BY <1>1, <1>2 DEF Acquire
<1>8. \A t \in DOMAIN requests' : t \in DOMAIN requests \/ t = m
  BY <1>2, <1>6
<1>9. StoreOK'
  BY <1>1, <1>6 DEF PInv, StoreOK
<1>10. LinesOK'
  <2>1. \A i \in DOMAIN calls : i \in DOMAIN calls'
    BY <1>2, <1>7
  <2>2. ASSUME NEW t \in DOMAIN requests PROVE LineOK(requests[t], calls')
    BY <1>7, <2>1 DEF PInv, LinesOK, LineOK, InLine
  <2>3. LineOK(q, calls')
    BY <1>2, <1>5, <1>7 DEF LineOK, InLine, Inside
  <2> QED  BY <1>6, <1>8, <2>2, <2>3 DEF LinesOK
<1>11. PlacesDiffer'
  <2>1. ~InLine(q)
    BY <1>5 DEF InLine, Inside
  <2> QED  BY <1>6, <1>8, <2>1 DEF PInv, PlacesDiffer
<1>12. DrawnOnce'
  <2>1. \A t \in DOMAIN requests : requests[t].share \notin fresh
    BY DEF PInv, DrawnOnce
  <2>2. \A t \in DOMAIN requests' : requests'[t].share \notin fresh'
    BY <1>1, <1>5, <1>6, <1>8, <2>1
  <2>3. \A k, t \in DOMAIN requests' :
          /\ requests'[k].op = "publish" /\ requests'[t].op = "publish"
          /\ requests'[k].share = requests'[t].share
          => k = t
    BY <1>1, <1>5, <1>6, <1>8, <2>1 DEF PInv, DrawnOnce
  <2> QED  BY <1>1, <2>2, <2>3 DEF PInv, DrawnOnce
<1>13. WorkOK'
  <2>1. ASSUME NEW t \in DOMAIN requests'
        PROVE
                 LET k == requests'[t]
                 IN  /\ k.op = "publish" /\ k.pc \in Coming =>
                          metadata[k.share] = NoEntry /\ promised[k.share] = NoReactions
                     /\ k.pc = "copied" => k.op = "publish" /\ k.share \in files
                     /\ k.op = "react" => k.vote \in {"up", "down"}
                     /\ k.pc = "undoing" => metadata[k.share] = NoEntry
                     /\ k.pc = "read" => /\ k.op # "publish"
                                         /\ k.read = metadata[k.share] /\ k.read # NoEntry
    <3>1. CASE t = m
      <4>1. op = "publish" => metadata[s] = NoEntry /\ promised[s] = NoReactions
        BY <1>1 DEF PInv, DrawnOnce
      <4> QED  BY <1>5, <1>6, <3>1, <4>1
    <3>2. CASE t \in DOMAIN requests
      BY <1>6, <3>2 DEF PInv, WorkOK
    <3> QED  BY <1>8, <3>1, <3>2
  <2> QED  BY <1>1, <2>1 DEF WorkOK
<1>14. ListedOK'
  BY <1>1 DEF PInv, ListedOK
<1>15. IInv'
  BY <1>1, AcquireKeeps
<1> QED  BY <1>9, <1>10, <1>11, <1>12, <1>13, <1>14, <1>15 DEF PInv

(* A reaction keeps the counters the votes. Voters are those of one vote.     *)
Voters(x, v) == { u \in Users : x.votes[u] = v }

(* A vote is taken back, replaced in the file, and counted.                   *)
LEMMA Withdrawn ==
  ASSUME NEW x \in ReactionsType, NEW v \in {"up", "down"}, x[v] # 0
  PROVE  LET w == [x EXCEPT ![v] = IF @ = 0 THEN 0 ELSE @ - 1]
         IN  /\ w \in ReactionsType /\ w.votes = x.votes
             /\ w[v] = x[v] - 1 /\ \A z \in {"up", "down"} \ {v} : w[z] = x[z]
<1>1. CASE v = "up"
  <2> DEFINE w == [x EXCEPT !.up = x.up - 1]
  <2>1. w \in ReactionsType /\ w.votes = x.votes /\ w.up = x.up - 1 /\ w.down = x.down
    BY <1>1 DEF ReactionsType
  <2>2. [x EXCEPT ![v] = IF @ = 0 THEN 0 ELSE @ - 1] = w
    BY <1>1
  <2> HIDE DEF w
  <2> QED  BY <1>1, <2>1, <2>2
<1>2. CASE v = "down"
  <2> DEFINE w == [x EXCEPT !.down = x.down - 1]
  <2>1. w \in ReactionsType /\ w.votes = x.votes /\ w.down = x.down - 1 /\ w.up = x.up
    BY <1>2 DEF ReactionsType
  <2>2. [x EXCEPT ![v] = IF @ = 0 THEN 0 ELSE @ - 1] = w
    BY <1>2
  <2> HIDE DEF w
  <2> QED  BY <1>2, <2>1, <2>2
<1> QED  BY <1>1, <1>2

LEMMA Revoted ==
  ASSUME NEW w \in ReactionsType, NEW u \in Users, NEW now \in Votes
  PROVE  LET y == [w EXCEPT !.votes[u] = now]
         IN  /\ y \in ReactionsType /\ y.votes = [w.votes EXCEPT ![u] = now]
             /\ \A z \in {"up", "down"} : y[z] = w[z]
BY DEF ReactionsType

LEMMA Added ==
  ASSUME NEW w \in ReactionsType, NEW v \in {"up", "down"}
  PROVE  LET y == [w EXCEPT ![v] = @ + 1]
         IN  /\ y \in ReactionsType /\ y.votes = w.votes
             /\ y[v] = w[v] + 1 /\ \A z \in {"up", "down"} \ {v} : y[z] = w[z]
<1>1. CASE v = "up"
  BY <1>1 DEF ReactionsType
<1>2. CASE v = "down"
  BY <1>2 DEF ReactionsType
<1> QED  BY <1>1, <1>2

LEMMA ReactedCounts ==
  ASSUME NEW x \in ReactionsType, Counted(x), NEW u \in Users, NEW vote \in {"up", "down"}
  PROVE  Reacted(x, u, vote) \in ReactionsType /\ Counted(Reacted(x, u, vote))
<1> DEFINE previous == x.votes[u]
           y == Reacted(x, u, vote)
           now == IF vote = previous THEN "none" ELSE vote
<1>1. previous \in Votes /\ x.up \in Nat /\ x.down \in Nat /\ now \in Votes /\ vote \in Votes
  BY DEF ReactionsType, Votes
<1>2. ASSUME NEW v \in {"up", "down"}
      PROVE  /\ IsFiniteSet(Voters(x, v)) /\ x[v] = Cardinality(Voters(x, v))
             /\ x[v] \in Nat
  <2>1. IsFiniteSet(Voters(x, v))
    BY KeysAssumption, FS_Subset DEF Voters
  <2> QED  BY <1>1, <2>1 DEF Counted, Voters
<1>3. previous # "none" => previous \in {"up", "down"} /\ x[previous] # 0
  <2> SUFFICES ASSUME previous # "none" PROVE previous \in {"up", "down"} /\ x[previous] # 0
    OBVIOUS
  <2>1. u \in Voters(x, previous) /\ previous \in {"up", "down"}
    BY <1>1 DEF Voters, Votes
  <2> QED  BY <1>2, <2>1, FS_EmptySet
<1> DEFINE w == IF previous = "none" THEN x
                ELSE [x EXCEPT ![previous] = IF @ = 0 THEN 0 ELSE @ - 1]
           z == [w EXCEPT !.votes[u] = now]
<1>4. /\ w \in ReactionsType /\ w.votes = x.votes
      /\ \A v \in {"up", "down"} : w[v] = IF previous = v THEN x[v] - 1 ELSE x[v]
  <2>1. CASE previous = "none"
    BY <2>1
  <2>2. CASE previous # "none"
    <3> DEFINE k == [x EXCEPT ![previous] = IF @ = 0 THEN 0 ELSE @ - 1]
    <3>1. w = k
      BY <2>2
    <3>2. /\ k \in ReactionsType /\ k.votes = x.votes /\ k[previous] = x[previous] - 1
          /\ \A v \in {"up", "down"} \ {previous} : k[v] = x[v]
      BY <1>3, <2>2, Withdrawn
    <3> HIDE DEF k, w
    <3> QED  BY <3>1, <3>2
  <2> QED  BY <2>1, <2>2
<1>5. y = IF vote = previous THEN z ELSE [z EXCEPT ![vote] = @ + 1]
  BY DEF Reacted
<1> HIDE DEF y, w
<1>6. /\ z \in ReactionsType /\ z.votes = [x.votes EXCEPT ![u] = now]
      /\ \A v \in {"up", "down"} : z[v] = w[v]
  BY <1>1, <1>4, Revoted
<1> HIDE DEF z
<1>7. /\ y \in ReactionsType /\ y.votes = [x.votes EXCEPT ![u] = now]
      /\ \A v \in {"up", "down"} :
           y[v] = IF previous = v THEN x[v] - 1 ELSE IF vote = v THEN x[v] + 1 ELSE x[v]
  <2>1. CASE vote = previous
    BY <1>4, <1>5, <1>6, <2>1
  <2>2. CASE vote # previous
    <3> DEFINE k == [z EXCEPT ![vote] = @ + 1]
    <3>1. y = k
      BY <1>5, <2>2
    <3>2. /\ k \in ReactionsType /\ k.votes = z.votes /\ k[vote] = z[vote] + 1
          /\ \A v \in {"up", "down"} \ {vote} : k[v] = z[v]
      BY <1>6, Added
    <3> HIDE DEF k
    <3> QED  BY <1>4, <1>6, <2>2, <3>1, <3>2
  <2> QED  BY <2>1, <2>2
<1>8. ASSUME NEW v \in {"up", "down"} PROVE y[v] = Cardinality(Voters(y, v))
  <2>1. x.votes \in [Users -> Votes] /\ v # "none"
    BY DEF ReactionsType
  <2>2. CASE previous = v
    <3>1. Voters(y, v) = Voters(x, v) \ {u} /\ u \in Voters(x, v)
      BY <1>7, <2>1, <2>2 DEF Voters
    <3>2. Cardinality(Voters(x, v) \ {u}) = Cardinality(Voters(x, v)) - 1
      BY <1>2, <3>1, FS_RemoveElement
    <3> QED  BY <1>2, <1>7, <2>2, <3>1, <3>2
  <2>3. CASE previous # v /\ vote = v
    <3>1. Voters(y, v) = Voters(x, v) \cup {u} /\ u \notin Voters(x, v)
      BY <1>7, <2>1, <2>3 DEF Voters
    <3>2. Cardinality(Voters(x, v) \cup {u}) = Cardinality(Voters(x, v)) + 1
      BY <1>2, <3>1, FS_AddElement
    <3> QED  BY <1>2, <1>7, <2>3, <3>1, <3>2
  <2>4. CASE previous # v /\ vote # v
    <3>1. Voters(y, v) = Voters(x, v)
      BY <1>7, <2>1, <2>4 DEF Voters
    <3> QED  BY <1>2, <1>7, <2>4, <3>1
  <2> QED  BY <2>2, <2>3, <2>4
<1>9. Counted(y)
  BY <1>8 DEF Counted, Voters
<1> QED  BY <1>7, <1>9 DEF y

LEMMA NobodyVoted == NoReactions \in ReactionsType /\ Counted(NoReactions)
<1>1. NoReactions \in ReactionsType
  BY DEF NoReactions, ReactionsType, Votes
<1>2. \A v \in {"up", "down"} : { u \in Users : NoReactions.votes[u] = v } = {}
  BY DEF NoReactions
<1> QED  BY <1>1, <1>2, FS_EmptySet DEF Counted, NoReactions

(* The steps inside the lock of a publication.                                *)
LEMMA FilesKeep ==
  ASSUME IInv, PInv, NEW r \in DOMAIN requests,
         \/ Copy(r) \/ WriteEntry(r) \/ PublishFails(r) \/ Sweep(r) \/ Read(r)
         \/ Unlink(r) \/ WriteReaction(r) \/ RequestFails(r)
  PROVE  IInv' /\ PInv'
<1> DEFINE p == requests[r]
           s == p.share
<1>1. /\ p \in RequestType /\ s \in Shares /\ p.user \in Users
      /\ metadata \in [Shares -> EntryType] /\ promised \in [Shares -> ReactionsType]
  BY Requested DEF PInv, StoreOK
<1>2. /\ p.op = "publish" /\ p.pc \in Coming =>
           metadata[s] = NoEntry /\ promised[s] = NoReactions
      /\ p.pc = "copied" => p.op = "publish" /\ s \in files
      /\ p.op = "react" => p.vote \in {"up", "down"}
      /\ p.pc = "undoing" => metadata[s] = NoEntry
      /\ p.pc = "read" => p.op # "publish" /\ p.read = metadata[s] /\ p.read # NoEntry
      /\ metadata[s] # NoEntry => /\ s \in files
                                  /\ Counted(metadata[s].reactions)
                                  /\ metadata[s].reactions = promised[s]
  BY <1>1 DEF PInv, WorkOK, ListedOK
<1>3. Unlocked
  BY DEF Copy, WriteEntry, PublishFails, Sweep, Read, Unlink, WriteReaction, RequestFails
<1>4. IInv'
  <2>1. UNCHANGED vars
    BY <1>3 DEF Unlocked, vars
  <2> QED  BY <2>1 DEF vars, IInv, TypeOK, Chained, Exclusive
<1>5. ASSUME NEW pc \in Inside
      PROVE  LET q == [p EXCEPT !.pc = pc]
             IN  q \in RequestType /\ q.pc = pc /\ Same(q, p) /\ q.read = p.read
  BY <1>1 DEF RequestType, Places, Same
<1>6. ASSUME NEW pc \in {"undoing", "leaving"}, Goto(r, pc), p.pc \in Inside,
             Touches(s), MayTouch(p), Listed(s),
             pc = "undoing" => metadata'[s] = NoEntry
      PROVE  PInv'
  <2> DEFINE q == [p EXCEPT !.pc = pc]
  <2>1. q \in RequestType /\ q.pc = pc /\ Same(q, p) /\ requests' = [requests EXCEPT ![r] = q]
    BY <1>5, <1>6 DEF Goto, Inside
  <2> HIDE DEF q
  <2>2. q.pc \in Inside
    BY <2>1 DEF Inside
  <2>3. WorkLeft(q)
    BY <1>6, <2>1 DEF WorkLeft, Same, Coming
  <2> QED  BY <1>3, <1>6, <2>1, <2>2, <2>3, WorkKeeps
<1>7. ASSUME UNCHANGED << metadata, promised >>,
             \A z \in Shares : z # s => (z \in files' <=> z \in files),
             metadata[s] # NoEntry => s \in files'
      PROVE  Touches(s) /\ MayTouch(p) /\ Listed(s)
  BY <1>1, <1>2, <1>7 DEF Touches, MayTouch, Listed
<1>8. CASE PublishFails(r)
  <2>1. /\ p.op = "publish" /\ p.pc \in {"working", "copied"} /\ Goto(r, "undoing")
        /\ UNCHANGED << metadata, files, promised >>
    BY <1>8 DEF PublishFails
  <2>2. p.pc \in Inside /\ metadata'[s] = NoEntry
    BY <1>2, <2>1 DEF Inside, Coming
  <2>3. Touches(s) /\ MayTouch(p) /\ Listed(s)
    BY <1>2, <1>7, <2>1
  <2> QED  BY <1>4, <1>6, <2>1, <2>2, <2>3
<1>9. CASE Sweep(r)
  <2>1. /\ p.pc = "undoing" /\ Goto(r, "leaving") /\ UNCHANGED << metadata, promised >>
        /\ files' = files \/ files' = files \ {s}
    BY <1>9 DEF Sweep
  <2>2. p.pc \in Inside /\ metadata[s] = NoEntry
    BY <1>2, <2>1 DEF Inside
  <2>3. Touches(s) /\ MayTouch(p) /\ Listed(s)
    BY <1>7, <2>1, <2>2
  <2> QED  BY <1>4, <1>6, <2>1, <2>2, <2>3
<1>10. CASE RequestFails(r)
  <2>1. p.pc = "read" /\ Goto(r, "leaving") /\ UNCHANGED << metadata, files, promised >>
    BY <1>10 DEF RequestFails
  <2>2. p.pc \in Inside
    BY <2>1 DEF Inside
  <2>3. Touches(s) /\ MayTouch(p) /\ Listed(s)
    BY <1>2, <1>7, <2>1
  <2> QED  BY <1>4, <1>6, <2>1, <2>2, <2>3
<1>11. CASE Copy(r)
  <2> DEFINE q == [p EXCEPT !.pc = "copied"]
  <2>1. q \in RequestType /\ q.pc = "copied" /\ Same(q, p)
    BY <1>5 DEF Inside
  <2>2. /\ requests' = [requests EXCEPT ![r] = q] /\ p.op = "publish" /\ p.pc = "working"
        /\ metadata' = metadata /\ promised' = promised /\ files' = files \cup {s}
    BY <1>11 DEF Copy, Goto, At
  <2> HIDE DEF q
  <2>3. p.pc \in Inside /\ q.pc \in Inside /\ p.pc \in Coming
    BY <2>1, <2>2 DEF Inside, Coming
  <2>4. Touches(s) /\ MayTouch(p) /\ Listed(s)
    BY <1>2, <1>7, <2>2
  <2>5. WorkLeft(q)
    BY <1>2, <2>1, <2>2, <2>3 DEF WorkLeft, Same
  <2> QED  BY <1>3, <1>4, <2>1, <2>2, <2>3, <2>4, <2>5, WorkKeeps
<1>12. CASE WriteEntry(r)
  <2>1. /\ p.op = "publish" /\ p.pc = "copied" /\ Goto(r, "leaving")
        /\ metadata' = [metadata EXCEPT ![s] = Entry(p.user)]
        /\ promised' = promised /\ files' = files
    BY <1>12 DEF WriteEntry, At
  <2>2. p.pc \in Inside /\ promised[s] = NoReactions /\ s \in files
    BY <1>2, <2>1 DEF Inside, Coming
  <2>3. Entry(p.user) \in EntryType /\ Entry(p.user).reactions = NoReactions
    BY <1>1, NobodyVoted DEF Entry, EntryType
  <2>4. /\ metadata' \in [Shares -> EntryType] /\ metadata'[s] = Entry(p.user)
        /\ \A z \in Shares : z # s => metadata'[z] = metadata[z]
    BY <1>1, <2>1, <2>3
  <2>5. Touches(s) /\ MayTouch(p)
    BY <1>1, <2>1, <2>4 DEF Touches, MayTouch
  <2>6. Listed(s)
    BY <2>1, <2>2, <2>3, <2>4, NobodyVoted DEF Listed
  <2> QED  BY <1>4, <1>6, <2>1, <2>2, <2>5, <2>6
<1>13. CASE Unlink(r)
  <2>1. /\ p.pc = "read" /\ Goto(r, "undoing")
        /\ metadata' = [metadata EXCEPT ![s] = NoEntry]
        /\ promised' = promised /\ files' = files
    BY <1>13 DEF Unlink, At
  <2>2. p.pc \in Inside /\ metadata[s] # NoEntry
    BY <1>2, <2>1 DEF Inside
  <2>3. NoEntry \in EntryType
    BY NobodyVoted DEF NoEntry, EntryType
  <2>4. /\ metadata' \in [Shares -> EntryType] /\ metadata'[s] = NoEntry
        /\ \A z \in Shares : z # s => metadata'[z] = metadata[z]
    BY <1>1, <2>1, <2>3
  <2>5. Touches(s) /\ MayTouch(p) /\ Listed(s)
    BY <1>1, <2>1, <2>2, <2>4 DEF Touches, MayTouch, Listed
  <2> QED  BY <1>4, <1>6, <2>1, <2>2, <2>4, <2>5
<1>14. CASE WriteReaction(r)
  <2> DEFINE x == Reacted(metadata[s].reactions, p.user, p.vote)
             e == [metadata[s] EXCEPT !.reactions = x]
  <2>1. /\ p.op = "react" /\ p.pc = "read" /\ Goto(r, "leaving") /\ files' = files
        /\ metadata' = [metadata EXCEPT ![s] = [p.read EXCEPT !.reactions = Reacted(@, p.user, p.vote)]]
        /\ promised' = [promised EXCEPT ![s] = Reacted(@, p.user, p.vote)]
    BY <1>14 DEF WriteReaction, At
  <2>2. /\ p.read = metadata[s] /\ metadata[s] # NoEntry /\ p.pc \in Inside
        /\ s \in files
    BY <1>2, <2>1 DEF Inside
  <2>3. metadata[s] \in EntryType /\ metadata[s].reactions \in ReactionsType
    BY <1>1 DEF EntryType
  <2>4. x \in ReactionsType /\ Counted(x)
    BY <1>1, <1>2, <2>1, <2>2, <2>3, ReactedCounts
  <2>5. metadata' = [metadata EXCEPT ![s] = e] /\ promised' = [promised EXCEPT ![s] = x]
    BY <1>1, <1>2, <2>1, <2>2
  <2> HIDE DEF x
  <2>6. e \in EntryType /\ e.reactions = x
    BY <2>3, <2>4 DEF EntryType
  <2> HIDE DEF e
  <2>7. /\ metadata' \in [Shares -> EntryType] /\ metadata'[s] = e
        /\ promised' \in [Shares -> ReactionsType] /\ promised'[s] = x
        /\ \A z \in Shares : z # s => metadata'[z] = metadata[z] /\ promised'[z] = promised[z]
    BY <1>1, <2>4, <2>5, <2>6
  <2>8. Touches(s) /\ MayTouch(p) /\ Listed(s)
    BY <2>1, <2>2, <2>4, <2>6, <2>7 DEF Touches, MayTouch, Listed
  <2> QED  BY <1>4, <1>6, <2>1, <2>2, <2>8
<1>15. CASE Read(r)
  <2> DEFINE e == metadata[s]
             goes == e # NoEntry /\ (p.op = "withdraw" => e.owner = p.user)
             pc == IF goes THEN "read" ELSE "leaving"
             q == [p EXCEPT !.read = e, !.pc = pc]
  <2>1. /\ p.op # "publish" /\ p.pc = "working" /\ requests' = [requests EXCEPT ![r] = q]
        /\ metadata' = metadata /\ promised' = promised /\ files' = files
    BY <1>15 DEF Read
  <2>2. e \in EntryType
    BY <1>1
  <2>3. pc \in Places /\ pc \in {"read", "leaving"} /\ (pc = "read" => e # NoEntry)
    BY DEF Places, Inside
  <2>4. e = metadata[s]
    OBVIOUS
  <2> HIDE DEF pc, e
  <2>5. q \in RequestType /\ q.pc = pc /\ Same(q, p) /\ q.read = e
    BY <1>1, <2>2, <2>3 DEF RequestType, Same
  <2> HIDE DEF q
  <2>6. p.pc \in Inside /\ q.pc \in Inside
    BY <2>1, <2>3, <2>5 DEF Inside
  <2>7. WorkLeft(q)
    BY <2>1, <2>3, <2>4, <2>5 DEF WorkLeft, Same
  <2>8. Touches(s) /\ MayTouch(p) /\ Listed(s)
    BY <1>2, <1>7, <2>1
  <2> QED  BY <1>3, <1>4, <2>1, <2>5, <2>6, <2>7, <2>8, WorkKeeps
<1> QED  BY <1>4, <1>8, <1>9, <1>10, <1>11, <1>12, <1>13, <1>14, <1>15

LEMMA InitIsListed == PInit => IInv /\ PInv
<1> SUFFICES ASSUME PInit PROVE IInv /\ PInv
  OBVIOUS
<1>1. IInv
  BY InitKeeps DEF PInit
<1>2. DOMAIN requests = {} /\ requests \in Seq(RequestType) /\ fresh = Shares
  BY DEF PInit
<1>3. NoEntry \in EntryType /\ NoReactions \in ReactionsType
  BY NobodyVoted DEF NoEntry, EntryType
<1>4. StoreOK
  BY <1>2, <1>3 DEF PInit, StoreOK
<1> QED  BY <1>1, <1>2, <1>4
         DEF PInit, PInv, LinesOK, PlacesDiffer, DrawnOnce, WorkOK, ListedOK

LEMMA PNextKeeps == IInv /\ PInv /\ [PNext]_pvars => IInv' /\ PInv'
<1> SUFFICES ASSUME IInv, PInv, [PNext]_pvars PROVE IInv' /\ PInv'
  OBVIOUS
<1>1. CASE UNCHANGED pvars
  <2>1. IInv'
    BY <1>1 DEF pvars, IInv, TypeOK, Chained, Exclusive
  <2>2. StoreOK' /\ LinesOK' /\ PlacesDiffer' /\ DrawnOnce' /\ WorkOK' /\ ListedOK'
    BY <1>1 DEF pvars, PInv, StoreOK, LinesOK, PlacesDiffer, DrawnOnce, WorkOK, ListedOK
  <2> QED  BY <2>1, <2>2 DEF PInv
<1>2. ASSUME NEW u \in Users, NEW s \in Shares,
             \/ Arrive(u, "publish", s, "none")
             \/ \E vote \in {"up", "down"} : Arrive(u, "react", s, vote)
             \/ Arrive(u, "withdraw", s, "none")
      PROVE  IInv' /\ PInv'
  BY <1>2, ArriveKeeps DEF Votes
<1>3. ASSUME NEW r \in DOMAIN requests, Step(r) PROVE IInv' /\ PInv'
  BY <1>3, LineUpKeeps, AdmitKeeps, LeaveKeeps, FilesKeep DEF Step
<1> QED  BY <1>1, <1>2, <1>3 DEF PNext

(* The invariant of the public square: while a request is inside the lock of  *)
(* its publication, what it read is what is stored.                           *)
THEOREM SquareInvariant == PSpec => [](IInv /\ PInv)
BY InitIsListed, PNextKeeps, PTL DEF PSpec

(* A publication that is listed has its image and true counters, however many *)
(* publications, withdrawals and reactions run beside it and fail.            *)
THEOREM ListedStaysWhole == PSpec => []ListedIsWhole
<1>1. PInv => ListedIsWhole
  BY DEF PInv, ListedOK, ListedIsWhole, Published, Counted
<1> QED  BY <1>1, SquareInvariant, PTL

(* No reaction is lost: what is stored is every reaction that was answered as *)
(* done, one after the other.                                                 *)
THEOREM NoReactionIsLost == PSpec => []ReactionsKept
<1>1. PInv => ReactionsKept
  BY DEF PInv, ListedOK, ReactionsKept, Published
<1> QED  BY <1>1, SquareInvariant, PTL
===============================================================================
