----------------------------- MODULE JobFollower -----------------------------
(* A browser that follows a generation job of the Go server: the event        *)
(* request (handleGenerationJobEvents: a snapshot of the record, then replay, *)
(* then live events) and the effect of the web client that reads it, shows    *)
(* what it reads, and connects again a bounded number of times                *)
(* (apps/web/src/workstation/generation/useGenerationWorkspace.js).           *)
(*                                                                            *)
(* One browser tab follows one job; the server of GoJobs goes on meanwhile.   *)
EXTENDS GoJobs, FiniteSetsExt

CONSTANTS
  Tab,           \* the subscriber
  WireCapacity,  \* frames the connection holds before the handler has to wait
  Attempts       \* connections tried before the client gives up (3)

ASSUME FollowerAssumption ==
  /\ Tab \in Subscribers
  /\ WireCapacity \in Nat \ {0}
  /\ Attempts \in Nat \ {0}

VARIABLES
  web,   \* the effect: where it is, the job shown, the last event seen
  sse,   \* the handler of its event request: none, about to subscribe, streaming
  wire   \* frames sent and not read

fvars == <<web, sse, wire>>
allVars == <<vars, web, sse, wire>>

(* lastEvent is the sequence to resume after. issued and foreign are history: *)
(* the process that numbered it, and whether the subscription resumed after a *)
(* number of a former process.                                                *)
NoTab == [pc |-> "idle", job |-> NoJob, shown |-> "", lastEvent |-> 0,
          issued |-> 0, foreign |-> FALSE, attempt |-> 0]

FInit ==
  /\ Init
  /\ web = NoTab
  /\ sse = "none"
  /\ wire = <<>>

Channel == streams[web.job].channel[Tab]

(* The request's context is done: the handler returns and unsubscribes.       *)
HangUp ==
  /\ sse' = "none"
  /\ wire' = <<>>
  /\ streams' = [streams EXCEPT ![web.job] = Unsubscribed(@, Tab)]

StoreUnchanged == UNCHANGED <<record, order, calls, executionCancels, sent, requests, restarts,
                             failures>>

-------------------------------------------------------------------------------
(* The workstation shows an active job, just created or found after a reload. *)
Follow(j) ==
  /\ web.pc = "idle"
  /\ record[j].status \in Active
  /\ web' = [NoTab EXCEPT !.pc = "connect", !.job = j, !.shown = record[j].status]
  /\ UNCHANGED <<vars, sse, wire>>

(* The handler reads the record and sends it; a record that is gone is a 404. *)
Connect ==
  /\ web.pc = "connect"
  /\ IF Found(web.job)
     THEN /\ web' = [web EXCEPT !.pc = "read"]
          /\ sse' = "snapshot"
          /\ wire' = <<[sequence |-> 0, status |-> record[web.job].status]>>
     ELSE /\ web' = [web EXCEPT !.pc = "lost"]
          /\ UNCHANGED <<sse, wire>>
  /\ UNCHANGED vars

Subscribe ==
  /\ sse = "snapshot"
  /\ sse' = "stream"
  /\ streams' = [streams EXCEPT ![web.job] = Subscribed(@, Tab, web.lastEvent)]
  /\ web' = [web EXCEPT !.foreign = web.lastEvent # 0 /\ web.issued # restarts]
  /\ UNCHANGED wire
  /\ StoreUnchanged

(* The loop of the handler: a received event becomes a frame.                 *)
Send ==
  /\ sse = "stream"
  /\ Channel.events # <<>>
  /\ Len(wire) < WireCapacity
  /\ LET event == Head(Channel.events)
     IN  wire' = Append(wire, [sequence |-> event.sequence, status |-> event.status])
  /\ streams' = [streams EXCEPT ![web.job] = Received(@, Tab)]
  /\ UNCHANGED <<web, sse>>
  /\ StoreUnchanged

(* What onEvent does to the effect for each frame of a chunk, in order. A     *)
(* frame without the job's record only moves the cursor.                      *)
Shown(shown, chunk) ==
  LET named == {i \in DOMAIN chunk : chunk[i].status # ""}
  IN  IF named = {} THEN shown ELSE chunk[Max(named)].status

(* Wrong: a canceled job is taken for an active one.                          *)
Settles_Wrong(chunk) ==
  \E i \in DOMAIN chunk : chunk[i].status \in {"completed", "failed"}

Settles(chunk) == \E i \in DOMAIN chunk : chunk[i].status \in Terminal

LastEvent(chunk) == Max({web.lastEvent} \cup {chunk[i].sequence : i \in DOMAIN chunk})

(* A chunk with a settled record ends the effect: it aborts the request, but  *)
(* the rest of the chunk has been handed to onEvent as well.                  *)
Read ==
  /\ web.pc = "read"
  /\ \E n \in 1 .. Len(wire) :
          LET chunk == SubSeq(wire, 1, n)
              last == LastEvent(chunk)
          IN  /\ web' = [web EXCEPT
                   !.pc = IF Settles(chunk) THEN "done" ELSE "read",
                   !.shown = Shown(@, chunk),
                   !.lastEvent = last,
                   !.issued = IF last = web.lastEvent THEN @ ELSE restarts]
              /\ IF Settles(chunk) THEN HangUp
                 ELSE /\ wire' = SubSeq(wire, n + 1, Len(wire))
                      /\ UNCHANGED <<sse, streams>>
  /\ StoreUnchanged

(* The connection breaks; frames on the way are lost.                         *)
Break ==
  /\ web.pc = "read"
  /\ web' = [web EXCEPT !.pc = "lost"]
  /\ HangUp
  /\ StoreUnchanged

(* After a stream that ended: getJob, which may fail, then another attempt.   *)
Refetch ==
  /\ web.pc = "lost"
  /\ LET again == [web EXCEPT !.attempt = @ + 1,
                     !.pc = IF web.attempt + 1 < Attempts THEN "connect" ELSE "interrupted"]
         status == record[web.job].status
     IN  \/ web' = again
         \/ /\ Found(web.job)
            /\ web' = IF status \in Terminal
                      THEN [web EXCEPT !.shown = status, !.pc = "done"]
                      ELSE [again EXCEPT !.shown = status]
  /\ UNCHANGED <<vars, sse, wire>>

(* A restart of the server ends the event request as well.                    *)
FRestart ==
  /\ Restart
  /\ web' = [web EXCEPT !.pc = IF @ = "read" THEN "lost" ELSE @]
  /\ sse' = "none"
  /\ wire' = <<>>

FollowerStep == Connect \/ Subscribe \/ Send \/ Read \/ Refetch

FNext ==
  \/ Serve /\ UNCHANGED fvars
  \/ FRestart
  \/ \E j \in Jobs : Follow(j)
  \/ FollowerStep
  \/ Break

FSpec == FInit /\ [][FNext]_allVars

(* Goroutines and the browser's event loop run; frames arrive.                *)
FFairSpec ==
  /\ FSpec
  /\ \A c \in Calls : WF_allVars(Step(c) /\ UNCHANGED fvars)
  /\ WF_allVars(Connect) /\ WF_allVars(Subscribe) /\ WF_allVars(Send)
  /\ WF_allVars(Read) /\ WF_allVars(Refetch)

-------------------------------------------------------------------------------
(* Properties.                                                                *)

FTypeOK ==
  /\ web \in [pc : {"idle", "connect", "read", "lost", "done", "interrupted"},
              job : Keys, shown : Stored \cup {""}, lastEvent : Nat,
              issued : 0 .. MaxRestarts, foreign : BOOLEAN, attempt : 0 .. Attempts]
  /\ sse \in {"none", "snapshot", "stream"}
  /\ Len(wire) <= WireCapacity
  /\ sse = "none" => wire = <<>>

(* A tab with nothing left to read is not left waiting for a job that has     *)
(* settled: the snapshot is read before the subscription, so that what is     *)
(* settled in between is replayed, and what is settled later arrives live.    *)
(* The only ways to miss it are the ones named here: an event dropped because *)
(* the tab was slow, and a cursor numbered by a former process, which makes   *)
(* Subscribe skip the first events of the new one.                            *)
CaughtUpKnows ==
  ~ /\ web.pc = "read" /\ sse = "stream"
    /\ wire = <<>> /\ Channel.events = <<>>
    /\ ~Channel.missed /\ ~web.foreign
    /\ \A c \in Calls : ~(calls[c].pc = "publish" /\ calls[c].job = web.job)
    /\ record[web.job].status \in Terminal

(* A settled status on the screen is the one in the file, and stays so: what  *)
(* the tab stops following needs no correction. (A write that fails may let   *)
(* the server announce a failure it could not record.)                        *)
SettledShownIsStored ==
  failures = 0 /\ web.shown \in Terminal =>
    record[web.job].status \in {web.shown, "evicted"}

(* A tab that follows a settled job stops following, or has lost an event in  *)
(* one of the two ways.                                                       *)
FollowingEnds ==
  (web.pc \in {"connect", "read", "lost"} /\ record[web.job].status \in Terminal)
    ~> (web.pc \in {"done", "interrupted"} \/ Channel.missed \/ web.foreign)
===============================================================================
