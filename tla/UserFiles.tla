------------------------------- MODULE UserFiles -------------------------------
(***************************************************************************)
(* The directory of one user of the Node service: the history              *)
(* (records.json), the session, the private shares (community-prompts.json)*)
(* and the directories of pictures that they refer to.  Every request      *)
(* holds the lock of the user, so that requests run one after the other;   *)
(* each file operation is a step of its own, after which the request may   *)
(* fail or the process die.  The JSON files are replaced atomically.       *)
(*                                                                         *)
(* A document is a record of the history or the session.  Its pictures are *)
(* a sequence of URLs, each an index in a directory.  The results and the  *)
(* nodes of a session are numbered through and are one sequence here.      *)
(***************************************************************************)
EXTENDS Naturals, Sequences, SequencesExt, FiniteSetsExt

CONSTANTS
  Records,       \* identifiers of history records (of jobs or of the client)
  Session,       \* the session
  Shares,        \* identifiers of private shares
  Pictures,
  NoPicture,
  Width          \* bound: pictures of a document (4, or SESSION_URL_LIMIT)

ASSUME WidthAssumption == Width \in Nat \ {0}

(* Records, sessions and shares have directories of their own: a session's *)
(* is session-<id>, a share's share-<uuid>, and clients draw the ids of    *)
(* records at random (cleanRecordId would take the other names too).       *)
ASSUME DirsDiffer ==
  /\ Session \notin Records
  /\ Shares \cap (Records \cup {Session}) = {}
  /\ NoPicture \notin Pictures

Documents == Records \cup {Session}
Dirs == Documents \cup Shares
Urls == Dirs \X (0 .. Width - 1)
NoUrl == << >>

VARIABLES
  assets,        \* url -> the picture in that file, or NoPicture
  saved,         \* document -> the URLs in its JSON file, << >> when absent
  shares,        \* share -> the URL of its picture, or NoUrl
  meant,         \* ghost: document -> the pictures its last save was to show,
                 \* NoPicture where it names none or a change was cut short
  request        \* the request that holds the lock

vars == << assets, saved, shares, meant, request >>

Idle == [ pc |-> "idle", docs |-> {}, body |-> << >>, out |-> << >>, copied |-> {} ]

Files(d) == { u \in Urls : u[1] = d /\ assets[u] # NoPicture }

(* A record whose picture an item of an older version still shares: its    *)
(* URL leads into the directory of the record.                             *)
Init ==
  /\ \E r \in Records, p \in Pictures :
       /\ saved = [d \in Documents |-> IF d = r THEN << <<r, 0>> >> ELSE << >>]
       /\ meant = [d \in Documents |-> IF d = r THEN << p >> ELSE << >>]
       /\ assets = [u \in Urls |-> IF u = <<r, 0>> THEN p ELSE NoPicture]
       /\ shares \in [Shares -> { NoUrl, <<r, 0>> }]
  /\ request = Idle

-------------------------------------------------------------------------------
At(pc) == request.pc = pc

Shown(value) == IF value \in Pictures THEN value ELSE assets[value]

(* What a client sends for a document: new pictures (data URLs) and URLs   *)
(* that it was given with the document.  URLs of other places are kept as  *)
(* they are and left out.                                                  *)
Bodies(d) == SeqOf(Pictures \cup ToSet(saved[d]), Width) \ {<< >>}

BeginSave(d, body) ==
  /\ At("idle")
  /\ request' = [Idle EXCEPT !.pc = "storing", !.docs = {d},
                   !.body = [i \in DOMAIN body |-> << body[i], Shown(body[i]) >>]]
  /\ UNCHANGED << assets, saved, shares, meant >>

Doc == CHOOSE d \in request.docs : TRUE

(* storeResultUrl: a new picture goes to the file named by its position, a *)
(* URL is kept as it is.  A session prunes its directory afterwards.       *)
StoreUrl ==
  LET i   == Len(request.out) + 1
      url == IF request.body[i][1] \in Pictures THEN << Doc, i - 1 >>
             ELSE request.body[i][1]
  IN  /\ At("storing") /\ i <= Len(request.body)
      /\ assets' = [assets EXCEPT ![url] =
           IF request.body[i][1] \in Pictures THEN request.body[i][1] ELSE @]
      /\ request' = [request EXCEPT !.out = Append(@, url)]
      /\ UNCHANGED << saved, shares, meant >>

(* pruneSessionAssets removes what the new session does not refer to.      *)
Unreferenced_Wrong == Files(Doc) \ { request.out[1] }
Unreferenced == Files(Doc) \ ToSet(request.out)

Stored == At("storing") /\ Len(request.out) = Len(request.body)

Prune ==
  /\ Stored /\ Doc = Session
  /\ assets' = [u \in Urls |-> IF u \in Unreferenced THEN NoPicture ELSE assets[u]]
  /\ request' = [request EXCEPT !.pc = "writing"]
  /\ UNCHANGED << saved, shares, meant >>

WriteDocument ==
  /\ (Stored /\ Doc # Session) \/ At("writing")
  /\ saved' = [saved EXCEPT ![Doc] = request.out]
  /\ meant' = [meant EXCEPT ![Doc] = [i \in DOMAIN request.body |-> request.body[i][2]]]
  /\ request' = Idle
  /\ UNCHANGED << assets, shares >>

-------------------------------------------------------------------------------
(* A private share copies the picture that it shows (storeSharedResultUrl), *)
(* then writes the list.                                                    *)
BeginShare(s, url) ==
  /\ At("idle") /\ shares[s] = NoUrl /\ assets[url] # NoPicture
  /\ assets' = [assets EXCEPT ![<< s, 0 >>] = assets[url]]
  /\ request' = [Idle EXCEPT !.pc = "sharing", !.copied = {s}]
  /\ UNCHANGED << saved, shares, meant >>

WriteShares ==
  /\ At("sharing") \/ (At("preserving") /\ request.copied # {})
  /\ shares' = [s \in Shares |-> IF s \in request.copied THEN << s, 0 >> ELSE shares[s]]
  /\ request' = IF At("sharing") THEN Idle ELSE [request EXCEPT !.pc = "removing"]
  /\ UNCHANGED << assets, saved, meant >>

(* DELETE of a record or of the history: first the shares that lead into   *)
(* the directories get copies of their own (preserveLegacySharedAssets),   *)
(* then the directories go, then the records.                              *)
BeginDelete(rs) ==
  /\ At("idle")
  /\ request' = [Idle EXCEPT !.pc = "preserving", !.docs = rs]
  /\ UNCHANGED << assets, saved, shares, meant >>

Legacy_Wrong == {}
Legacy == { s \in Shares : shares[s] # NoUrl /\ shares[s][1] \in request.docs }

PreserveOne ==
  /\ At("preserving")
  /\ \E s \in Legacy \ request.copied :
       /\ assets[shares[s]] # NoPicture
       /\ assets' = [assets EXCEPT ![<< s, 0 >>] = assets[shares[s]]]
       /\ request' = [request EXCEPT !.copied = @ \cup {s}]
  /\ UNCHANGED << saved, shares, meant >>

PreserveDone ==
  /\ At("preserving") /\ Legacy \subseteq request.copied
  /\ IF request.copied = {}
     THEN request' = [request EXCEPT !.pc = "removing"] /\ UNCHANGED shares
     ELSE WriteShares
  /\ UNCHANGED << assets, saved, meant >>

Removed(dirs) == [u \in Urls |-> IF u[1] \in dirs THEN NoPicture ELSE assets[u]]

RemoveDirs ==
  /\ At("removing")
  /\ assets' = Removed(request.docs)
  /\ request' = [request EXCEPT !.pc = "forgetting"]
  /\ UNCHANGED << saved, shares, meant >>

(* DELETE of the session removes its file before its directory.            *)
DeleteSession ==
  /\ At("idle")
  /\ saved' = [saved EXCEPT ![Session] = << >>]
  /\ meant' = [meant EXCEPT ![Session] = << >>]
  /\ request' = [Idle EXCEPT !.pc = "removing", !.docs = {Session}]
  /\ UNCHANGED << assets, shares >>

Forget ==
  /\ At("forgetting")
  /\ saved' = [d \in Documents |-> IF d \in request.docs THEN << >> ELSE saved[d]]
  /\ meant' = [d \in Documents |-> IF d \in request.docs THEN << >> ELSE meant[d]]
  /\ request' = Idle
  /\ UNCHANGED << assets, shares >>

(* A file operation fails, or the process dies, before any step of a       *)
(* request, or half way through the removal of files.                      *)
CutShort ==
  /\ ~At("idle")
  /\ \E gone \in SUBSET (IF At("removing") THEN UNION { Files(d) : d \in request.docs }
                         ELSE IF Stored /\ Doc = Session THEN Unreferenced ELSE {}) :
       assets' = [u \in Urls |-> IF u \in gone THEN NoPicture ELSE assets[u]]
  /\ meant' = [d \in Documents |->
                IF request.pc \in {"preserving", "sharing"} \/ d \notin request.docs
                THEN meant[d] ELSE [i \in DOMAIN meant[d] |-> NoPicture]]
  /\ request' = Idle
  /\ UNCHANGED << saved, shares >>

Next ==
  \/ \E d \in Documents : \E body \in Bodies(d) : BeginSave(d, body)
  \/ StoreUrl \/ Prune \/ WriteDocument
  \/ \E s \in Shares : \E url \in Urls : BeginShare(s, url)
  \/ At("sharing") /\ WriteShares
  \/ \E r \in Records : BeginDelete({r})
  \/ BeginDelete({ r \in Records : saved[r] # << >> })
  \/ PreserveOne \/ PreserveDone \/ RemoveDirs \/ Forget
  \/ DeleteSession
  \/ CutShort

Spec == Init /\ [][Next]_vars

-------------------------------------------------------------------------------
(* Properties. *)

(* The positions of the pictures that d must show: no request changes d    *)
(* now and none was cut short since its last save.                         *)
Settled(d) ==
  { i \in DOMAIN saved[d] : d \notin request.docs /\ meant[d][i] # NoPicture }

(* A record or a session does not lose a picture that its last save was to *)
(* show, unless that save, or a removal, was cut short: the pictures are   *)
(* stored before the file that names them is written, and a session prunes *)
(* only what it will not name (sanitizeRecord, sanitizeSession).           *)
ReferencesResolve ==
  \A d \in Documents : \A i \in Settled(d) : assets[saved[d][i]] # NoPicture

(* A share keeps its picture through the deletion of the record it was     *)
(* made from, wherever that is cut short (preserveLegacySharedAssets).     *)
SharesKeepPictures ==
  \A s \in Shares : shares[s] # NoUrl => assets[shares[s]] # NoPicture

===============================================================================
