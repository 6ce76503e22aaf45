--------------------------- MODULE UserFilesProofs ---------------------------
(***************************************************************************)
(* Theorems about UserFiles, for any records, shares, pictures and width   *)
(* of a document: what is stored stays as long as something refers to it.  *)
(***************************************************************************)
EXTENDS UserFiles, TLAPS

(* What a request holds: the body with the picture that each value was to  *)
(* show, and the URLs it stored so far.                                    *)
Places == {"idle", "storing", "writing", "sharing", "preserving", "removing", "forgetting"}
Given == (Pictures \cup Urls) \X (Pictures \cup {NoPicture})
RequestType ==
  [ pc : Places, docs : SUBSET Documents, body : Seq(Given), out : Seq(Urls),
    copied : SUBSET Shares ]

(* A document refers only to pictures of its own directory, and meant has  *)
(* a picture for each.                                                     *)
DocumentOK(urls, pictures, d) ==
  /\ urls \in Seq(Urls) /\ pictures \in Seq(Pictures \cup {NoPicture})
  /\ Len(pictures) = Len(urls)
  /\ \A i \in DOMAIN urls : urls[i][1] = d

FilesOK ==
  /\ assets \in [Urls -> Pictures \cup {NoPicture}]
  /\ saved = [d \in Documents |-> saved[d]] /\ meant = [d \in Documents |-> meant[d]]
  /\ shares = [s \in Shares |-> shares[s]]
  /\ request \in RequestType
  /\ \A d \in Documents : DocumentOK(saved[d], meant[d], d)

(* What the last save of a document was to show is there, unless a request *)
(* changes the document: the copying of the shares does not.               *)
ShownOK ==
  \A d \in Documents : \A i \in DOMAIN saved[d] :
    (d \notin request.docs \/ At("preserving")) /\ meant[d][i] # NoPicture
      => assets[saved[d][i]] # NoPicture

(* A save has stored the pictures it names so far, and those that it was   *)
(* given by URL are still there.                                           *)
Kept(value, picture, d) ==
  /\ value \in Urls /\ value[1] = d
  /\ picture # NoPicture => assets[value] # NoPicture

SaveOK ==
  request.pc \in {"storing", "writing"} =>
    \E d \in Documents :
      /\ request.docs = {d}
      /\ Len(request.out) <= Len(request.body) /\ Len(request.body) <= Width
      /\ At("writing") => Len(request.out) = Len(request.body)
      /\ \A k \in DOMAIN request.out : Kept(request.out[k], request.body[k][2], d)
      /\ \A k \in DOMAIN request.body :
           At("storing") /\ request.body[k][1] \notin Pictures
             => Kept(request.body[k][1], request.body[k][2], d)

(* A share shows a picture of its own or, from an older version, of a      *)
(* record, which no request removes before the share has its copy.         *)
ShareOK(s) ==
  shares[s] # NoUrl =>
    /\ \E x \in Records \cup {s} : shares[s] = << x, 0 >>
    /\ assets[shares[s]] # NoPicture
    /\ request.pc \in {"removing", "forgetting"} => shares[s][1] \notin request.docs
SharesOK == \A s \in Shares : ShareOK(s)

(* A copy that a request has made for a share is there.                    *)
CopiesOK == \A s \in request.copied : assets[<< s, 0 >>] # NoPicture

RequestOK ==
  /\ request.pc \in {"idle", "sharing"} => request.docs = {}
  /\ At("preserving") => request.docs \subseteq Records

UInv == FilesOK /\ ShownOK /\ SaveOK /\ SharesOK /\ CopiesOK /\ RequestOK

-------------------------------------------------------------------------------
(* The directories. *)

(* The first file of every directory is a URL.                             *)
LEMMA FirstFile ==
  ASSUME NEW x \in Dirs
  PROVE  << x, 0 >> \in Urls /\ << x, 0 >>[1] = x /\ << x, 0 >> # NoUrl
BY WidthAssumption DEF Urls, NoUrl

(* A picture that stays in its file keeps what the parts say of it.        *)
LEMMA UrlHasDir ==
  ASSUME NEW u \in Urls
  PROVE  u[1] \in Dirs /\ u[2] \in 0 .. Width - 1 /\ u = << u[1], u[2] >>
BY DEF Urls

LEMMA InitIsWhole ==
  ASSUME Init
  PROVE  UInv
<1>1. PICK r \in Records, p \in Pictures :
        /\ saved = [d \in Documents |-> IF d = r THEN << <<r, 0>> >> ELSE << >>]
        /\ meant = [d \in Documents |-> IF d = r THEN << p >> ELSE << >>]
        /\ assets = [u \in Urls |-> IF u = <<r, 0>> THEN p ELSE NoPicture]
        /\ shares \in [Shares -> { NoUrl, <<r, 0>> }]
  BY DEF Init
<1>2. << r, 0 >> \in Urls /\ << r, 0 >>[1] = r /\ r \in Documents
  BY FirstFile DEF Dirs, Documents
<1>3. request = Idle
  BY DEF Init
<1>4. request \in RequestType /\ request.pc = "idle" /\ request.docs = {} /\ request.copied = {}
  BY <1>3 DEF Idle, RequestType, Places
<1>5. assets[<< r, 0 >>] = p /\ p # NoPicture
  BY <1>1, <1>2, DirsDiffer
<1>6. FilesOK
  <2>1. ASSUME NEW d \in Documents
        PROVE  DocumentOK(saved[d], meant[d], d)
    <3>1. CASE d = r
      BY <1>1, <1>2, <3>1 DEF DocumentOK
    <3>2. CASE d # r
      BY <1>1, <3>2 DEF DocumentOK
    <3> QED  BY <3>1, <3>2
  <2>2. assets \in [Urls -> Pictures \cup {NoPicture}]
    BY <1>1
  <2> QED  BY <1>1, <1>4, <2>1, <2>2 DEF FilesOK
<1>7. ShownOK
  BY <1>1, <1>2, <1>5 DEF ShownOK
<1>8. SharesOK
  BY <1>1, <1>4, <1>5 DEF SharesOK, ShareOK
<1> QED
  BY <1>4, <1>6, <1>7, <1>8 DEF UInv, SaveOK, CopiesOK, RequestOK, At


-------------------------------------------------------------------------------
(* What the steps have in common. *)

(* Nothing is removed: what was there is there afterwards.                 *)
Grow == \A u \in Urls : assets[u] # NoPicture => assets'[u] # NoPicture

(* A request that does not touch the JSON files keeps the files' shape.    *)
LEMMA FilesStay ==
  ASSUME FilesOK, UNCHANGED << saved, meant, shares >>,
         assets' \in [Urls -> Pictures \cup {NoPicture}], request' \in RequestType
  PROVE  FilesOK'
<1>1. \A d \in Documents : DocumentOK(saved[d], meant[d], d)'
  BY DEF FilesOK, DocumentOK
<1> QED  BY <1>1 DEF FilesOK

(* A document that no request changes shows its pictures if its directory  *)
(* keeps them.                                                             *)
LEMMA ShownStays ==
  ASSUME FilesOK, ShownOK, UNCHANGED << saved, meant >>,
         \A d \in Documents :
           d \notin request'.docs \/ request'.pc = "preserving" =>
             /\ d \notin request.docs \/ At("preserving")
             /\ \A u \in Urls : u[1] = d /\ assets[u] # NoPicture => assets'[u] # NoPicture
  PROVE  ShownOK'
<1> SUFFICES ASSUME NEW d \in Documents, NEW i \in DOMAIN saved[d],
                    d \notin request'.docs \/ request'.pc = "preserving",
                    meant[d][i] # NoPicture
             PROVE  assets'[saved[d][i]] # NoPicture
  BY DEF ShownOK, At
<1>1. saved[d][i] \in Urls /\ saved[d][i][1] = d
  BY DEF FilesOK, DocumentOK
<1>2. assets[saved[d][i]] # NoPicture
  BY DEF ShownOK
<1> QED  BY <1>1, <1>2

(* A share keeps its picture if its directory does, and is not in the way  *)
(* of a removal.                                                           *)
LEMMA SharesStay ==
  ASSUME FilesOK, SharesOK, shares' = shares,
         \A s \in Shares : shares[s] # NoUrl =>
           \A u \in Urls : u = shares[s] /\ assets[u] # NoPicture => assets'[u] # NoPicture,
         request'.pc \in {"removing", "forgetting"} =>
           \A s \in Shares : shares[s] # NoUrl => shares[s][1] \notin request'.docs
  PROVE  SharesOK'
<1> SUFFICES ASSUME NEW s \in Shares, shares[s] # NoUrl
             PROVE  /\ \E x \in Records \cup {s} : shares[s] = << x, 0 >>
                    /\ assets'[shares[s]] # NoPicture
  BY DEF SharesOK, ShareOK
<1>1. PICK x \in Records \cup {s} : shares[s] = << x, 0 >>
  BY DEF SharesOK, ShareOK
<1>2. shares[s] \in Urls
  BY <1>1, FirstFile DEF Dirs, Documents
<1> QED  BY <1>1, <1>2 DEF SharesOK, ShareOK

(* Where a share may lead: never into the session.                         *)
LEMMA ShareLeads ==
  ASSUME SharesOK, NEW s \in Shares, shares[s] # NoUrl
  PROVE  /\ shares[s] \in Urls /\ shares[s][1] \in Records \cup {s}
         /\ shares[s][1] # Session /\ assets[shares[s]] # NoPicture
<1>1. PICK x \in Records \cup {s} : shares[s] = << x, 0 >>
  BY DEF SharesOK, ShareOK
<1> QED  BY <1>1, FirstFile, DirsDiffer DEF Dirs, Documents, SharesOK, ShareOK

(* The idle request.                                                       *)
LEMMA IdleRequest ==
  ASSUME request' = Idle
  PROVE  /\ request' \in RequestType /\ request'.pc = "idle" /\ request'.docs = {}
         /\ SaveOK' /\ CopiesOK' /\ RequestOK'
<1>1. Idle \in RequestType /\ Idle.pc = "idle" /\ Idle.docs = {} /\ Idle.copied = {}
  BY DEF Idle, RequestType, Places
<1> QED  BY <1>1 DEF SaveOK, CopiesOK, RequestOK, At

-------------------------------------------------------------------------------
(* A save of a record or of the session. *)

LEMMA BeginSaveKeeps ==
  ASSUME UInv, NEW d \in Documents, NEW body \in Bodies(d), BeginSave(d, body)
  PROVE  UInv'
<1> USE DEF UInv
<1> DEFINE new == [i \in DOMAIN body |-> << body[i], Shown(body[i]) >>]
<1>1. PICK n \in 0 .. Width : body \in [1 .. n -> Pictures \cup ToSet(saved[d])]
  BY DEF Bodies, SeqOf
<1>2. n \in Nat /\ n <= Width /\ DOMAIN body = 1 .. n
  BY <1>1, WidthAssumption
<1>3. \A i \in 1 .. n :
        \/ body[i] \in Pictures /\ Shown(body[i]) = body[i]
        \/ /\ body[i] \notin Pictures /\ body[i] \in Urls /\ body[i][1] = d
           /\ Shown(body[i]) = assets[body[i]]
  <2> SUFFICES ASSUME NEW i \in 1 .. n, body[i] \notin Pictures
               PROVE  body[i] \in Urls /\ body[i][1] = d
    BY DEF Shown
  <2>1. body[i] \in ToSet(saved[d])
    BY <1>1
  <2> QED  BY <2>1 DEF ToSet, FilesOK, DocumentOK
<1>4. new \in Seq(Given) /\ Len(new) = n /\ DOMAIN new = 1 .. n
  <2>1. \A i \in 1 .. n : << body[i], Shown(body[i]) >> \in Given
    BY <1>3 DEF Given, FilesOK
  <2> QED  BY <1>2, <2>1
<1>5. request' = [Idle EXCEPT !.pc = "storing", !.docs = {d}, !.body = new]
  BY DEF BeginSave
<1>6. /\ request'.pc = "storing" /\ request'.docs = {d} /\ request'.body = new
      /\ request'.out = << >> /\ request'.copied = {} /\ request' \in RequestType
  <2> HIDE DEF new
  <2>1. request' = [ pc |-> "storing", docs |-> {d}, body |-> new, out |-> << >>,
                     copied |-> {} ]
    BY <1>5 DEF Idle
  <2>2. << >> \in Seq(Urls) /\ {d} \in SUBSET Documents /\ {} \in SUBSET Shares
    OBVIOUS
  <2>3. request' \in RequestType
    BY <1>4, <2>1, <2>2 DEF RequestType, Places
  <2> QED  BY <2>1, <2>3
<1>7. FilesOK'
  BY <1>6, FilesStay DEF BeginSave, FilesOK
<1>8. ShownOK'
  BY <1>6, ShownStays DEF BeginSave, RequestOK, At
<1>9. SaveOK'
  <2>1. \A k \in 1 .. n : new[k][1] \notin Pictures =>
          /\ new[k][1] \in Urls /\ new[k][1][1] = d
          /\ new[k][2] # NoPicture => assets[new[k][1]] # NoPicture
    BY <1>2, <1>3
  <2>2. assets' = assets
    BY DEF BeginSave
  <2> HIDE DEF new
  <2>3. /\ request'.docs = {d}
        /\ Len(request'.out) = 0 /\ Len(request'.body) = n /\ n <= Width
        /\ DOMAIN request'.out = {} /\ DOMAIN request'.body = 1 .. n
    BY <1>2, <1>4, <1>6
  <2>4. \A k \in DOMAIN request'.body :
          request'.body[k][1] \notin Pictures => Kept(request.body[k][1], request.body[k][2], d)'
    BY <1>6, <2>1, <2>2, <2>3 DEF Kept
  <2> QED  BY <1>2, <1>6, <2>3, <2>4 DEF SaveOK, At
<1>10. SharesOK'
  BY <1>6, SharesStay DEF BeginSave
<1> QED  BY <1>6, <1>7, <1>8, <1>9, <1>10 DEF CopiesOK, RequestOK, At


(* What a save of a document is, and that the document is the one of Doc.  *)
LEMMA SaveHas ==
  ASSUME UInv, request.pc \in {"storing", "writing"}
  PROVE  /\ Doc \in Documents /\ request.docs = {Doc}
         /\ request.body \in Seq(Given) /\ request.out \in Seq(Urls)
         /\ Len(request.body) \in Nat /\ Len(request.out) \in Nat
         /\ Len(request.out) <= Len(request.body) /\ Len(request.body) <= Width
         /\ At("writing") => Len(request.out) = Len(request.body)
         /\ \A k \in DOMAIN request.out : Kept(request.out[k], request.body[k][2], Doc)
         /\ \A k \in DOMAIN request.body :
              At("storing") /\ request.body[k][1] \notin Pictures
                => Kept(request.body[k][1], request.body[k][2], Doc)
<1>1. PICK d \in Documents :
        /\ request.docs = {d}
        /\ Len(request.out) <= Len(request.body) /\ Len(request.body) <= Width
        /\ At("writing") => Len(request.out) = Len(request.body)
        /\ \A k \in DOMAIN request.out : Kept(request.out[k], request.body[k][2], d)
        /\ \A k \in DOMAIN request.body :
             At("storing") /\ request.body[k][1] \notin Pictures
               => Kept(request.body[k][1], request.body[k][2], d)
  BY DEF UInv, SaveOK
<1>2. Doc = d
  BY <1>1 DEF Doc
<1>3. request.body \in Seq(Given) /\ request.out \in Seq(Urls)
  BY DEF UInv, FilesOK, RequestType
<1>4. Len(request.body) \in Nat /\ Len(request.out) \in Nat
  BY <1>3
<1> QED  BY <1>1, <1>2, <1>3, <1>4

LEMMA StoreUrlKeeps ==
  ASSUME UInv, StoreUrl
  PROVE  UInv'
<1> USE DEF UInv
<1> DEFINE i == Len(request.out) + 1
           value == request.body[i][1]
           url == IF value \in Pictures THEN << Doc, i - 1 >> ELSE value
<1>1. /\ At("storing") /\ i <= Len(request.body)
      /\ assets' = [assets EXCEPT ![url] = IF value \in Pictures THEN value ELSE @]
      /\ request' = [request EXCEPT !.out = Append(@, url)]
      /\ UNCHANGED << saved, shares, meant >>
  BY DEF StoreUrl
<1>2. /\ Doc \in Documents /\ request.docs = {Doc}
      /\ request.body \in Seq(Given) /\ request.out \in Seq(Urls)
      /\ Len(request.body) \in Nat /\ Len(request.out) \in Nat
      /\ Len(request.out) <= Len(request.body) /\ Len(request.body) <= Width
      /\ \A k \in DOMAIN request.out : Kept(request.out[k], request.body[k][2], Doc)
      /\ \A k \in DOMAIN request.body :
           request.body[k][1] \notin Pictures
             => Kept(request.body[k][1], request.body[k][2], Doc)
  BY <1>1, SaveHas DEF At
<1>3. i \in 1 .. Len(request.body) /\ i \in DOMAIN request.body /\ i - 1 \in 0 .. Width - 1
  BY <1>1, <1>2, WidthAssumption
<1>4. url \in Urls /\ url[1] = Doc
  <2>1. CASE value \in Pictures
    BY <1>2, <1>3, <2>1 DEF Urls, Dirs
  <2>2. CASE value \notin Pictures
    BY <1>2, <1>3, <2>2 DEF Kept
  <2> QED  BY <2>1, <2>2
<1>5. /\ assets' \in [Urls -> Pictures \cup {NoPicture}] /\ Grow
      /\ value \in Pictures => assets'[url] # NoPicture
      /\ value \notin Pictures => assets' = assets
  <2> HIDE DEF url, value
  <2> QED  BY <1>1, <1>4, DirsDiffer DEF FilesOK, Grow
<1>6. /\ request'.out = Append(request.out, url) /\ request'.pc = "storing"
      /\ request'.body = request.body /\ request'.docs = request.docs
      /\ request'.copied = request.copied /\ request' \in RequestType
  <2> HIDE DEF url
  <2>1. Append(request.out, url) \in Seq(Urls)
    BY <1>2, <1>4
  <2> QED  BY <1>1, <2>1 DEF FilesOK, RequestType, At
<1> HIDE DEF url
<1>7. FilesOK'
  BY <1>1, <1>5, <1>6, FilesStay
<1>8. ShownOK'
  BY <1>1, <1>5, <1>6, ShownStays DEF Grow
<1>9. SaveOK'
  <2>1. /\ Len(request'.out) = i /\ DOMAIN request'.out = 1 .. i
        /\ request'.out[i] = url
        /\ \A k \in 1 .. i - 1 : k \in DOMAIN request.out /\ request'.out[k] = request.out[k]
    BY <1>2, <1>4, <1>6
  <2>2. \A k \in 1 .. i - 1 :
          Kept(request.out[k], request.body[k][2], Doc)
    BY <1>2, <2>1
  <2>3. request.body[i][2] # NoPicture => assets'[url] # NoPicture
    BY <1>2, <1>3, <1>5 DEF Kept, url
  <2>4. ASSUME NEW k \in 1 .. i
        PROVE  /\ request'.out[k] \in Urls /\ request'.out[k][1] = Doc
               /\ request.body[k][2] # NoPicture => assets'[request'.out[k]] # NoPicture
    <3>1. CASE k = i
      BY <1>4, <2>1, <2>3, <3>1
    <3>2. CASE k # i
      <4>1. k \in 1 .. i - 1
        BY <1>2, <3>2
      <4> QED  BY <4>1, <1>5, <2>1, <2>2 DEF Kept, Grow
    <3> QED  BY <3>1, <3>2
  <2>5. \A k \in DOMAIN request.body : request.body[k][1] \notin Pictures =>
          /\ request.body[k][1] \in Urls /\ request.body[k][1][1] = Doc
          /\ request.body[k][2] # NoPicture => assets'[request.body[k][1]] # NoPicture
    BY <1>2, <1>5 DEF Kept, Grow
  <2>6. /\ request'.docs = {Doc} /\ Len(request'.out) <= Len(request'.body)
        /\ Len(request'.body) <= Width /\ request'.pc # "writing"
    BY <1>1, <1>2, <1>6, <2>1
  <2> QED
    BY <1>2, <1>6, <2>1, <2>4, <2>5, <2>6 DEF SaveOK, Kept, At
<1>10. SharesOK'
  BY <1>1, <1>5, <1>6, SharesStay, ShareLeads DEF Grow
<1>11. CopiesOK'
  <2>1. \A s \in request.copied : << s, 0 >> \in Urls
    BY FirstFile DEF FilesOK, RequestType, Dirs
  <2> QED  BY <1>5, <1>6, <2>1 DEF CopiesOK, Grow
<1> QED  BY <1>1, <1>6, <1>7, <1>8, <1>9, <1>10, <1>11 DEF RequestOK, At

(* What is removed of the session is what its new version does not name.   *)
LEMMA PruneSpares ==
  ASSUME UInv, NEW u \in Urls, u[1] # Doc \/ u \in ToSet(request.out)
  PROVE  u \notin Unreferenced
BY DEF Unreferenced, Files

LEMMA PruneKeeps ==
  ASSUME UInv, Prune
  PROVE  UInv'
<1> USE DEF UInv
<1>1. /\ At("storing") /\ Len(request.out) = Len(request.body) /\ Doc = Session
      /\ assets' = [u \in Urls |-> IF u \in Unreferenced THEN NoPicture ELSE assets[u]]
      /\ request' = [request EXCEPT !.pc = "writing"]
      /\ UNCHANGED << saved, shares, meant >>
  BY DEF Prune, Stored
<1>2. /\ Doc \in Documents /\ request.docs = {Doc}
      /\ request.out \in Seq(Urls) /\ Len(request.body) <= Width
      /\ \A k \in DOMAIN request.out : Kept(request.out[k], request.body[k][2], Doc)
  BY <1>1, SaveHas DEF At
<1>3. /\ request'.pc = "writing" /\ request'.docs = request.docs
      /\ request'.body = request.body /\ request'.out = request.out
      /\ request'.copied = request.copied /\ request' \in RequestType
  BY <1>1 DEF FilesOK, RequestType, Places
<1>4. assets' \in [Urls -> Pictures \cup {NoPicture}]
  BY <1>1 DEF FilesOK
<1>5. \A u \in Urls : u[1] # Session \/ u \in ToSet(request.out) => assets'[u] = assets[u]
  BY <1>1, PruneSpares
<1>6. FilesOK'
  BY <1>1, <1>3, <1>4, FilesStay
<1>7. ShownOK'
  BY <1>1, <1>2, <1>3, <1>5, ShownStays
<1>8. SaveOK'
  <2>1. \A k \in DOMAIN request.out : assets'[request.out[k]] = assets[request.out[k]]
    BY <1>2, <1>5 DEF ToSet, Kept
  <2>2. \A k \in DOMAIN request.out :
          /\ request.out[k] \in Urls /\ request.out[k][1] = Doc
          /\ request.body[k][2] # NoPicture => assets'[request.out[k]] # NoPicture
    BY <1>2, <2>1 DEF Kept
  <2>3. /\ request'.docs = {Doc} /\ Len(request'.body) <= Width
        /\ Len(request'.out) = Len(request'.body) /\ Len(request'.out) \in Nat
        /\ request'.pc # "storing"
    BY <1>1, <1>2, <1>3
  <2>4. PICK d \in Documents : d = Doc
    BY <1>2
  <2>5. \A k \in DOMAIN request'.out : Kept(request.out[k], request.body[k][2], d)'
    BY <1>1, <1>3, <2>2, <2>4 DEF Kept
  <2> QED  BY <2>3, <2>4, <2>5 DEF SaveOK, At
<1>9. SharesOK'
  BY <1>1, <1>3, <1>5, SharesStay, ShareLeads
<1>10. CopiesOK'
  <2>1. \A s \in request.copied : << s, 0 >> \in Urls /\ << s, 0 >>[1] # Session
    BY FirstFile, DirsDiffer DEF FilesOK, RequestType, Dirs
  <2> QED  BY <1>3, <1>5, <2>1 DEF CopiesOK
<1> QED  BY <1>3, <1>6, <1>7, <1>8, <1>9, <1>10 DEF RequestOK, At

(* The file that names the pictures is written after they are stored.      *)
LEMMA WriteDocumentKeeps ==
  ASSUME UInv, WriteDocument
  PROVE  UInv'
<1> USE DEF UInv
<1> DEFINE pictures == [i \in DOMAIN request.body |-> request.body[i][2]]
<1>1. /\ request.pc \in {"storing", "writing"} /\ request' = Idle
      /\ saved' = [saved EXCEPT ![Doc] = request.out]
      /\ meant' = [meant EXCEPT ![Doc] = pictures]
      /\ UNCHANGED << assets, shares >>
      /\ At("writing") \/ Len(request.out) = Len(request.body)
  BY DEF WriteDocument, Stored, At
<1>2. /\ Doc \in Documents /\ request.docs = {Doc}
      /\ request.body \in Seq(Given) /\ request.out \in Seq(Urls)
      /\ Len(request.out) = Len(request.body)
      /\ \A k \in DOMAIN request.out : Kept(request.out[k], request.body[k][2], Doc)
  BY <1>1, SaveHas
<1>3. /\ pictures \in Seq(Pictures \cup {NoPicture}) /\ Len(pictures) = Len(request.out)
      /\ \A k \in DOMAIN request.out : pictures[k] = request.body[k][2]
  <2>1. /\ Len(request.body) \in Nat /\ DOMAIN request.body = 1 .. Len(request.body)
        /\ DOMAIN request.out = 1 .. Len(request.out)
        /\ \A k \in DOMAIN request.body : request.body[k] \in Given
    BY <1>2
  <2>2. \A k \in DOMAIN request.body : request.body[k][2] \in Pictures \cup {NoPicture}
    BY <2>1 DEF Given
  <2> QED  BY <1>2, <2>1, <2>2
<1>4. /\ saved'[Doc] = request.out /\ meant'[Doc] = pictures
      /\ \A d \in Documents \ {Doc} : saved'[d] = saved[d] /\ meant'[d] = meant[d]
  <2> HIDE DEF pictures
  <2> QED  BY <1>1, <1>2 DEF FilesOK
<1> HIDE DEF pictures
<1>5. FilesOK'
  <2>1. ASSUME NEW d \in Documents
        PROVE  DocumentOK(saved'[d], meant'[d], d)
    <3>1. CASE d = Doc
      BY <1>2, <1>3, <1>4, <3>1 DEF DocumentOK, Kept
    <3>2. CASE d # Doc
      BY <1>4, <3>2 DEF FilesOK
    <3> QED  BY <3>1, <3>2
  <2>2. /\ saved' = [d \in Documents |-> saved'[d]] /\ meant' = [d \in Documents |-> meant'[d]]
        /\ shares' = [s \in Shares |-> shares'[s]]
    BY <1>1 DEF FilesOK
  <2> QED  BY <1>1, <2>1, <2>2, IdleRequest DEF FilesOK
<1>6. ShownOK'
  <2> SUFFICES ASSUME NEW d \in Documents, NEW i \in DOMAIN saved'[d], meant'[d][i] # NoPicture
               PROVE  assets[saved'[d][i]] # NoPicture
    BY <1>1 DEF ShownOK
  <2>1. CASE d = Doc
    BY <1>2, <1>3, <1>4, <2>1 DEF Kept
  <2>2. CASE d # Doc
    BY <1>2, <1>4, <2>2 DEF ShownOK
  <2> QED  BY <2>1, <2>2
<1>7. SharesOK'
  BY <1>1, IdleRequest, SharesStay
<1> QED  BY <1>1, <1>5, <1>6, <1>7, IdleRequest


-------------------------------------------------------------------------------
(* Private shares and their copies. *)

LEMMA BeginShareKeeps ==
  ASSUME UInv, NEW s \in Shares, NEW url \in Urls, BeginShare(s, url)
  PROVE  UInv'
<1> USE DEF UInv
<1>1. /\ At("idle") /\ assets[url] # NoPicture
      /\ assets' = [assets EXCEPT ![<< s, 0 >>] = assets[url]]
      /\ request' = [Idle EXCEPT !.pc = "sharing", !.copied = {s}]
      /\ UNCHANGED << saved, shares, meant >>
  BY DEF BeginShare
<1>2. << s, 0 >> \in Urls
  BY FirstFile DEF Dirs
<1>3. /\ assets' \in [Urls -> Pictures \cup {NoPicture}] /\ Grow
      /\ assets'[<< s, 0 >>] # NoPicture
  BY <1>1, <1>2 DEF FilesOK, Grow
<1>4. /\ request'.pc = "sharing" /\ request'.docs = {} /\ request'.copied = {s}
      /\ request' \in RequestType
  <2>1. request' = [ pc |-> "sharing", docs |-> {}, body |-> << >>, out |-> << >>,
                     copied |-> {s} ]
    BY <1>1 DEF Idle
  <2>2. << >> \in Seq(Urls) /\ << >> \in Seq(Given) /\ {} \in SUBSET Documents
    OBVIOUS
  <2>3. request' \in RequestType
    BY <2>1, <2>2 DEF RequestType, Places
  <2> QED  BY <2>1, <2>3
<1>5. FilesOK'
  BY <1>1, <1>3, <1>4, FilesStay
<1>6. ShownOK'
  BY <1>1, <1>3, <1>4, ShownStays DEF Grow, RequestOK, At
<1>7. SharesOK'
  BY <1>1, <1>3, <1>4, SharesStay DEF Grow
<1> QED
  BY <1>3, <1>4, <1>5, <1>6, <1>7 DEF SaveOK, CopiesOK, RequestOK, At

(* The list of the shares is written with the copies that were made.       *)
LEMMA WriteSharesKeeps ==
  ASSUME UInv, At("sharing") \/ (At("preserving") /\ Legacy \subseteq request.copied),
         WriteShares
  PROVE  UInv'
<1> USE DEF UInv
<1>1. /\ shares' = [s \in Shares |-> IF s \in request.copied THEN << s, 0 >> ELSE shares[s]]
      /\ UNCHANGED << assets, saved, meant >>
      /\ request' = IF At("sharing") THEN Idle ELSE [request EXCEPT !.pc = "removing"]
  BY DEF WriteShares
<1>2. At("sharing") => /\ request' \in RequestType /\ request'.pc = "idle"
                       /\ request'.docs = {} /\ request'.copied = {}
  BY <1>1, IdleRequest DEF Idle
<1>3. ~At("sharing") => /\ request' \in RequestType /\ request'.pc = "removing"
                        /\ request'.docs = request.docs /\ request'.copied = request.copied
  BY <1>1 DEF FilesOK, RequestType, Places
<1>4. FilesOK'
  <2>1. \A d \in Documents : DocumentOK(saved[d], meant[d], d)'
    BY <1>1 DEF FilesOK, DocumentOK
  <2> QED  BY <1>1, <1>2, <1>3, <2>1 DEF FilesOK
<1>5. ShownOK'
  BY <1>1, <1>2, <1>3, ShownStays DEF RequestOK, At
<1>6. SharesOK'
  <2> SUFFICES ASSUME NEW s \in Shares, shares'[s] # NoUrl
               PROVE  /\ \E x \in Records \cup {s} : shares'[s] = << x, 0 >>
                      /\ assets[shares'[s]] # NoPicture
                      /\ request'.pc = "removing" => shares'[s][1] \notin request.docs
    BY <1>1, <1>2, <1>3 DEF SharesOK, ShareOK
  <2>1. CASE s \in request.copied
    <3>1. shares'[s] = << s, 0 >> /\ assets[<< s, 0 >>] # NoPicture
      BY <1>1, <2>1 DEF CopiesOK
    <3>2. request.docs \subseteq Documents
      BY DEF FilesOK, RequestType
    <3>3. s \notin request.docs
      BY <3>2, DirsDiffer DEF Documents
    <3> QED  BY <3>1, <3>3
  <2>2. CASE s \notin request.copied
    <3>1. shares'[s] = shares[s]
      BY <1>1, <2>2
    <3>2. request'.pc = "removing" => shares[s][1] \notin request.docs
      BY <1>2, <2>2, <3>1 DEF Legacy, At
    <3> QED  BY <3>1, <3>2 DEF SharesOK, ShareOK
  <2> QED  BY <2>1, <2>2
<1>7. CopiesOK'
  BY <1>1, <1>2, <1>3 DEF CopiesOK
<1> QED
  BY <1>2, <1>3, <1>4, <1>5, <1>6, <1>7 DEF SaveOK, RequestOK, At

-------------------------------------------------------------------------------
(* Deletions. *)

LEMMA BeginDeleteKeeps ==
  ASSUME UInv, NEW rs \in SUBSET Records, BeginDelete(rs)
  PROVE  UInv'
<1> USE DEF UInv
<1>1. /\ At("idle") /\ request' = [Idle EXCEPT !.pc = "preserving", !.docs = rs]
      /\ UNCHANGED << assets, saved, shares, meant >>
  BY DEF BeginDelete
<1>2. /\ request'.pc = "preserving" /\ request'.docs = rs /\ request'.copied = {}
      /\ request' \in RequestType
  <2>1. request' = [ pc |-> "preserving", docs |-> rs, body |-> << >>, out |-> << >>,
                     copied |-> {} ]
    BY <1>1 DEF Idle
  <2>2. << >> \in Seq(Urls) /\ << >> \in Seq(Given) /\ rs \in SUBSET Documents
    BY DEF Documents
  <2>3. request' \in RequestType
    BY <2>1, <2>2 DEF RequestType, Places
  <2> QED  BY <2>1, <2>3
<1>3. FilesOK'
  BY <1>1, <1>2, FilesStay DEF FilesOK
<1>4. ShownOK'
  BY <1>1, <1>2, ShownStays DEF RequestOK, At
<1>5. SharesOK'
  BY <1>1, <1>2, SharesStay
<1> QED
  BY <1>2, <1>3, <1>4, <1>5 DEF SaveOK, CopiesOK, RequestOK, At

LEMMA PreserveOneKeeps ==
  ASSUME UInv, PreserveOne
  PROVE  UInv'
<1> USE DEF UInv
<1>1. PICK s \in Legacy \ request.copied :
        /\ assets[shares[s]] # NoPicture
        /\ assets' = [assets EXCEPT ![<< s, 0 >>] = assets[shares[s]]]
        /\ request' = [request EXCEPT !.copied = @ \cup {s}]
  BY DEF PreserveOne
<1>2. At("preserving") /\ UNCHANGED << saved, shares, meant >>
  BY DEF PreserveOne
<1>3. s \in Shares /\ shares[s] # NoUrl /\ shares[s] \in Urls /\ << s, 0 >> \in Urls
  BY <1>1, ShareLeads, FirstFile DEF Legacy, Dirs
<1>4. /\ assets' \in [Urls -> Pictures \cup {NoPicture}] /\ Grow
      /\ assets'[<< s, 0 >>] # NoPicture
  BY <1>1, <1>3 DEF FilesOK, Grow
<1>5. /\ request'.pc = "preserving" /\ request'.docs = request.docs
      /\ request'.copied = request.copied \cup {s} /\ request' \in RequestType
  BY <1>1, <1>2, <1>3 DEF FilesOK, RequestType, At
<1>6. FilesOK'
  BY <1>2, <1>4, <1>5, FilesStay
<1>7. ShownOK'
  BY <1>2, <1>4, <1>5, ShownStays DEF Grow
<1>8. SharesOK'
  BY <1>2, <1>4, <1>5, SharesStay DEF Grow
<1>9. CopiesOK'
  <2>1. \A t \in request.copied : << t, 0 >> \in Urls
    BY FirstFile DEF FilesOK, RequestType, Dirs
  <2> QED  BY <1>4, <1>5, <2>1 DEF CopiesOK, Grow
<1> QED
  BY <1>2, <1>5, <1>6, <1>7, <1>8, <1>9 DEF SaveOK, RequestOK, At

LEMMA PreserveDoneKeeps ==
  ASSUME UInv, PreserveDone
  PROVE  UInv'
<1> USE DEF UInv
<1>1. CASE request.copied # {}
  BY <1>1, WriteSharesKeeps DEF PreserveDone
<1>2. CASE request.copied = {}
  <2>1. /\ At("preserving") /\ Legacy = {}
        /\ request' = [request EXCEPT !.pc = "removing"]
        /\ UNCHANGED << assets, saved, shares, meant >>
    BY <1>2 DEF PreserveDone
  <2>2. /\ request'.pc = "removing" /\ request'.docs = request.docs
        /\ request'.copied = request.copied /\ request' \in RequestType
    BY <2>1 DEF FilesOK, RequestType, Places
  <2>3. FilesOK'
    BY <2>1, <2>2, FilesStay DEF FilesOK
  <2>4. ShownOK'
    BY <2>1, <2>2, ShownStays
  <2>5. SharesOK'
    BY <2>1, <2>2, SharesStay DEF Legacy
  <2> QED
    BY <2>1, <2>2, <2>3, <2>4, <2>5 DEF SaveOK, CopiesOK, RequestOK, At
<1> QED  BY <1>1, <1>2

LEMMA RemoveDirsKeeps ==
  ASSUME UInv, RemoveDirs
  PROVE  UInv'
<1> USE DEF UInv
<1>1. /\ At("removing") /\ assets' = Removed(request.docs)
      /\ request' = [request EXCEPT !.pc = "forgetting"]
      /\ UNCHANGED << saved, shares, meant >>
  BY DEF RemoveDirs
<1>2. /\ assets' \in [Urls -> Pictures \cup {NoPicture}]
      /\ \A u \in Urls : u[1] \notin request.docs => assets'[u] = assets[u]
  BY <1>1 DEF FilesOK, Removed
<1>3. /\ request'.pc = "forgetting" /\ request'.docs = request.docs
      /\ request'.copied = request.copied /\ request' \in RequestType
  BY <1>1 DEF FilesOK, RequestType, Places
<1>4. FilesOK'
  BY <1>1, <1>2, <1>3, FilesStay
<1>5. ShownOK'
  BY <1>1, <1>2, <1>3, ShownStays
<1>6. \A s \in Shares : shares[s] # NoUrl => shares[s][1] \notin request.docs
  BY <1>1 DEF SharesOK, ShareOK, At
<1>7. SharesOK'
  BY <1>1, <1>2, <1>3, <1>6, SharesStay
<1>8. CopiesOK'
  <2>1. \A s \in request.copied : << s, 0 >> \in Urls /\ << s, 0 >>[1] \notin request.docs
    BY FirstFile, DirsDiffer DEF FilesOK, RequestType, Dirs, Documents
  <2> QED  BY <1>2, <1>3, <2>1 DEF CopiesOK
<1> QED
  BY <1>1, <1>3, <1>4, <1>5, <1>7, <1>8 DEF SaveOK, RequestOK, At

LEMMA DeleteSessionKeeps ==
  ASSUME UInv, DeleteSession
  PROVE  UInv'
<1> USE DEF UInv
<1>1. /\ At("idle")
      /\ saved' = [saved EXCEPT ![Session] = << >>]
      /\ meant' = [meant EXCEPT ![Session] = << >>]
      /\ request' = [Idle EXCEPT !.pc = "removing", !.docs = {Session}]
      /\ UNCHANGED << assets, shares >>
  BY DEF DeleteSession
<1>2. /\ request'.pc = "removing" /\ request'.docs = {Session} /\ request'.copied = {}
      /\ request' \in RequestType
  <2>1. request' = [ pc |-> "removing", docs |-> {Session}, body |-> << >>, out |-> << >>,
                     copied |-> {} ]
    BY <1>1 DEF Idle
  <2>2. /\ << >> \in Seq(Urls) /\ << >> \in Seq(Given) /\ {Session} \in SUBSET Documents
    BY DEF Documents
  <2>3. request' \in RequestType
    BY <2>1, <2>2 DEF RequestType, Places
  <2> QED  BY <2>1, <2>3
<1>3. /\ saved'[Session] = << >> /\ meant'[Session] = << >>
      /\ \A d \in Documents \ {Session} : saved'[d] = saved[d] /\ meant'[d] = meant[d]
  BY <1>1 DEF FilesOK, Documents
<1>4. FilesOK'
  <2>1. ASSUME NEW d \in Documents
        PROVE  DocumentOK(saved'[d], meant'[d], d)
    <3>1. CASE d = Session
      <4>1. saved'[d] = << >> /\ meant'[d] = << >>
        BY <1>3, <3>1
      <4> QED  BY <4>1 DEF DocumentOK
    <3>2. CASE d # Session
      BY <1>3, <3>2 DEF FilesOK
    <3> QED  BY <3>1, <3>2
  <2>2. /\ saved' = [d \in Documents |-> saved'[d]] /\ meant' = [d \in Documents |-> meant'[d]]
    BY <1>1 DEF FilesOK
  <2> QED  BY <1>1, <1>2, <2>1, <2>2 DEF FilesOK
<1>5. ShownOK'
  BY <1>1, <1>2, <1>3 DEF ShownOK, RequestOK, At
<1>6. SharesOK'
  BY <1>1, <1>2, SharesStay, ShareLeads
<1> QED
  BY <1>2, <1>4, <1>5, <1>6 DEF SaveOK, CopiesOK, RequestOK, At

LEMMA ForgetKeeps ==
  ASSUME UInv, Forget
  PROVE  UInv'
<1> USE DEF UInv
<1>1. /\ At("forgetting")
      /\ saved' = [d \in Documents |-> IF d \in request.docs THEN << >> ELSE saved[d]]
      /\ meant' = [d \in Documents |-> IF d \in request.docs THEN << >> ELSE meant[d]]
      /\ request' = Idle /\ UNCHANGED << assets, shares >>
  BY DEF Forget
<1>2. FilesOK'
  <2>1. ASSUME NEW d \in Documents
        PROVE  DocumentOK(saved'[d], meant'[d], d)
    <3>1. CASE d \in request.docs
      BY <1>1, <3>1 DEF DocumentOK
    <3>2. CASE d \notin request.docs
      BY <1>1, <3>2 DEF FilesOK
    <3> QED  BY <3>1, <3>2
  <2>2. /\ saved' = [d \in Documents |-> saved'[d]] /\ meant' = [d \in Documents |-> meant'[d]]
    BY <1>1
  <2> QED  BY <1>1, <2>1, <2>2, IdleRequest DEF FilesOK
<1>3. ShownOK'
  BY <1>1 DEF ShownOK
<1>4. SharesOK'
  BY <1>1, IdleRequest, SharesStay
<1> QED  BY <1>1, <1>2, <1>3, <1>4, IdleRequest


-------------------------------------------------------------------------------
(* A request is cut short, perhaps in the middle of a removal. *)

(* What such a removal may take is of the documents that the request       *)
(* changes, and never what a share shows.                                  *)
LEMMA CutTakes ==
  ASSUME UInv,
         NEW gone \in SUBSET (IF At("removing") THEN UNION { Files(d) : d \in request.docs }
                              ELSE IF Stored /\ Doc = Session THEN Unreferenced ELSE {})
  PROVE  /\ \A u \in gone : u[1] \in request.docs /\ ~At("preserving")
         /\ \A s \in Shares : shares[s] # NoUrl => shares[s] \notin gone
<1>1. CASE At("removing")
  <2>1. \A u \in gone : u[1] \in request.docs
    BY <1>1 DEF Files
  <2>2. \A s \in Shares : shares[s] # NoUrl => shares[s][1] \notin request.docs
    BY <1>1 DEF UInv, SharesOK, ShareOK, At
  <2> QED  BY <1>1, <2>1, <2>2 DEF At
<1>2. CASE ~At("removing") /\ Stored /\ Doc = Session
  <2>1. request.docs = {Session} /\ At("storing")
    BY <1>2, SaveHas DEF Stored, At
  <2>2. \A u \in gone : u[1] = Session
    BY <1>2 DEF Unreferenced, Files
  <2> QED  BY <2>1, <2>2, ShareLeads DEF At, UInv
<1>3. CASE ~At("removing") /\ ~(Stored /\ Doc = Session)
  BY <1>3
<1> QED  BY <1>1, <1>2, <1>3

LEMMA CutShortKeeps ==
  ASSUME UInv, CutShort
  PROVE  UInv'
<1> USE DEF UInv
<1>1. PICK gone \in SUBSET (IF At("removing") THEN UNION { Files(d) : d \in request.docs }
                            ELSE IF Stored /\ Doc = Session THEN Unreferenced ELSE {}) :
        assets' = [u \in Urls |-> IF u \in gone THEN NoPicture ELSE assets[u]]
  BY DEF CutShort
<1>2. /\ meant' = [d \in Documents |->
                    IF request.pc \in {"preserving", "sharing"} \/ d \notin request.docs
                    THEN meant[d] ELSE [i \in DOMAIN meant[d] |-> NoPicture]]
      /\ request' = Idle /\ UNCHANGED << saved, shares >>
  BY DEF CutShort
<1>3. /\ \A u \in gone : u[1] \in request.docs /\ ~At("preserving")
      /\ \A s \in Shares : shares[s] # NoUrl => shares[s] \notin gone
  BY CutTakes
<1>4. assets' \in [Urls -> Pictures \cup {NoPicture}]
  BY <1>1 DEF FilesOK
<1>5. FilesOK'
  <2>1. ASSUME NEW d \in Documents
        PROVE  DocumentOK(saved[d], meant'[d], d)
    <3>1. CASE meant'[d] = meant[d]
      BY <3>1 DEF FilesOK
    <3>2. CASE meant'[d] = [i \in DOMAIN meant[d] |-> NoPicture]
      <4>1. DocumentOK(saved[d], meant[d], d)
        BY DEF FilesOK
      <4>2. /\ meant'[d] \in Seq(Pictures \cup {NoPicture})
            /\ Len(meant'[d]) = Len(meant[d])
        BY <3>2, <4>1 DEF DocumentOK
      <4> QED  BY <4>1, <4>2 DEF DocumentOK
    <3> QED  BY <1>2, <3>1, <3>2
  <2>2. meant' = [d \in Documents |-> meant'[d]]
    BY <1>2
  <2> QED  BY <1>2, <1>4, <2>1, <2>2, IdleRequest DEF FilesOK
<1>6. ShownOK'
  <2> SUFFICES ASSUME NEW d \in Documents, NEW i \in DOMAIN saved[d], meant'[d][i] # NoPicture
               PROVE  assets'[saved[d][i]] # NoPicture
    BY <1>2 DEF ShownOK
  <2>1. /\ saved[d][i] \in Urls /\ saved[d][i][1] = d
        /\ DOMAIN meant[d] = DOMAIN saved[d]
    BY DEF FilesOK, DocumentOK
  <2>2. d \notin request.docs \/ At("preserving")
    BY <1>2, <2>1 DEF RequestOK, At
  <2>3. meant'[d] = meant[d]
    BY <1>2, <2>2 DEF At
  <2>4. assets[saved[d][i]] # NoPicture
    BY <2>2, <2>3 DEF ShownOK
  <2>5. saved[d][i] \notin gone
    BY <1>3, <2>1, <2>2
  <2> QED  BY <1>1, <2>1, <2>4, <2>5
<1>7. SharesOK'
  BY <1>1, <1>2, <1>3, IdleRequest, SharesStay
<1> QED  BY <1>2, <1>5, <1>6, <1>7, IdleRequest

-------------------------------------------------------------------------------
(* The theorems. *)

LEMMA NextKeepsFiles ==
  ASSUME UInv, [Next]_vars
  PROVE  UInv'
<1>1. CASE Next
  <2>1. CASE \E d \in Documents : \E body \in Bodies(d) : BeginSave(d, body)
    BY <2>1, BeginSaveKeeps
  <2>2. CASE StoreUrl
    BY <2>2, StoreUrlKeeps
  <2>3. CASE Prune
    BY <2>3, PruneKeeps
  <2>4. CASE WriteDocument
    BY <2>4, WriteDocumentKeeps
  <2>5. CASE \E s \in Shares : \E url \in Urls : BeginShare(s, url)
    BY <2>5, BeginShareKeeps
  <2>6. CASE At("sharing") /\ WriteShares
    BY <2>6, WriteSharesKeeps
  <2>7. CASE \E rs \in SUBSET Records : BeginDelete(rs)
    BY <2>7, BeginDeleteKeeps
  <2>8. CASE PreserveOne
    BY <2>8, PreserveOneKeeps
  <2>9. CASE PreserveDone
    BY <2>9, PreserveDoneKeeps
  <2>10. CASE RemoveDirs
    BY <2>10, RemoveDirsKeeps
  <2>11. CASE Forget
    BY <2>11, ForgetKeeps
  <2>12. CASE DeleteSession
    BY <2>12, DeleteSessionKeeps
  <2>13. CASE CutShort
    BY <2>13, CutShortKeeps
  <2>14. /\ \A r \in Records : {r} \in SUBSET Records
         /\ { r \in Records : saved[r] # << >> } \in SUBSET Records
    OBVIOUS
  <2> QED
    BY <1>1, <2>1, <2>2, <2>3, <2>4, <2>5, <2>6, <2>7, <2>8, <2>9, <2>10, <2>11, <2>12,
       <2>13, <2>14 DEF Next
<1>2. CASE UNCHANGED vars
  <2>1. FilesOK' /\ ShownOK' /\ SharesOK' /\ CopiesOK' /\ RequestOK'
    BY <1>2 DEF UInv, vars, FilesOK, DocumentOK, ShownOK, SharesOK, ShareOK, CopiesOK,
                RequestOK, At
  <2>2. SaveOK'
    BY <1>2 DEF UInv, vars, SaveOK, Kept, At
  <2> QED  BY <2>1, <2>2 DEF UInv
<1> QED  BY <1>1, <1>2

(* The invariant of the user's directory: documents name pictures of their *)
(* own directory that are stored before and removed after what names them, *)
(* and a share leads into a record only while no request removes it.       *)
THEOREM FilesInvariant == Spec => []UInv
BY InitIsWhole, NextKeepsFiles, PTL DEF Spec

(* A document whose last save was complete shows every picture of it,      *)
(* wherever other requests on the directory fail or are killed.            *)
THEOREM PicturesStay == Spec => []ReferencesResolve
<1>1. UInv => ReferencesResolve
  BY DEF UInv, ShownOK, ReferencesResolve, Settled
<1> QED  BY <1>1, FilesInvariant, PTL

(* A share keeps its picture through the deletion of the record that it    *)
(* was made from, wherever the deletion stops.                             *)
THEOREM SharesStayWhole == Spec => []SharesKeepPictures
<1>1. UInv => SharesKeepPictures
  BY DEF UInv, SharesOK, ShareOK, SharesKeepPictures
<1> QED  BY <1>1, FilesInvariant, PTL
===============================================================================
