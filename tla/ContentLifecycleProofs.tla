----------------------- MODULE ContentLifecycleProofs -----------------------
(***************************************************************************)
(* Proofs about ContentLifecycle, for every number of requests, revisions  *)
(* and pieces of work, with and without failures.                          *)
(***************************************************************************)
EXTENDS ContentLifecycle, TLAPS

-----------------------------------------------------------------------------
(* A request moves on *)

\* What a request may go on as, when the item is it and the revisions revs;
\* alone: no other request has committed during it.
Good(then, revs, it, alone) ==
    /\ then \in Request
    /\ then.pc # "idle" => it.status # "none"
    /\ then.pc = "publish" => then.seen.draft # NoRev
    /\ then.pc = "unpublish" => then.seen.published # NoRev
    /\ then.pc = "restore" => then.source # NoRev
    /\ alone /\ then.pc \in {"edit", "publish", "unpublish", "archive", "restore"}
       => then.seen = it
    /\ alone /\ then.op = "editAndPublish" =>
         /\ then.pc \in {"loadEdit", "edit"} => it.draft = NoRev
         /\ then.pc \in {"loadPublish", "publish"} =>
              /\ it.draft # NoRev
              /\ revs[it.draft].text \subseteq
                   then.patch \cup (IF it.published = NoRev THEN {}
                                    ELSE revs[it.published].text)

\* A request that is over is nothing to worry about.
LEMMA IdleIsGood ==
    ASSUME NEW revs, NEW it, NEW alone \in BOOLEAN PROVE Good(Idle, revs, it, alone)
  BY DEF Good, Idle, Request, PCs, Item, ItemStatus, NoItem, NoRev

\* A step that only moves one request keeps the invariant.
LEMMA ProceedsStep ==
    ASSUME IInv, NEW r \in Req, NEW then, Good(then, rev, item, r \notin crossed),
           Proceeds(r, then, {}), UNCHANGED <<rev, item>>, edits' \in 0..MaxEdits
    PROVE  IInv'
<1> USE DEF IInv
<1>1. req' = [req EXCEPT ![r] = then] /\ then \in Request
  BY DEF Proceeds, Good
<1>2. /\ req'[r] = then
      /\ \A p \in Req \ {r} : req'[p] = req[p]
      /\ crossed' \subseteq crossed
      /\ \A p \in Req \ {r} : p \in crossed' <=> p \in crossed
      /\ r \in crossed' <=> r \in crossed /\ then.pc # "idle"
  BY <1>1 DEF Proceeds, TypeOK
<1>3. TypeOK'
  BY <1>1, <1>2 DEF TypeOK
<1>4. StatusAndPointers' /\ OneOfEach(rev)' /\ PointersRight' /\ NothingYet'
  BY DEF StatusAndPointers, OneOfEach, With, PointersRight, NothingYet
<1>5. Requests'
  BY <1>2 DEF Requests, At, Good
<1>6. FreshReads'
  BY <1>2 DEF FreshReads, Good
<1>7. InlineAlone'
  BY <1>2 DEF InlineAlone, Good, PageWork
<1> QED
  BY <1>3, <1>4, <1>5, <1>6, <1>7

\* ... and so does a request that reads, is refused, or fails.
LEMMA ContinuesStep ==
    ASSUME IInv, NEW r \in Req, NEW then, Good(then, rev, item, r \notin crossed),
           Continues(r, then)
    PROVE  IInv'
  BY ProceedsStep DEF Continues, IInv, TypeOK

\* The status of an item that exists says what its pointers do.
Fits(it) ==
    /\ it.status # "none"
    /\ it.published # NoRev \/ it.draft # NoRev
    /\ it.status = "published" => it.published # NoRev
    /\ it.status = "draft" => it.published = NoRev

\* The indexes and the trigger let a transaction through that keeps the status
\* of the item in line with its pointers; every other request is crossed.
LEMMA TransactStep ==
    ASSUME IInv, NEW r \in Req, NEW then,
           NEW revs \in [RevNo -> Revision], NEW it \in Item, Fits(it),
           Good(then, revs, it, r \notin crossed), Transact(r, revs, it, then)
    PROVE  IInv'
<1> USE DEF IInv
<1>1. CASE ~(OneOfEach(revs) /\ PointersAgree(revs, it))
  <2>1. Continues(r, Idle)
    BY <1>1 DEF Transact
  <2> QED
    BY <2>1, IdleIsGood, ContinuesStep
<1>2. CASE OneOfEach(revs) /\ PointersAgree(revs, it)
  <2>1. /\ rev' = revs /\ item' = it /\ edits' = edits
        /\ Proceeds(r, then, {p \in Req \ {r} : ~At(p, "idle")})
    BY <1>2 DEF Transact
  <2>2. req' = [req EXCEPT ![r] = then] /\ then \in Request
    BY <2>1 DEF Proceeds, Good
  <2>3. /\ req'[r] = then
        /\ \A p \in Req \ {r} : req'[p] = req[p]
        /\ crossed' \subseteq Req
        /\ \A p \in Req \ {r} : ~At(p, "idle") => p \in crossed'
        /\ \A p \in Req \ {r} : At(p, "idle") => p \notin crossed'
        /\ r \in crossed' <=> r \in crossed /\ then.pc # "idle"
    BY <2>1, <2>2 DEF Proceeds, TypeOK, Requests
  <2>4. TypeOK'
    BY <2>1, <2>2, <2>3 DEF TypeOK
  <2>5. StatusAndPointers' /\ NothingYet'
    BY <2>1 DEF StatusAndPointers, NothingYet, Fits
  <2>6. OneOfEach(rev)'
    BY <1>2, <2>1 DEF OneOfEach, With
  <2>7. PointersRight'
    BY <1>2, <2>1 DEF PointersAgree, With, PointersRight
  <2>8. Requests'
    BY <2>1, <2>3 DEF Requests, At, Good, Fits
  <2>9. FreshReads'
    BY <2>1, <2>3 DEF FreshReads, At, Good
  <2>10. InlineAlone'
    BY <2>1, <2>3 DEF InlineAlone, At, Good, PageWork
  <2> QED
    BY <2>4, <2>5, <2>6, <2>7, <2>8, <2>9, <2>10
<1> QED
  BY <1>1, <1>2

-----------------------------------------------------------------------------
(* The steps *)

\* The requests that arrive keep the invariant.
LEMMA ArriveStep ==
    ASSUME IInv, NEW r \in Req, Arrive(r) PROVE IInv'
<1> USE DEF IInv
<1>0. At(r, "idle") /\ r \notin crossed
  BY DEF Arrive, Requests
<1>t. item \in Item /\ rev \in [RevNo -> Revision] /\ edits \in 0..MaxEdits
  BY DEF TypeOK
<1>1. CASE CreateDraft(r)
  <2> DEFINE revs == [rev EXCEPT ![1].status = "draft"]
             it == [NoItem EXCEPT !.status = "draft", !.draft = 1]
  <2>1. 1 \in RevNo
    BY <1>1, ConstantsAssumption DEF CreateDraft, RevNo
  <2>2. revs \in [RevNo -> Revision] /\ it \in Item
    BY <1>t, <2>1, ZenonT(60) DEF Revision, RevisionStatus, Item, ItemStatus, NoItem
  <2>3. Fits(it)
    BY DEF Fits, NoItem, NoRev
  <2>4. Transact(r, revs, it, Idle)
    BY <1>1 DEF CreateDraft
  <2> HIDE DEF revs, it
  <2> QED
    BY <2>2, <2>3, <2>4, IdleIsGood, TransactStep
<1>2. ASSUME NEW patch \in SUBSET Work, EditDraft(r, patch) PROVE IInv'
  <2> DEFINE then == [Idle EXCEPT !.pc = "edit", !.op = "edit", !.seen = item,
                                  !.patch = patch]
  <2>1. Good(then, rev, item, r \notin crossed)
    BY <1>2, <1>t DEF EditDraft, Good, Idle, Request, PCs, AllOps, NoRev
  <2>2. edits' \in 0..MaxEdits
    BY <1>2, <1>t, ConstantsAssumption DEF EditDraft, Patches
  <2>3. Proceeds(r, then, {}) /\ UNCHANGED <<rev, item>>
    BY <1>2 DEF EditDraft
  <2> HIDE DEF then
  <2> QED
    BY <2>1, <2>2, <2>3, ProceedsStep
<1>3. ASSUME NEW patch \in SUBSET Work, EditAndPublish(r, patch) PROVE IInv'
  <2> DEFINE then == [Idle EXCEPT !.pc = "loadEdit", !.op = "editAndPublish",
                                  !.patch = patch]
  <2>1. Good(then, rev, item, r \notin crossed)
    BY <1>3, <1>t
    DEF EditAndPublish, Good, Idle, Request, PCs, AllOps, NoRev, Item, ItemStatus, NoItem
  <2>2. edits' \in 0..MaxEdits
    BY <1>3, <1>t, ConstantsAssumption DEF EditAndPublish, Patches
  <2>3. Proceeds(r, then, {}) /\ UNCHANGED <<rev, item>>
    BY <1>3 DEF EditAndPublish
  <2> HIDE DEF then
  <2> QED
    BY <2>1, <2>2, <2>3, ProceedsStep
<1>4. CASE Publish(r)
  <2> DEFINE then == [Idle EXCEPT !.pc = "publish", !.op = "publish", !.seen = item]
  <2>1. item.status # "none"
    BY <1>4, <1>0 DEF Publish, NothingYet, PointersRight, TypeOK, Item
  <2>2. Good(then, rev, item, r \notin crossed)
    BY <1>4, <1>t, <2>1 DEF Publish, Good, Idle, Request, PCs, AllOps, NoRev
  <2>3. Continues(r, then)
    BY <1>4 DEF Publish
  <2> HIDE DEF then
  <2> QED
    BY <2>2, <2>3, ContinuesStep
<1>5. CASE Unpublish(r)
  <2> DEFINE then == [Idle EXCEPT !.pc = "unpublish", !.op = "unpublish", !.seen = item]
  <2>1. item.status # "none"
    BY <1>5, <1>0 DEF Unpublish, NothingYet, PointersRight, TypeOK, Item
  <2>2. Good(then, rev, item, r \notin crossed)
    BY <1>5, <1>t, <2>1 DEF Unpublish, Good, Idle, Request, PCs, AllOps, NoRev
  <2>3. Continues(r, then)
    BY <1>5 DEF Unpublish
  <2> HIDE DEF then
  <2> QED
    BY <2>2, <2>3, ContinuesStep
<1>6. CASE Archive(r)
  <2> DEFINE then == [Idle EXCEPT !.pc = "archive", !.op = "archive", !.seen = item]
  <2>1. Good(then, rev, item, r \notin crossed)
    BY <1>6, <1>t DEF Archive, Good, Idle, Request, PCs, AllOps, NoRev
  <2>2. Continues(r, then)
    BY <1>6 DEF Archive
  <2> HIDE DEF then
  <2> QED
    BY <2>1, <2>2, ContinuesStep
<1>7. ASSUME NEW n \in RevNo, Restore(r, n) PROVE IInv'
  <2> DEFINE then == [Idle EXCEPT !.pc = "restore", !.op = "restore", !.seen = item,
                                  !.source = n, !.text = rev[n].text]
  <2>1. item.status # "none" /\ n # NoRev
    BY <1>7 DEF Restore, NothingYet, NoRev, RevNo
  <2>2. rev[n].text \in SUBSET Work
    BY <1>t DEF Revision
  <2>3. Good(then, rev, item, r \notin crossed)
    BY <1>7, <1>t, <2>1, <2>2 DEF Restore, Good, Idle, Request, PCs, AllOps, NoRev
  <2>4. Continues(r, then)
    BY <1>7 DEF Restore
  <2> HIDE DEF then
  <2> QED
    BY <2>3, <2>4, ContinuesStep
<1> QED
  BY <1>1, <1>2, <1>3, <1>4, <1>5, <1>6, <1>7 DEF Arrive

\* A new draft keeps the invariant, whatever the request goes on to do with it.
LEMMA OpenDraftStep ==
    ASSUME IInv, NEW r \in Req, ~At(r, "idle"), NEW text \in SUBSET Work, NEW then,
           OpenDraft(r, text, then),
           \A n \in RevNo : NextNo(n) =>
             Good(then, [rev EXCEPT ![n] = [status |-> "draft", text |-> text]],
                  [item EXCEPT !.draft = n], r \notin crossed)
    PROVE  IInv'
<1>1. ASSUME NEW n \in RevNo, NextNo(n),
             Transact(r, [rev EXCEPT ![n] = [status |-> "draft", text |-> text]],
                         [item EXCEPT !.draft = n], then)
      PROVE  IInv'
  <2> DEFINE revs == [rev EXCEPT ![n] = [status |-> "draft", text |-> text]]
             it == [item EXCEPT !.draft = n]
  <2>1. revs \in [RevNo -> Revision] /\ it \in Item
    BY DEF IInv, TypeOK, Revision, RevisionStatus, Item
  <2>2. it.draft = n /\ it.published = item.published /\ it.status = item.status
    BY DEF IInv, TypeOK, Item
  <2>3. item.status # "none" /\ n # NoRev
    BY DEF IInv, Requests, RevNo, NoRev
  <2>4. Fits(it)
    BY <2>2, <2>3 DEF Fits, IInv, StatusAndPointers
  <2>5. Good(then, revs, it, r \notin crossed) /\ Transact(r, revs, it, then)
    BY <1>1
  <2> HIDE DEF revs, it
  <2> QED
    BY <2>1, <2>4, <2>5, TransactStep
<1>2. ASSUME Continues(r, Idle) PROVE IInv'
  BY <1>2, IdleIsGood, ContinuesStep
<1> QED
  BY <1>1, <1>2 DEF OpenDraft

\* The reads of editAndPublish keep the invariant.
LEMMA LoadStep ==
    ASSUME IInv, NEW r \in Req, LoadEdit(r) \/ LoadPublish(r) PROVE IInv'
<1> USE DEF IInv
<1>t. item \in Item /\ req[r] \in Request /\ item.status # "none"
  BY DEF TypeOK, Requests, LoadEdit, LoadPublish, At
<1>1. CASE LoadEdit(r)
  <2> DEFINE then == [req[r] EXCEPT !.pc = "edit", !.seen = item]
  <2>1. /\ then \in Request /\ then.pc = "edit" /\ then.seen = item
        /\ then.op = req[r].op
    BY <1>t DEF Request, PCs
  <2>2. r \notin crossed /\ req[r].op = "editAndPublish" => item.draft = NoRev
    BY <1>1 DEF InlineAlone, LoadEdit, At
  <2>3. Continues(r, then)
    BY <1>1 DEF LoadEdit
  <2> HIDE DEF then
  <2>4. Good(then, rev, item, r \notin crossed)
    BY <1>t, <2>1, <2>2 DEF Good
  <2> QED
    BY <2>3, <2>4, ContinuesStep
<1>2. CASE LoadPublish(r) /\ item.draft = NoRev
  <2>1. Continues(r, Idle)
    BY <1>2 DEF LoadPublish
  <2> QED
    BY <2>1, IdleIsGood, ContinuesStep
<1>3. CASE LoadPublish(r) /\ item.draft # NoRev
  <2> DEFINE then == [req[r] EXCEPT !.pc = "publish", !.seen = item]
  <2>1. /\ then \in Request /\ then.pc = "publish" /\ then.seen = item
        /\ then.op = req[r].op /\ then.patch = req[r].patch
    BY <1>t DEF Request, PCs
  <2>2. r \notin crossed /\ req[r].op = "editAndPublish" =>
          rev[item.draft].text \subseteq req[r].patch \cup PageWork
    BY <1>3 DEF InlineAlone, LoadPublish, At
  <2>3. Continues(r, then)
    BY <1>3 DEF LoadPublish
  <2> HIDE DEF then
  <2>4. Good(then, rev, item, r \notin crossed)
    BY <1>3, <1>t, <2>1, <2>2 DEF Good, PageWork
  <2> QED
    BY <2>3, <2>4, ContinuesStep
<1> QED
  BY <1>1, <1>2, <1>3

\* editDraft keeps the invariant, also as the first half of editAndPublish.
LEMMA EditStep ==
    ASSUME IInv, NEW r \in Req, WriteEdit(r) PROVE IInv'
<1> USE DEF IInv
<1> DEFINE d == req[r].seen.draft
           patch == req[r].patch
           then == IF req[r].op = "edit" THEN Idle
                   ELSE [req[r] EXCEPT !.pc = "loadPublish"]
           inline == r \notin crossed /\ req[r].op = "editAndPublish"
<1>t. /\ item \in Item /\ req[r] \in Request /\ item.status # "none"
      /\ rev \in [RevNo -> Revision] /\ ~At(r, "idle") /\ At(r, "edit")
  BY DEF TypeOK, Requests, WriteEdit, At
<1>s. d \in RevNo \cup {NoRev} /\ patch \in SUBSET Work
  BY <1>t DEF Request, Item
<1>i. inline => item.draft = NoRev /\ d = NoRev /\ req[r].seen = item
  BY <1>t DEF InlineAlone, FreshReads, At
<1>g. ASSUME NEW revs, NEW it, it.status # "none",
             inline => /\ it.draft # NoRev
                       /\ revs[it.draft].text \subseteq
                            patch \cup (IF it.published = NoRev THEN {}
                                        ELSE revs[it.published].text)
      PROVE  Good(then, revs, it, r \notin crossed)
  <2>1. CASE req[r].op = "edit"
    BY <2>1, IdleIsGood
  <2>2. CASE req[r].op # "edit"
    <3>1. /\ then \in Request /\ then.pc = "loadPublish"
          /\ then.op = req[r].op /\ then.patch = patch
      BY <2>2, <1>t DEF Request, PCs
    <3> HIDE DEF then
    <3> QED
      BY <3>1, <1>g DEF Good
  <2> QED
    BY <2>1, <2>2
<1> HIDE DEF then
<1>1. CASE d # NoRev /\ patch = {}
  <2>1. Continues(r, then)
    BY <1>1 DEF WriteEdit, then
  <2>2. Good(then, rev, item, r \notin crossed)
    BY <1>1, <1>t, <1>i, <1>g
  <2> QED
    BY <2>1, <2>2, ContinuesStep
<1>2. CASE d # NoRev /\ patch # {}
  <2> DEFINE revs == [rev EXCEPT ![d].text = @ \cup patch]
  <2>1. Transact(r, revs, item, then)
    BY <1>2 DEF WriteEdit, then
  <2>2. revs \in [RevNo -> Revision]
    BY <1>2, <1>s, <1>t DEF Revision
  <2>3. Good(then, revs, item, r \notin crossed)
    BY <1>2, <1>t, <1>i, <1>g
  <2>4. Fits(item)
    BY <1>t DEF Fits, StatusAndPointers
  <2> HIDE DEF revs
  <2> QED
    BY <1>t, <2>1, <2>2, <2>3, <2>4, TransactStep
<1>3. CASE d = NoRev
  <2>1. PICK n \in RevNo :
          /\ req[r].seen.published # NoRev => n = req[r].seen.published
          /\ OpenDraft(r, rev[n].text \cup patch, then)
    <3>1. req[r].seen.published # NoRev => req[r].seen.published \in RevNo
      BY <1>t DEF Request, Item
    <3> QED
      BY <1>3, <3>1 DEF WriteEdit, then
  <2>2. rev[n].text \cup patch \in SUBSET Work
    BY <1>s, <1>t DEF Revision
  <2>3. ASSUME NEW m \in RevNo, NextNo(m)
        PROVE  Good(then, [rev EXCEPT ![m] = [status |-> "draft",
                                              text |-> rev[n].text \cup patch]],
                    [item EXCEPT !.draft = m], r \notin crossed)
    <3> DEFINE revs == [rev EXCEPT ![m] = [status |-> "draft",
                                           text |-> rev[n].text \cup patch]]
               it == [item EXCEPT !.draft = m]
    <3>1. it.draft = m /\ it.published = item.published /\ it.status = item.status
      BY <1>t DEF Item
    <3>2. m # NoRev
      BY DEF RevNo, NoRev
    <3>3. revs[m].text = rev[n].text \cup patch
      BY <1>t
    <3>4. inline => /\ n = item.published /\ item.published # NoRev
                    /\ revs[n].text = rev[n].text
      <4>1. inline => item.published # NoRev
        BY <1>i, <1>t DEF StatusAndPointers
      <4>2. inline => n = item.published
        BY <1>i, <2>1, <4>1
      <4>3. inline => m # n
        BY <2>3, <4>1, <4>2 DEF NextNo, PointersRight
      <4> QED
        BY <1>t, <4>1, <4>2, <4>3
    <3> HIDE DEF revs, it
    <3>5. Good(then, revs, it, r \notin crossed)
      BY <1>t, <3>1, <3>2, <3>3, <3>4, <1>g
    <3> QED
      BY <3>5 DEF revs, it
  <2> QED
    BY <1>t, <2>1, <2>2, <2>3, OpenDraftStep
<1> QED
  BY <1>1, <1>2, <1>3

\* publish keeps the invariant, however old what it read is.
LEMMA PublishStep ==
    ASSUME IInv, NEW r \in Req, WritePublish(r) PROVE IInv'
<1> USE DEF IInv
<1> DEFINE seen == req[r].seen
           old == IF seen.published # NoRev
                  THEN [rev EXCEPT ![seen.published].status = "superseded"] ELSE rev
           revs == [old EXCEPT ![seen.draft].status = "published"]
           it == [item EXCEPT !.published = seen.draft, !.draft = NoRev,
                              !.status = "published"]
<1>1. /\ item \in Item /\ seen \in Item /\ rev \in [RevNo -> Revision]
      /\ item.status # "none" /\ seen.draft # NoRev
  BY DEF TypeOK, Requests, WritePublish, At, Request
<1>2. old \in [RevNo -> Revision]
  BY <1>1 DEF Revision, RevisionStatus, Item
<1> HIDE DEF old
<1>3. revs \in [RevNo -> Revision]
  BY <1>1, <1>2 DEF Revision, RevisionStatus, Item
<1>4. /\ it \in Item /\ it.published = seen.draft /\ it.status = "published"
  BY <1>1 DEF Item, ItemStatus, NoRev
<1>5. Fits(it)
  BY <1>1, <1>4 DEF Fits
<1>6. Transact(r, revs, it, Idle)
  BY Zenon DEF WritePublish, old
<1> HIDE DEF revs, it
<1> QED
  BY <1>3, <1>4, <1>5, <1>6, IdleIsGood, TransactStep

\* ... and so does unpublish.
LEMMA UnpublishStep ==
    ASSUME IInv, NEW r \in Req, WriteUnpublish(r) PROVE IInv'
<1> USE DEF IInv
<1> DEFINE seen == req[r].seen
           d == IF seen.draft = NoRev THEN seen.published ELSE seen.draft
           status == IF seen.draft = NoRev THEN "draft" ELSE "superseded"
           revs == [rev EXCEPT ![seen.published].status = status]
           it == [item EXCEPT !.published = NoRev, !.draft = d, !.status = "draft"]
<1>1. /\ item \in Item /\ seen \in Item /\ rev \in [RevNo -> Revision]
      /\ item.status # "none" /\ seen.published # NoRev
  BY DEF TypeOK, Requests, WriteUnpublish, At, Request
<1>2. revs \in [RevNo -> Revision]
  BY <1>1 DEF Revision, RevisionStatus, Item
<1>3. d \in RevNo /\ d # NoRev
  BY <1>1 DEF Item
<1> HIDE DEF d
<1>4. it \in Item /\ it.published = NoRev /\ it.draft = d /\ it.status = "draft"
  BY <1>1, <1>3 DEF Item, ItemStatus, NoRev
<1>5. Fits(it)
  BY <1>3, <1>4 DEF Fits
<1>6. Transact(r, revs, it, Idle)
  BY DEF WriteUnpublish, d
<1> HIDE DEF revs, it
<1> QED
  BY <1>2, <1>4, <1>5, <1>6, IdleIsGood, TransactStep

\* archive keeps it, for it leaves the pointers alone.
LEMMA ArchiveStep ==
    ASSUME IInv, NEW r \in Req, WriteArchive(r) PROVE IInv'
<1> USE DEF IInv
<1> DEFINE it == [item EXCEPT !.status = "archived", !.archived = TRUE]
<1>1. item \in Item /\ item.status # "none" /\ rev \in [RevNo -> Revision]
  BY DEF TypeOK, Requests, WriteArchive, At
<1>2. /\ it \in Item /\ it.status = "archived" /\ it.published = item.published
      /\ it.draft = item.draft
  BY <1>1 DEF Item, ItemStatus
<1>3. Fits(it)
  BY <1>1, <1>2 DEF Fits, StatusAndPointers
<1>4. Transact(r, rev, it, Idle)
  BY DEF WriteArchive
<1> HIDE DEF it
<1> QED
  BY <1>1, <1>2, <1>3, <1>4, IdleIsGood, TransactStep

\* restore keeps it, into the draft it read or into one it opens.
LEMMA RestoreStep ==
    ASSUME IInv, NEW r \in Req, WriteRestore(r) PROVE IInv'
<1> USE DEF IInv
<1> DEFINE d == req[r].seen.draft
           text == req[r].text \cup rev[req[r].source].text
           revs == [rev EXCEPT ![d].text = text]
<1>1. /\ item \in Item /\ req[r] \in Request /\ rev \in [RevNo -> Revision]
      /\ item.status # "none" /\ req[r].source # NoRev /\ ~At(r, "idle")
  BY DEF TypeOK, Requests, WriteRestore, At
<1>2. text \in SUBSET Work /\ d \in RevNo \cup {NoRev}
  BY <1>1 DEF Request, Revision, Item
<1>3. CASE d # NoRev
  <2>1. revs \in [RevNo -> Revision]
    BY <1>1, <1>2, <1>3 DEF Revision
  <2>2. Fits(item)
    BY <1>1 DEF Fits, StatusAndPointers
  <2>3. Transact(r, revs, item, Idle)
    BY <1>3 DEF WriteRestore
  <2> HIDE DEF revs
  <2> QED
    BY <1>1, <2>1, <2>2, <2>3, IdleIsGood, TransactStep
<1>4. CASE d = NoRev
  <2>1. OpenDraft(r, text, Idle)
    BY <1>4 DEF WriteRestore
  <2> HIDE DEF text
  <2> QED
    BY <1>1, <1>2, <2>1, IdleIsGood, OpenDraftStep
<1> QED
  BY <1>3, <1>4

-----------------------------------------------------------------------------
(* The invariant *)

\* No item, and nothing in progress.
LEMMA IInvInit == Init => IInv
<1> SUFFICES ASSUME Init PROVE IInv
  OBVIOUS
<1>1. TypeOK
  <2>1. Idle \in Request
    BY IdleIsGood DEF Good
  <2>2. 0 \in 0..MaxEdits
    BY ConstantsAssumption
  <2>3. NoItem \in Item
    BY DEF NoItem, Item, ItemStatus, NoRev
  <2>4. [status |-> "none", text |-> {}] \in Revision
    BY DEF Revision, RevisionStatus
  <2> QED
    BY <2>1, <2>2, <2>3, <2>4 DEF Init, TypeOK
<1>2. StatusAndPointers /\ OneOfEach(rev) /\ PointersRight /\ NothingYet
  BY DEF Init, NoItem, NoRev, StatusAndPointers, OneOfEach, With, PointersRight, NothingYet
<1>3. Requests /\ FreshReads /\ InlineAlone
  BY DEF Init, Idle, Requests, FreshReads, InlineAlone, At
<1> QED
  BY <1>1, <1>2, <1>3 DEF IInv

\* Every step keeps the invariant.
LEMMA IInvStep == IInv /\ [Next]_vars => IInv'
<1> SUFFICES ASSUME IInv, [Next]_vars PROVE IInv'
  OBVIOUS
<1>1. CASE UNCHANGED vars
  BY <1>1
  DEF vars, IInv, TypeOK, StatusAndPointers, OneOfEach, With, PointersRight, Requests,
      NothingYet, FreshReads, InlineAlone, PageWork, At
<1>2. ASSUME NEW r \in Req, Arrive(r) PROVE IInv'
  BY <1>2, ArriveStep
<1>3. ASSUME NEW r \in Req, Step(r) PROVE IInv'
  BY <1>3, LoadStep, EditStep, PublishStep, UnpublishStep, ArchiveStep, RestoreStep DEF Step
<1>4. ASSUME NEW r \in Req, Fail(r) PROVE IInv'
  BY <1>4, IdleIsGood, ContinuesStep DEF Fail
<1> QED
  BY <1>1, <1>2, <1>3, <1>4 DEF Next

\* The invariant that the runs check, for every value of the constants.
THEOREM Invariance == Spec => []IInv
  BY IInvInit, IInvStep, PTL DEF Spec

\* An item that exists keeps a revision to edit or to publish, and a page
\* exactly when its status says so, however requests overtake one another.
THEOREM ItemStaysUsable == Spec => []StatusAndPointers
<1>1. IInv => StatusAndPointers
  BY DEF IInv
<1> QED
  BY <1>1, Invariance, PTL

-----------------------------------------------------------------------------
(* What an undisturbed request does *)

SamePointers == item'.published = item.published /\ item'.draft = item.draft

Opens ==
    /\ item.draft = NoRev
    /\ item'.published = item.published
    /\ rev[item'.draft].status = "none" /\ rev'[item'.draft].status = "draft"
    /\ \A m \in RevNo : m # item'.draft => rev'[m] = rev[m]

Writes ==
    /\ item.draft # NoRev
    /\ SamePointers
    /\ \A m \in RevNo : rev'[m].status = rev[m].status
    /\ \A m \in RevNo : m # item.draft => rev'[m].text = rev[m].text

Publishes ==
    /\ item.draft # NoRev
    /\ item'.published = item.draft /\ item'.draft = NoRev
    /\ \A m \in RevNo :
         /\ rev'[m].text = rev[m].text
         /\ rev'[m].status = IF m = item.draft THEN "published"
                             ELSE IF m = item.published THEN "superseded"
                             ELSE rev[m].status

Unpublishes ==
    /\ item.published # NoRev
    /\ item'.published = NoRev
    /\ item'.draft = IF item.draft = NoRev THEN item.published ELSE item.draft
    /\ \A m \in RevNo :
         /\ rev'[m].text = rev[m].text
         /\ rev'[m].status = IF m # item.published THEN rev[m].status
                             ELSE IF item.draft = NoRev THEN "draft" ELSE "superseded"

\* A transaction is committed, or nothing changes but the request.
LEMMA TransactEffect ==
    ASSUME NEW r \in Req, NEW revs, NEW it, NEW then, Transact(r, revs, it, then)
    PROVE  (rev' = revs /\ item' = it) \/ (rev' = rev /\ item' = item)
<1>1. CASE OneOfEach(revs) /\ PointersAgree(revs, it)
  BY <1>1 DEF Transact
<1>2. CASE ~(OneOfEach(revs) /\ PointersAgree(revs, it))
  BY <1>2 DEF Transact, Continues
<1> QED
  BY <1>1, <1>2

\* A request that nobody crossed does to the item what it read it for.
LEMMA UndisturbedStep ==
    ASSUME IInv, NEW r \in Req \ crossed, Arrive(r) \/ Step(r) \/ Fail(r)
    PROVE  (rev' = rev /\ SamePointers) \/ Opens \/ Writes \/ Publishes \/ Unpublishes
<1> USE DEF IInv
<1>t. /\ item \in Item /\ rev \in [RevNo -> Revision]
      /\ item.draft # NoRev => rev[item.draft].status = "draft"
      /\ item.published # NoRev => rev[item.published].status = "published"
      /\ req[r].pc \in {"edit", "publish", "unpublish", "archive", "restore"}
         => req[r].seen = item
  BY DEF TypeOK, PointersRight, FreshReads
<1>0. ASSUME UNCHANGED <<rev, item>> PROVE rev' = rev /\ SamePointers
  BY <1>0 DEF SamePointers
<1>1. CASE CreateDraft(r)
  <2>1. item.draft = NoRev /\ item.published = NoRev
    BY <1>1, <1>t DEF CreateDraft, NothingYet, Item
  <2>2. 1 \in RevNo /\ rev[1].status = "none"
    BY <1>1, ConstantsAssumption DEF CreateDraft, NothingYet, RevNo
  <2>3. \/ UNCHANGED <<rev, item>>
        \/ /\ rev' = [rev EXCEPT ![1].status = "draft"]
           /\ item' = [NoItem EXCEPT !.status = "draft", !.draft = 1]
    BY <1>1, TransactEffect DEF CreateDraft
  <2>4. ASSUME rev' = [rev EXCEPT ![1].status = "draft"],
               item' = [NoItem EXCEPT !.status = "draft", !.draft = 1]
        PROVE  Opens
    <3>1. item'.draft = 1 /\ item'.published = NoRev
      BY <2>4 DEF NoItem
    <3>2. /\ rev'[1].status = "draft"
          /\ \A m \in RevNo : m # 1 => rev'[m] = rev[m]
      BY <2>4, <2>2, <1>t DEF Revision
    <3> QED
      BY <2>1, <2>2, <3>1, <3>2 DEF Opens
  <2> QED
    BY <1>0, <2>3, <2>4
<1>2. ASSUME Arrive(r), ~CreateDraft(r) PROVE UNCHANGED <<rev, item>>
  BY <1>2 DEF Arrive, EditDraft, EditAndPublish, Publish, Unpublish, Archive, Restore,
              Continues
<1>3. ASSUME LoadEdit(r) \/ LoadPublish(r) \/ Fail(r) PROVE UNCHANGED <<rev, item>>
  BY <1>3 DEF LoadEdit, LoadPublish, Fail, Continues
<1>4. ASSUME NEW text, NEW then, item.draft = NoRev, OpenDraft(r, text, then)
      PROVE  (rev' = rev /\ SamePointers) \/ Opens
  <2>1. CASE Continues(r, Idle)
    BY <2>1, <1>0 DEF Continues
  <2>2. ASSUME NEW n \in RevNo, NextNo(n),
               Transact(r, [rev EXCEPT ![n] = [status |-> "draft", text |-> text]],
                           [item EXCEPT !.draft = n], then)
        PROVE  (rev' = rev /\ SamePointers) \/ Opens
    <3>1. \/ UNCHANGED <<rev, item>>
          \/ /\ rev' = [rev EXCEPT ![n] = [status |-> "draft", text |-> text]]
             /\ item' = [item EXCEPT !.draft = n]
      BY <2>2, TransactEffect
    <3> QED
      BY <1>0, <1>4, <1>t, <2>2, <3>1 DEF Opens, NextNo, Item
  <2> QED
    BY <1>4, <2>1, <2>2 DEF OpenDraft
<1>5. CASE WriteEdit(r)
  <2>1. req[r].seen = item
    BY <1>5, <1>t DEF WriteEdit, At
  <2>2. CASE item.draft = NoRev
    BY <1>5, <2>1, <2>2, <1>4 DEF WriteEdit
  <2>3. CASE item.draft # NoRev
    <3>1. \/ UNCHANGED <<rev, item>>
          \/ /\ rev' = [rev EXCEPT ![item.draft].text = @ \cup req[r].patch]
             /\ item' = item
      BY <1>5, <2>1, <2>3, TransactEffect DEF WriteEdit, Continues
    <3> QED
      BY <1>0, <1>t, <2>3, <3>1 DEF Writes, SamePointers, Revision
  <2> QED
    BY <2>2, <2>3
<1>6. CASE WritePublish(r)
  <2>1. req[r].seen = item /\ item.draft # NoRev
    BY <1>6, <1>t DEF WritePublish, At, Requests
  <2> DEFINE old == IF item.published # NoRev
                    THEN [rev EXCEPT ![item.published].status = "superseded"] ELSE rev
  <2>2. \/ UNCHANGED <<rev, item>>
        \/ /\ rev' = [old EXCEPT ![item.draft].status = "published"]
           /\ item' = [item EXCEPT !.published = item.draft, !.draft = NoRev,
                                   !.status = "published"]
    BY <1>6, <2>1, TransactEffect, Zenon DEF WritePublish
  <2>3. /\ old \in [RevNo -> Revision]
        /\ \A m \in RevNo :
             /\ old[m].text = rev[m].text
             /\ old[m].status = IF m = item.published THEN "superseded" ELSE rev[m].status
    BY <1>t DEF Revision, RevisionStatus, RevNo, NoRev, Item
  <2> HIDE DEF old
  <2>4. ASSUME rev' = [old EXCEPT ![item.draft].status = "published"],
               item' = [item EXCEPT !.published = item.draft, !.draft = NoRev,
                                    !.status = "published"]
        PROVE  Publishes
    <3>1. item'.published = item.draft /\ item'.draft = NoRev
      BY <1>t, <2>4 DEF Item
    <3>2. \A m \in RevNo :
            /\ rev'[m].text = old[m].text
            /\ rev'[m].status = IF m = item.draft THEN "published" ELSE old[m].status
      BY <2>3, <2>4 DEF Revision
    <3> QED
      BY <2>1, <2>3, <3>1, <3>2 DEF Publishes
  <2> QED
    BY <1>0, <2>2, <2>4
<1>7. CASE WriteUnpublish(r)
  <2>1. req[r].seen = item /\ item.published # NoRev
    BY <1>7, <1>t DEF WriteUnpublish, At, Requests
  <2> DEFINE d == IF item.draft = NoRev THEN item.published ELSE item.draft
             status == IF item.draft = NoRev THEN "draft" ELSE "superseded"
  <2>2. \/ UNCHANGED <<rev, item>>
        \/ /\ rev' = [rev EXCEPT ![item.published].status = status]
           /\ item' = [item EXCEPT !.published = NoRev, !.draft = d, !.status = "draft"]
    BY <1>7, <2>1, TransactEffect DEF WriteUnpublish
  <2>3. ASSUME rev' = [rev EXCEPT ![item.published].status = status],
               item' = [item EXCEPT !.published = NoRev, !.draft = d, !.status = "draft"]
        PROVE  Unpublishes
    <3>1. item'.published = NoRev /\ item'.draft = d
      BY <1>t, <2>3 DEF Item
    <3>2. \A m \in RevNo :
            /\ rev'[m].text = rev[m].text
            /\ rev'[m].status = IF m = item.published THEN status ELSE rev[m].status
      BY <1>t, <2>3 DEF Revision
    <3> QED
      BY <2>1, <3>1, <3>2 DEF Unpublishes
  <2> QED
    BY <1>0, <2>2, <2>3
<1>8. CASE WriteArchive(r)
  <2>1. \/ UNCHANGED <<rev, item>>
        \/ rev' = rev /\ item' = [item EXCEPT !.status = "archived", !.archived = TRUE]
    BY <1>8, TransactEffect DEF WriteArchive
  <2> QED
    BY <1>0, <1>t, <2>1 DEF SamePointers, Item
<1>9. CASE WriteRestore(r)
  <2>1. req[r].seen = item
    BY <1>9, <1>t DEF WriteRestore, At
  <2>2. CASE item.draft = NoRev
    BY <1>9, <2>1, <2>2, <1>4 DEF WriteRestore
  <2>3. CASE item.draft # NoRev
    <3>1. \/ UNCHANGED <<rev, item>>
          \/ /\ rev' = [rev EXCEPT ![item.draft].text =
                                     req[r].text \cup rev[req[r].source].text]
             /\ item' = item
      BY <1>9, <2>1, <2>3, TransactEffect DEF WriteRestore
    <3> QED
      BY <1>0, <1>t, <2>3, <3>1 DEF Writes, SamePointers, Revision
  <2> QED
    BY <2>2, <2>3
<1> QED
  BY <1>0, <1>1, <1>2, <1>3, <1>5, <1>6, <1>7, <1>8, <1>9 DEF Step

\* A request that was crossed shows when it takes a step.
LEMMA CrossedStep ==
    ASSUME IInv, NEW r \in crossed, Arrive(r) \/ Step(r) \/ Fail(r)
    PROVE  r \in Req /\ StepsOf(r)
<1> USE DEF IInv
<1>1. r \in Req /\ ~At(r, "idle") /\ req[r] \in Request
  BY DEF TypeOK, Requests
<1>2. ASSUME NEW revs, NEW it, NEW then, then.pc # req[r].pc,
             Transact(r, revs, it, then) \/ Continues(r, then)
      PROVE  StepsOf(r)
  BY <1>1, <1>2 DEF Transact, Continues, Proceeds, StepsOf, At, Idle, TypeOK
<1>3. Idle.pc = "idle"
  BY DEF Idle
<1>4. CASE Fail(r)
  BY <1>1, <1>2, <1>3, <1>4 DEF Fail, At
<1>5. CASE LoadEdit(r) \/ LoadPublish(r)
  BY <1>1, <1>2, <1>3, <1>5 DEF LoadEdit, LoadPublish, At, Request
<1>6. CASE WriteEdit(r)
  <2> DEFINE then == IF req[r].op = "edit" THEN Idle
                     ELSE [req[r] EXCEPT !.pc = "loadPublish"]
  <2>1. then.pc # "edit" /\ Idle.pc # "edit" /\ req[r].pc = "edit"
    BY <1>1, <1>3, <1>6 DEF WriteEdit, At, Request
  <2>2. \/ Continues(r, then) \/ Continues(r, Idle)
        \/ \E revs, it : Transact(r, revs, it, then)
    BY <1>6 DEF WriteEdit, OpenDraft
  <2> HIDE DEF then
  <2> QED
    BY <1>1, <1>2, <2>1, <2>2
<1>7. CASE WritePublish(r) \/ WriteUnpublish(r) \/ WriteArchive(r)
  BY <1>1, <1>2, <1>3, <1>7 DEF WritePublish, WriteUnpublish, WriteArchive, At
<1>8. CASE WriteRestore(r)
  BY <1>1, <1>2, <1>3, <1>8 DEF WriteRestore, OpenDraft, At
<1> QED
  BY <1>1, <1>4, <1>5, <1>6, <1>7, <1>8 DEF Arrive, Step

-----------------------------------------------------------------------------
(* What only a race can do *)

\* The pointers of an item leave a draft or a published revision behind only
\* in a request that another request has committed during: one at a time, the
\* operations keep content_item and content_revision in line.
THEOREM PointersNeedARace == Spec => PointersLostByRaceOnly
<1>1. ASSUME IInv, [Next]_vars, DraftPointerMatches, PublishedPointerMatches,
             ~(DraftPointerMatches /\ PublishedPointerMatches)'
      PROVE  \E r \in crossed : StepsOf(r)
  <2>1. rev' # rev \/ item' # item
    BY <1>1 DEF DraftPointerMatches, PublishedPointerMatches, With
  <2>2. PICK r \in Req : Arrive(r) \/ Step(r) \/ Fail(r)
    BY <1>1, <2>1 DEF Next, vars
  <2>3. CASE r \in crossed
    BY <1>1, <2>2, <2>3, CrossedStep
  <2>4. ASSUME r \notin crossed PROVE FALSE
    <3>1. (rev' = rev /\ SamePointers) \/ Opens \/ Writes \/ Publishes \/ Unpublishes
      BY <1>1, <2>2, <2>4, UndisturbedStep
    <3>2. /\ \A n \in RevNo : rev[n].status = "draft" => item.draft = n
          /\ \A n \in RevNo : rev[n].status = "published" => item.published = n
          /\ NoRev \notin RevNo
      BY <1>1 DEF DraftPointerMatches, PublishedPointerMatches, With, NoRev, RevNo
    <3>3. PointersRight
      BY <1>1 DEF IInv
    <3>4. \A n \in RevNo : /\ rev'[n].status = "draft" => item'.draft = n
                           /\ rev'[n].status = "published" => item'.published = n
      <4>1. CASE (rev' = rev /\ SamePointers) \/ Writes
        BY <3>2, <4>1 DEF SamePointers, Writes
      <4>2. CASE Opens
        BY <3>2, <4>2 DEF Opens
      <4>3. CASE Publishes
        BY <3>2, <4>3 DEF Publishes
      <4>4. CASE Unpublishes
        BY <3>2, <3>3, <4>4 DEF Unpublishes, PointersRight
      <4> QED
        BY <3>1, <4>1, <4>2, <4>3, <4>4
    <3> QED
      BY <1>1, <3>4 DEF DraftPointerMatches, PublishedPointerMatches, With
  <2> QED
    BY <2>3, <2>4
<1> QED
  BY <1>1, Invariance, PTL DEF Spec, PointersLostByRaceOnly

\* What was published once is rewritten, or comes back from the history, only
\* in a request that another request has committed during.
THEOREM RewritingNeedsARace == Spec => HistoryRewrittenByRaceOnly
<1>1. ASSUME IInv, [Next]_vars, NEW n \in RevNo,
             \/ /\ rev[n].status \in {"published", "superseded"}
                /\ rev'[n].text # rev[n].text
             \/ rev[n].status = "superseded" /\ rev'[n].status # "superseded"
      PROVE  \E r \in crossed : StepsOf(r)
  <2>1. PICK r \in Req : Arrive(r) \/ Step(r) \/ Fail(r)
    BY <1>1 DEF Next, vars
  <2>2. CASE r \in crossed
    BY <1>1, <2>1, <2>2, CrossedStep
  <2>3. ASSUME r \notin crossed PROVE FALSE
    <3>1. (rev' = rev /\ SamePointers) \/ Opens \/ Writes \/ Publishes \/ Unpublishes
      BY <1>1, <2>1, <2>3, UndisturbedStep
    <3>2. /\ item.draft = n => rev[n].status = "draft"
          /\ item.published = n => rev[n].status = "published"
      BY <1>1 DEF IInv, PointersRight, RevNo, NoRev
    <3>3. CASE (rev' = rev /\ SamePointers) \/ Writes
      BY <1>1, <3>2, <3>3 DEF Writes
    <3>4. CASE Opens
      BY <1>1, <3>4 DEF Opens
    <3>5. CASE Publishes
      BY <1>1, <3>2, <3>5 DEF Publishes
    <3>6. CASE Unpublishes
      BY <1>1, <3>2, <3>6 DEF Unpublishes
    <3> QED
      BY <3>1, <3>3, <3>4, <3>5, <3>6
  <2> QED
    BY <2>2, <2>3
<1>2. IInv /\ [Next]_vars =>
        \A n \in RevNo :
          \/ /\ rev[n].status \in {"published", "superseded"}
             /\ rev'[n].text # rev[n].text
          \/ /\ rev[n].status = "superseded"
             /\ rev'[n].status # "superseded"
          => \E r \in crossed : StepsOf(r)
  BY <1>1
<1> QED
  BY <1>2, Invariance, PTL DEF Spec, HistoryRewrittenByRaceOnly

\* An inline edit that no other request committed during publishes the page as
\* it was with its own work, and nobody else's draft.
THEOREM InlineEditsAlone == Spec => InlinePublishesOwnWorkAlone
<1>1. ASSUME IInv, [Next]_vars, NEW r \in Req \ crossed, StepsOf(r),
             PublishesForeignWork(r)
      PROVE  FALSE
  <2>1. /\ req[r].op = "editAndPublish" /\ At(r, "publish")
        /\ req[r].seen = item /\ item.draft # NoRev
        /\ rev[item.draft].text \subseteq req[r].patch \cup PageWork
    BY <1>1 DEF PublishesForeignWork, IInv, FreshReads, InlineAlone, At
  <2>2. PICK p \in Req : Arrive(p) \/ Step(p) \/ Fail(p)
    BY <1>1 DEF Next, StepsOf, vars
  <2>3. p = r
    <3>1. SUFFICES ASSUME p # r PROVE req'[r] = req[r]
      BY <1>1 DEF StepsOf
    <3>2. ASSUME NEW then, NEW S, Proceeds(p, then, S) PROVE req'[r] = req[r]
      BY <1>1, <3>1, <3>2 DEF Proceeds, IInv, TypeOK
    <3>3. ASSUME NEW revs, NEW it, NEW then,
                 Transact(p, revs, it, then) \/ Continues(p, then)
          PROVE  req'[r] = req[r]
      BY <3>2, <3>3 DEF Transact, Continues
    <3>4. CASE Arrive(p)
      BY <3>2, <3>3, <3>4 DEF Arrive, CreateDraft, EditDraft, EditAndPublish, Publish,
                              Unpublish, Archive, Restore
    <3>5. CASE WriteEdit(p)
      BY <3>3, <3>5 DEF WriteEdit, OpenDraft
    <3>6. CASE Step(p) /\ ~WriteEdit(p)
      BY <3>3, <3>6 DEF Step, LoadEdit, LoadPublish, WritePublish, WriteUnpublish,
                        WriteArchive, WriteRestore, OpenDraft
    <3>7. CASE Fail(p)
      BY <3>3, <3>7 DEF Fail
    <3> QED
      BY <2>2, <3>4, <3>5, <3>6, <3>7
  <2>4. (rev' = rev /\ SamePointers) \/ Opens \/ Writes \/ Publishes \/ Unpublishes
    BY <1>1, <2>2, <2>3, UndisturbedStep
  <2>5. item'.published # item.published
    BY <1>1 DEF PublishesForeignWork
  <2>6. CASE Publishes
    <3>1. item'.published = item.draft /\ item.draft \in RevNo
      BY <1>1, <2>1, <2>6 DEF Publishes, IInv, TypeOK, Item
    <3>2. rev'[item.draft].text = rev[item.draft].text
      BY <2>6, <3>1 DEF Publishes
    <3> QED
      BY <1>1, <2>1, <3>1, <3>2 DEF PublishesForeignWork
  <2>7. ASSUME Unpublishes PROVE FALSE
    <3>1. ~WriteUnpublish(r)
      BY <2>1 DEF WriteUnpublish, At
    <3>2. \/ UNCHANGED <<rev, item>>
          \/ item' = [item EXCEPT !.published = item.draft, !.draft = NoRev,
                                  !.status = "published"]
      <4>1. CASE WritePublish(r)
        BY <2>1, <4>1, TransactEffect DEF WritePublish
      <4>2. CASE Fail(r)
        BY <4>2 DEF Fail, Continues
      <4> QED
        BY <2>1, <2>2, <2>3, <4>1, <4>2
        DEF Arrive, Step, At, LoadEdit, WriteEdit, LoadPublish, WriteUnpublish,
            WriteArchive, WriteRestore
    <3>3. item'.published = item.published \/ item'.published = item.draft
      BY <1>1, <3>2 DEF IInv, TypeOK, Item
    <3> QED
      BY <2>1, <2>5, <2>7, <3>3 DEF Unpublishes
  <2> QED
    BY <2>4, <2>5, <2>6, <2>7 DEF SamePointers, Opens, Writes
<1>2. IInv /\ [Next]_vars =>
        \A r \in Req \ crossed : StepsOf(r) => ~PublishesForeignWork(r)
  BY <1>1
<1> QED
  BY <1>2, Invariance, PTL DEF Spec, InlinePublishesOwnWorkAlone
=============================================================================
