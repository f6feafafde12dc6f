-------------------------- MODULE ContentLifecycle --------------------------
(***************************************************************************)
(* Drafts, publication and the version history of ONE content item         *)
(* (lib/cms/content.mjs over content_item and content_revision).           *)
(*                                                                         *)
(* A request reads the item, decides what to do, and then writes in one    *)
(* transaction, by the revision ids it read.  Between the read and the     *)
(* transaction other requests commit.  A transaction is one step here: it  *)
(* holds the rows it writes until it commits, writes the item last, and    *)
(* the unique indexes and the trigger check it against what is committed.  *)
(***************************************************************************)
EXTENDS Integers, FiniteSets

CONSTANTS
    Req,        \* the requests the server processes at the same time
    MaxRevs,    \* bound: how many revisions are ever created
    MaxEdits,   \* bound: how many pieces of work are ever submitted
    Ops,        \* the operations a run exercises
    Faults      \* TRUE: requests may fail between two of their steps

AllOps == {"edit", "publish", "editAndPublish", "unpublish", "archive", "restore"}

ASSUME ConstantsAssumption ==
    /\ MaxRevs \in Nat /\ MaxEdits \in Nat
    /\ Ops \subseteq AllOps
    /\ Faults \in BOOLEAN

RevNo == 1..MaxRevs     \* revisions, numbered as nextRevisionNo numbers them
Work == 1..MaxEdits     \* pieces of work, in the order of their submission
NoRev == 0

RevisionStatus == {"none", "draft", "published", "superseded"}
ItemStatus == {"none", "draft", "published", "archived"}

VARIABLES
    rev,     \* rev[n]: the status of revision n and the work it contains
    item,    \* the row of content_item: its status and its two pointers
    edits,   \* how many pieces of work were submitted
    req,     \* req[r]: where request r is and what it has read so far
    crossed  \* history: requests another one has committed during

vars == <<rev, item, edits, req, crossed>>

Revision == [status : RevisionStatus, text : SUBSET Work]

Item == [status : ItemStatus, archived : BOOLEAN,
         published : RevNo \cup {NoRev}, draft : RevNo \cup {NoRev}]

NoItem == [status |-> "none", archived |-> FALSE, published |-> NoRev, draft |-> NoRev]

PCs == {"idle", "loadEdit", "edit", "loadPublish", "publish", "unpublish",
        "archive", "restore"}

Request == [pc : PCs, op : AllOps \cup {"none"}, seen : Item,
            patch : SUBSET Work, source : RevNo \cup {NoRev}, text : SUBSET Work]

Idle == [pc |-> "idle", op |-> "none", seen |-> NoItem,
         patch |-> {}, source |-> NoRev, text |-> {}]

Init ==
    /\ rev = [n \in RevNo |-> [status |-> "none", text |-> {}]]
    /\ item = NoItem
    /\ edits = 0
    /\ req = [r \in Req |-> Idle]
    /\ crossed = {}

-----------------------------------------------------------------------------
(* What the database accepts *)

With(revs, status) == {n \in RevNo : revs[n].status = status}

\* content_revision_one_draft_uq and content_revision_one_published_uq.
OneOfEach(revs) ==
    \A status \in {"draft", "published"}, m, n \in RevNo :
        m \in With(revs, status) /\ n \in With(revs, status) => m = n

\* Mutant: the trigger looks at the published pointer only.
PublishedPointerAgrees(revs, it) ==
    it.published # NoRev => it.published \in With(revs, "published")

\* content_item_pointer_guard.
PointersAgree(revs, it) ==
    /\ it.published # NoRev => it.published \in With(revs, "published")
    /\ it.draft # NoRev => it.draft \in With(revs, "draft")

\* The number nextRevisionNo gives to a new revision.
NextNo(n) == rev[n].status = "none" /\ \A m \in 1..(n - 1) : rev[m].status # "none"

\* The latest revision of the item.
Latest(n) == rev[n].status # "none" /\ \A m \in RevNo : m > n => rev[m].status = "none"

-----------------------------------------------------------------------------
(* Requests *)

At(r, pc) == req[r].pc = pc

\* Request r goes on as `then', or is over; the others in S are crossed.
Proceeds(r, then, S) ==
    /\ req' = [req EXCEPT ![r] = then]
    /\ crossed' = {p \in crossed \cup S : p # r \/ then.pc # "idle"}

\* ... without having changed anything.
Continues(r, then) ==
    /\ Proceeds(r, then, {})
    /\ UNCHANGED <<rev, item, edits>>

\* The transaction of r: committed, or rejected by an index or the trigger.
Transact(r, revs, it, then) ==
    IF OneOfEach(revs) /\ PointersAgree(revs, it)
    THEN /\ rev' = revs
         /\ item' = it
         /\ Proceeds(r, then, {p \in Req \ {r} : ~At(p, "idle")})
         /\ UNCHANGED edits
    ELSE Continues(r, Idle)

\* createDraft: the item and its first revision.
CreateDraft(r) ==
    /\ item.status = "none"
    /\ MaxRevs > 0
    /\ Transact(r, [rev EXCEPT ![1].status = "draft"],
                   [NoItem EXCEPT !.status = "draft", !.draft = 1], Idle)

\* A patch with new work in it, or an empty one.
Patches(patch) ==
    \/ patch = {} /\ UNCHANGED edits
    \/ /\ edits < MaxEdits
       /\ edits' = edits + 1
       /\ patch = {edits + 1}

\* editDraft reads the item.
EditDraft(r, patch) ==
    /\ "edit" \in Ops
    /\ item.status # "none"
    /\ Patches(patch)
    /\ Proceeds(r, [Idle EXCEPT !.pc = "edit", !.op = "edit", !.seen = item,
                                !.patch = patch], {})
    /\ UNCHANGED <<rev, item>>

\* Mutant: an open draft does not matter.
EditAndPublishAny(r, patch) ==
    /\ "editAndPublish" \in Ops
    /\ item.status # "none"
    /\ Patches(patch)
    /\ Proceeds(r, [Idle EXCEPT !.pc = "loadEdit", !.op = "editAndPublish",
                                !.patch = patch], {})
    /\ UNCHANGED <<rev, item>>

\* editAndPublish refuses an item with an open draft; then it calls editDraft
\* and publish, and each of them reads the item again.
EditAndPublish(r, patch) ==
    /\ "editAndPublish" \in Ops
    /\ item.status # "none"
    /\ item.draft = NoRev
    /\ Patches(patch)
    /\ Proceeds(r, [Idle EXCEPT !.pc = "loadEdit", !.op = "editAndPublish",
                                !.patch = patch], {})
    /\ UNCHANGED <<rev, item>>

LoadEdit(r) ==
    /\ At(r, "loadEdit")
    /\ Continues(r, [req[r] EXCEPT !.pc = "edit", !.seen = item])

\* publish needs an open draft.
Publish(r) ==
    /\ "publish" \in Ops
    /\ item.draft # NoRev
    /\ Continues(r, [Idle EXCEPT !.pc = "publish", !.op = "publish", !.seen = item])

LoadPublish(r) ==
    /\ At(r, "loadPublish")
    /\ Continues(r, IF item.draft = NoRev THEN Idle
               ELSE [req[r] EXCEPT !.pc = "publish", !.seen = item])

\* unpublish needs a published revision.
Unpublish(r) ==
    /\ "unpublish" \in Ops
    /\ item.published # NoRev
    /\ Continues(r, [Idle EXCEPT !.pc = "unpublish", !.op = "unpublish", !.seen = item])

\* archive changes nothing the second time.
Archive(r) ==
    /\ "archive" \in Ops
    /\ item.status # "none"
    /\ ~item.archived
    /\ Continues(r, [Idle EXCEPT !.pc = "archive", !.op = "archive", !.seen = item])

\* restore reads the item, and the title of the revision to go back to.
Restore(r, n) ==
    /\ "restore" \in Ops
    /\ rev[n].status # "none"
    /\ Continues(r, [Idle EXCEPT !.pc = "restore", !.op = "restore", !.seen = item,
                            !.source = n, !.text = rev[n].text])

-----------------------------------------------------------------------------
(* Transactions *)

\* A new draft with the given work, and the pointer to it; a table of MaxRevs
\* revisions (the model's bound) rejects it.
OpenDraft(r, text, then) ==
    \/ \E n \in RevNo :
         /\ NextNo(n)
         /\ Transact(r, [rev EXCEPT ![n] = [status |-> "draft", text |-> text]],
                        [item EXCEPT !.draft = n], then)
    \/ /\ \A n \in RevNo : rev[n].status # "none"
       /\ Continues(r, Idle)

\* Mutant: without an open draft the published revision is edited in place.
EditInPlace(r) ==
    LET seen == req[r].seen
        d == IF seen.draft # NoRev THEN seen.draft ELSE seen.published
    IN  /\ At(r, "edit")
        /\ Transact(r, [rev EXCEPT ![d].text = @ \cup req[r].patch], item, Idle)

\* editDraft writes into the draft it read, or opens one from the published,
\* else from the latest revision.  editAndPublish then publishes.
WriteEdit(r) ==
    LET d == req[r].seen.draft
        patch == req[r].patch
        then == IF req[r].op = "edit" THEN Idle ELSE [req[r] EXCEPT !.pc = "loadPublish"]
        sources == IF req[r].seen.published # NoRev THEN {req[r].seen.published}
                   ELSE {n \in RevNo : Latest(n)}
    IN  /\ At(r, "edit")
        /\ IF d # NoRev
           THEN IF patch = {} THEN Continues(r, then)
                ELSE Transact(r, [rev EXCEPT ![d].text = @ \cup patch], item, then)
           ELSE \E n \in sources : OpenDraft(r, rev[n].text \cup patch, then)

\* publish supersedes the published revision it read, and moves the pointers.
WritePublish(r) ==
    LET seen == req[r].seen
        old == IF seen.published # NoRev
               THEN [rev EXCEPT ![seen.published].status = "superseded"] ELSE rev
    IN  /\ At(r, "publish")
        /\ Transact(r, [old EXCEPT ![seen.draft].status = "published"],
                       [item EXCEPT !.published = seen.draft, !.draft = NoRev,
                                    !.status = "published"], Idle)

\* Mutant: only the item's pointer to the published revision is cleared.
UnpublishPointerOnly(r) ==
    /\ At(r, "unpublish")
    /\ Transact(r, rev, [item EXCEPT !.published = NoRev, !.status = "draft"], Idle)

\* unpublish turns the published revision into the draft, or supersedes it
\* when a draft is open.
WriteUnpublish(r) ==
    LET seen == req[r].seen
        d == IF seen.draft = NoRev THEN seen.published ELSE seen.draft
        status == IF seen.draft = NoRev THEN "draft" ELSE "superseded"
    IN  /\ At(r, "unpublish")
        /\ Transact(r, [rev EXCEPT ![seen.published].status = status],
                       [item EXCEPT !.published = NoRev, !.draft = d,
                                    !.status = "draft"], Idle)

WriteArchive(r) ==
    /\ At(r, "archive")
    /\ Transact(r, rev, [item EXCEPT !.status = "archived", !.archived = TRUE], Idle)

\* restore overwrites the draft it read, or opens one: the title as it was
\* read first, the payload as it is now.
WriteRestore(r) ==
    LET d == req[r].seen.draft
        text == req[r].text \cup rev[req[r].source].text
    IN  /\ At(r, "restore")
        /\ IF d # NoRev
           THEN Transact(r, [rev EXCEPT ![d].text = text], item, Idle)
           ELSE OpenDraft(r, text, Idle)

\* The process or the connection gives out, or publish answers 403 to an
\* editor who may only edit: what was committed stays.
Fail(r) ==
    /\ Faults
    /\ ~At(r, "idle")
    /\ Continues(r, Idle)

-----------------------------------------------------------------------------

\* An editor's request reaches the server.
Arrive(r) ==
    /\ At(r, "idle")
    /\ \/ CreateDraft(r)
       \/ \E patch \in SUBSET Work : EditDraft(r, patch) \/ EditAndPublish(r, patch)
       \/ Publish(r)
       \/ Unpublish(r)
       \/ Archive(r)
       \/ \E n \in RevNo : Restore(r, n)

\* Its next read or its transaction.
Step(r) ==
    \/ LoadEdit(r)
    \/ WriteEdit(r)
    \/ LoadPublish(r)
    \/ WritePublish(r)
    \/ WriteUnpublish(r)
    \/ WriteArchive(r)
    \/ WriteRestore(r)

Next == \E r \in Req : Arrive(r) \/ Step(r) \/ Fail(r)

Spec == Init /\ [][Next]_vars

-----------------------------------------------------------------------------
(* Invariants *)

\* The rows and the requests keep their types.
TypeOK ==
    /\ rev \in [RevNo -> Revision]
    /\ item \in Item
    /\ edits \in 0..MaxEdits
    /\ req \in [Req -> Request]
    /\ crossed \subseteq Req

\* An item never loses its last pointer, so that there always is something to
\* edit or to publish, and its status says whether it has a public page:
\* neither is a constraint of the database.
StatusAndPointers ==
    item.status # "none" =>
        /\ item.published # NoRev \/ item.draft # NoRev
        /\ item.status = "published" => item.published # NoRev
        /\ item.status = "draft" => item.published = NoRev

\* The draft the item points to is the one there is (the other direction of
\* the trigger content_item_pointer_guard): otherwise no draft can be opened.
DraftPointerMatches == \A n \in With(rev, "draft") : item.draft = n

\* ... and so for the published revision.
PublishedPointerMatches == \A n \in With(rev, "published") : item.published = n

-----------------------------------------------------------------------------
(* The inductive invariant *)

\* The item's pointers lead to a published revision and to a draft.
PointersRight ==
    /\ item.published # NoRev => rev[item.published].status = "published"
    /\ item.draft # NoRev => rev[item.draft].status = "draft"

\* Requests work on an item that exists, with the ids their first read found.
Requests ==
    \A r \in Req :
        /\ At(r, "idle") => r \notin crossed
        /\ ~At(r, "idle") => item.status # "none"
        /\ At(r, "publish") => req[r].seen.draft # NoRev
        /\ At(r, "unpublish") => req[r].seen.published # NoRev
        /\ At(r, "restore") => req[r].source # NoRev

NothingYet == item.status = "none" => \A n \in RevNo : rev[n].status = "none"

\* What a request read is what there is, unless another one committed.
FreshReads ==
    \A r \in Req \ crossed :
        req[r].pc \in {"edit", "publish", "unpublish", "archive", "restore"}
        => req[r].seen = item

\* The work on the public page.
PageWork == IF item.published = NoRev THEN {} ELSE rev[item.published].text

\* An undisturbed inline edit works on an item without a draft, and then on
\* the draft it has opened itself.
InlineAlone ==
    \A r \in Req \ crossed : req[r].op = "editAndPublish" =>
        /\ req[r].pc \in {"loadEdit", "edit"} => item.draft = NoRev
        /\ req[r].pc \in {"loadPublish", "publish"} =>
             /\ item.draft # NoRev
             /\ rev[item.draft].text \subseteq req[r].patch \cup PageWork

\* What every step keeps: an undisturbed request knows the item it writes.
IInv ==
    /\ TypeOK
    /\ StatusAndPointers
    /\ OneOfEach(rev)
    /\ PointersRight
    /\ Requests
    /\ NothingYet
    /\ FreshReads
    /\ InlineAlone

-----------------------------------------------------------------------------
(* Action properties *)

StepsOf(r) == req'[r] # req[r]

\* The pointers come apart from the revisions' statuses only through a request
\* that another one committed during.
PointersLostByRaceOnly ==
    [][ /\ DraftPointerMatches /\ PublishedPointerMatches
        /\ ~(DraftPointerMatches /\ PublishedPointerMatches)'
        => \E r \in crossed : StepsOf(r) ]_vars

\* What was published once stays as it was: the work in a published or a
\* superseded revision changes, and a superseded revision comes back, only
\* through a request that another one committed during.
HistoryRewrittenByRaceOnly ==
    [][ \A n \in RevNo :
          \/ /\ rev[n].status \in {"published", "superseded"}
             /\ rev'[n].text # rev[n].text
          \/ /\ rev[n].status = "superseded"
             /\ rev'[n].status # "superseded"
          => \E r \in crossed : StepsOf(r) ]_vars

\* r publishes, and the page then holds work that was neither on it before nor
\* submitted by r.
PublishesForeignWork(r) ==
    /\ req[r].op = "editAndPublish" /\ At(r, "publish")
    /\ item'.published # item.published
    /\ ~(rev'[item'.published].text \subseteq req[r].patch \cup PageWork)

\* An inline edit puts on the page what it wrote, and nobody else's draft, as long
\* as no other request commits during it.
InlinePublishesOwnWorkAlone ==
    [][ \A r \in Req \ crossed : StepsOf(r) => ~PublishesForeignWork(r) ]_vars
=============================================================================
