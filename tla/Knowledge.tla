------------------------------ MODULE Knowledge ------------------------------
(***************************************************************************)
(* The knowledge base that AI answers quote (apps/api/src/knowledge).      *)
(* Articles are written by hand.  A document is a text, an uploaded file   *)
(* or a page of the web: it is stored PENDING, and an ingest job cuts its  *)
(* text into chunks, has them embedded, replaces the chunks stored so far  *)
(* and then marks the document READY.  Documents are indexed again on      *)
(* request and may be deleted, while jobs for them are queued or running.  *)
(* The queue is BullMQ with two workers, or the request runs the job       *)
(* itself.  The embedding model and the pages are external.                *)
(***************************************************************************)
EXTENDS Integers, FiniteSets

CONSTANTS
  Docs, Articles,
  KnWorkers,     \* jobs running at once
  KnBounds       \* how many changes of pages, reindexings, faults... there may be

KnEvents == {"pages", "reindexes", "deletes", "faults", "crashes", "edits"}
ASSUME KnowledgeAssumption ==
  /\ IsFiniteSet(KnWorkers)
  /\ KnBounds \in [KnEvents -> Nat]

VARIABLES
  doc, chunks,   \* chunks[d]: the texts the stored chunks of d were cut from
  page,          \* external: the text now at a document's source; 0 is too short to index
  ingestQueue,   \* jobs waiting, by document
  job,           \* jobs running, by worker
  request,       \* the request that queues a document, between its steps
  purging,       \* deleted documents whose chunks are still to go
  article,
  broken,        \* documents whose last request or job broke off, or ran beside another
  knLeft

knVars == <<doc, chunks, page, ingestQueue, job, request, purging, article, broken, knLeft>>

Texts == 1..(KnBounds["pages"] + 1)
Status == {"NONE", "PENDING", "READY", "FAILED"}
NoJob == <<>>

KnTypeOK ==
  /\ doc \in [Docs -> [status : Status, deleted : BOOLEAN, text : {0} \union Texts, counted : BOOLEAN]]
  /\ chunks \in [Docs -> SUBSET Texts]
  /\ page \in [Docs -> {0} \union Texts]
  /\ ingestQueue \in [Docs -> Nat]
  /\ \A w \in KnWorkers : job[w] # NoJob =>
       job[w] \in [doc : Docs, pc : {"read", "embed", "replace", "ready", "fail"}, text : {0} \union Texts]
  /\ request \in [Docs -> {"none", "found", "clear", "queue"}]
  /\ purging \subseteq Docs
  /\ article \in [Articles -> [stored : BOOLEAN, active : BOOLEAN, deleted : BOOLEAN, edited : BOOLEAN]]
  /\ broken \subseteq Docs
  /\ knLeft \in [KnEvents -> Nat]

KnInit ==
  /\ doc = [d \in Docs |-> [status |-> "NONE", deleted |-> FALSE, text |-> 0, counted |-> FALSE]]
  /\ chunks = [d \in Docs |-> {}]
  /\ page \in [Docs -> {0, 1}]
  /\ ingestQueue = [d \in Docs |-> 0]
  /\ job = [w \in KnWorkers |-> NoJob]
  /\ request = [d \in Docs |-> "none"]
  /\ purging = {}
  /\ article = [a \in Articles |-> [stored |-> FALSE, active |-> FALSE, deleted |-> FALSE, edited |-> FALSE]]
  /\ broken = {}
  /\ knLeft = KnBounds

KnUses(e) == knLeft[e] > 0 /\ knLeft' = [knLeft EXCEPT ![e] = @ - 1]
Live(d) == doc[d].status # "NONE" /\ ~doc[d].deleted
Running(d) == {w \in KnWorkers : job[w] # NoJob /\ job[w].doc = d}
Working(d) == request[d] # "none" \/ d \in purging \/ ingestQueue[d] > 0 \/ Running(d) # {}

-----------------------------------------------------------------------------
(* Requests. *)

\* A text, a file or a page is stored and queued.  A file or a page that is too short
\* is refused; a text is not looked at before it is indexed.
CreateDocument(d) ==
  /\ doc[d].status = "NONE"
  /\ doc' = [doc EXCEPT ![d].status = "PENDING", ![d].text = page[d]]
  /\ request' = [request EXCEPT ![d] = "queue"]
  /\ UNCHANGED <<chunks, page, ingestQueue, job, purging, article, broken, knLeft>>

\* The page changes.
PageChanges(d) ==
  /\ page[d] # 0 /\ page[d] + 1 \in Texts /\ KnUses("pages")
  /\ page' = [page EXCEPT ![d] = @ + 1]
  /\ UNCHANGED <<doc, chunks, ingestQueue, job, request, purging, article, broken>>

\* One document, or each of several in turn: found alive, then PENDING ...
BeginReindex(d) ==
  /\ Live(d) /\ request[d] = "none" /\ KnUses("reindexes")
  /\ request' = [request EXCEPT ![d] = "found"]
  /\ broken' = IF Working(d) THEN broken \union {d} ELSE broken \ {d}
  /\ UNCHANGED <<doc, chunks, page, ingestQueue, job, purging, article>>

MarkPending(d) ==
  /\ request[d] = "found"
  /\ doc' = [doc EXCEPT ![d].status = "PENDING"]
  /\ request' = [request EXCEPT ![d] = "clear"]
  /\ UNCHANGED <<chunks, page, ingestQueue, job, purging, article, broken, knLeft>>

\* ... without its chunks ...
ClearChunks(d) ==
  /\ request[d] = "clear"
  /\ chunks' = [chunks EXCEPT ![d] = {}]
  /\ request' = [request EXCEPT ![d] = "queue"]
  /\ UNCHANGED <<doc, page, ingestQueue, job, purging, article, broken, knLeft>>

\* ... and queued.
EnqueueIngest(d) ==
  /\ request[d] = "queue"
  /\ ingestQueue' = [ingestQueue EXCEPT ![d] = @ + 1]
  /\ request' = [request EXCEPT ![d] = "none"]
  /\ UNCHANGED <<doc, chunks, page, job, purging, article, broken, knLeft>>

\* The document is marked as deleted, and its chunks are purged one step later.
DeleteDocument(d) ==
  /\ Live(d) /\ KnUses("deletes")
  /\ doc' = [doc EXCEPT ![d].deleted = TRUE, ![d].status = "FAILED"]
  /\ purging' = purging \union {d}
  /\ broken' = IF Working(d) THEN broken \union {d} ELSE broken
  /\ UNCHANGED <<chunks, page, ingestQueue, job, request, article>>

PurgeChunks(d) ==
  /\ d \in purging
  /\ chunks' = [chunks EXCEPT ![d] = {}]
  /\ purging' = purging \ {d}
  /\ UNCHANGED <<doc, page, ingestQueue, job, request, article, broken, knLeft>>

\* A request breaks off between two of its steps.
RequestFails(d) ==
  /\ KnUses("faults")
  /\ \/ request[d] # "none" /\ request' = [request EXCEPT ![d] = "none"] /\ UNCHANGED purging
     \/ d \in purging /\ purging' = purging \ {d} /\ UNCHANGED request
  /\ broken' = broken \union {d}
  /\ UNCHANGED <<doc, chunks, page, ingestQueue, job, article>>

-----------------------------------------------------------------------------
(* Ingest jobs. *)

\* A job whose document is gone ends at once.
StartIngest(w, d) ==
  /\ job[w] = NoJob /\ ingestQueue[d] > 0
  /\ ingestQueue' = [ingestQueue EXCEPT ![d] = @ - 1]
  /\ job' = IF Live(d) THEN [job EXCEPT ![w] = [doc |-> d, pc |-> "read", text |-> 0]] ELSE job
  /\ broken' = IF Running(d) # {} THEN broken \union {d} ELSE broken
  /\ UNCHANGED <<doc, chunks, page, request, purging, article, knLeft>>

At(w, pc) == job[w] # NoJob /\ job[w].pc = pc

\* The text is read again from its source and cut.  When it cannot be read the job ends
\* and the document is left as it was.
ReadSource(w) ==
  /\ At(w, "read")
  /\ \/ /\ job' = [job EXCEPT ![w].text = page[job[w].doc],
                              ![w].pc = IF page[job[w].doc] = 0 THEN "fail" ELSE "embed"]
        /\ UNCHANGED <<broken, knLeft>>
     \/ /\ KnUses("faults")
        /\ job' = [job EXCEPT ![w] = NoJob] /\ broken' = broken \union {job[w].doc}
  /\ UNCHANGED <<doc, chunks, page, ingestQueue, request, purging, article>>

Embed(w) ==
  /\ At(w, "embed")
  /\ \/ job' = [job EXCEPT ![w].pc = "replace"] /\ UNCHANGED knLeft
     \/ job' = [job EXCEPT ![w].pc = "fail"] /\ KnUses("faults")
  /\ UNCHANGED <<doc, chunks, page, ingestQueue, request, purging, article, broken>>

\* Mutant: the old chunks are removed, and the new ones are not stored.
Removed(old, text) == {}
Replaced(old, text) == {text}

\* One transaction.  It may meet the key of a chunk that another job's transaction adds.
ReplaceChunks(w) ==
  /\ At(w, "replace")
  /\ LET d == job[w].doc IN
     \/ /\ chunks' = [chunks EXCEPT ![d] = Replaced(@, job[w].text)]
        /\ job' = [job EXCEPT ![w].pc = "ready"]
     \/ /\ \E v \in Running(d) \ {w} : job[v].pc = "ready"
        /\ job' = [job EXCEPT ![w].pc = "fail"] /\ UNCHANGED chunks
  /\ UNCHANGED <<doc, page, ingestQueue, request, purging, article, broken, knLeft>>

\* Whatever has happened to the document since.  When its audit row cannot be written, the
\* job fails after all.
MarkReady(w) ==
  /\ At(w, "ready")
  /\ doc' = [doc EXCEPT ![job[w].doc] = [@ EXCEPT !.status = "READY", !.text = job[w].text, !.counted = TRUE]]
  /\ \/ job' = [job EXCEPT ![w] = NoJob] /\ UNCHANGED knLeft
     \/ job' = [job EXCEPT ![w].pc = "fail"] /\ KnUses("faults")
  /\ UNCHANGED <<chunks, page, ingestQueue, request, purging, article, broken>>

MarkFailed(w) ==
  /\ At(w, "fail")
  /\ doc' = [doc EXCEPT ![job[w].doc].status = "FAILED"]
  /\ job' = [job EXCEPT ![w] = NoJob]
  /\ UNCHANGED <<chunks, page, ingestQueue, request, purging, article, broken, knLeft>>

\* The process ends: a job of the queue is taken up again, a job that a request runs
\* itself is not.
KnProcessDies ==
  /\ KnUses("crashes")
  /\ LET cut == {d \in Docs : ingestQueue[d] > 0 \/ Running(d) # {}} IN
     \E inline \in BOOLEAN :
       /\ ingestQueue' = [d \in Docs |-> IF inline THEN 0 ELSE ingestQueue[d] + Cardinality(Running(d))]
       /\ broken' = broken \union purging \union {d \in Docs : request[d] # "none"}
                    \union (IF inline THEN cut ELSE {})
  /\ job' = [w \in KnWorkers |-> NoJob]
  /\ request' = [d \in Docs |-> "none"]
  /\ purging' = {}
  /\ UNCHANGED <<doc, chunks, page, article>>

-----------------------------------------------------------------------------
(* Articles. *)

CreateArticle(a, active) ==
  /\ ~article[a].stored /\ KnUses("edits")
  /\ article' = [article EXCEPT ![a] = [@ EXCEPT !.stored = TRUE, !.active = active]]
  /\ UNCHANGED <<doc, chunks, page, ingestQueue, job, request, purging, broken>>

\* The article is found, and changed one step later.
BeginArticleUpdate(a) ==
  /\ article[a].stored /\ ~article[a].deleted /\ ~article[a].edited /\ KnUses("edits")
  /\ article' = [article EXCEPT ![a].edited = TRUE]
  /\ UNCHANGED <<doc, chunks, page, ingestQueue, job, request, purging, broken>>

\* Mutant: an update revives the article.
UpdatedAlive(row, active) == [row EXCEPT !.edited = FALSE, !.active = active, !.deleted = FALSE]
Updated(row, active) == [row EXCEPT !.edited = FALSE, !.active = active]

UpdateArticle(a, active) ==
  /\ article[a].edited
  /\ article' = [article EXCEPT ![a] = Updated(@, active)]
  /\ UNCHANGED <<doc, chunks, page, ingestQueue, job, request, purging, broken, knLeft>>

DeleteArticle(a) ==
  /\ article[a].stored /\ ~article[a].deleted /\ KnUses("deletes")
  /\ article' = [article EXCEPT ![a] = [@ EXCEPT !.deleted = TRUE, !.active = FALSE]]
  /\ UNCHANGED <<doc, chunks, page, ingestQueue, job, request, purging, broken>>

-----------------------------------------------------------------------------
(* What an AI answer may quote. *)
QuotableArticles == {a \in Articles : article[a].stored /\ article[a].active /\ ~article[a].deleted}
ReadyChunks == {c \in Docs \X Texts : Live(c[1]) /\ doc[c[1]].status = "READY" /\ c[2] \in chunks[c[1]]}

KnNext ==
  \/ \E d \in Docs :
       \/ CreateDocument(d) \/ PageChanges(d) \/ BeginReindex(d) \/ MarkPending(d) \/ ClearChunks(d) \/ EnqueueIngest(d)
       \/ DeleteDocument(d) \/ PurgeChunks(d) \/ RequestFails(d)
       \/ \E w \in KnWorkers : StartIngest(w, d)
  \/ \E w \in KnWorkers : ReadSource(w) \/ Embed(w) \/ ReplaceChunks(w) \/ MarkReady(w) \/ MarkFailed(w)
  \/ KnProcessDies
  \/ \E a \in Articles :
       \/ BeginArticleUpdate(a) \/ DeleteArticle(a)
       \/ \E active \in BOOLEAN : CreateArticle(a, active) \/ UpdateArticle(a, active)

KnSpec == KnInit /\ [][KnNext]_knVars

-----------------------------------------------------------------------------
(* Properties. *)

\* Once the requests and the jobs of a document are done, and none of them broke off or
\* ran beside another, an AI answer quotes all of its text if it is READY, and only that
\* text; it is not left PENDING; and a deleted one leaves no chunks behind.
SettledDocumentIsIndexed ==
  \A d \in Docs : ~Working(d) /\ d \notin broken /\ doc[d].status # "NONE" =>
    IF doc[d].deleted THEN chunks[d] = {}
    ELSE /\ doc[d].status # "PENDING"
         /\ doc[d].status = "READY" => doc[d].counted /\ {c \in ReadyChunks : c[1] = d} = {<<d, doc[d].text>>}

\* What was deleted is not quoted again, by an answer generated later, whatever edits and
\* jobs were under way.
QuotesNothingDeleted ==
  /\ \A a \in Articles : article[a].deleted => a \notin QuotableArticles'
  /\ \A d \in Docs : doc[d].deleted => \A c \in ReadyChunks' : c[1] # d
=============================================================================
