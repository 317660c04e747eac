------------------------------ MODULE WebSource ------------------------------
(* One article of a watched channel: WebIngestor.ingest                      *)
(* (src/src/channels/ingest.py), the refresh loop that visits what is stored *)
(* (channels/refresh.py), and the two collections both write                 *)
(* (rag/web_store.py).  Articles share nothing, so one is modelled.          *)
(*                                                                           *)
(* The row of an article and its chunks are written one after the other, and *)
(* chunks are upserted before the ones left over are deleted.  The lock      *)
(* around these two is one process's: a poll of the server and a refresh of  *)
(* the CLI interleave, and a run may be killed between any two writes.  An   *)
(* exception that ingest does not expect (embedding, Chroma) ends the run    *)
(* like a kill.                                                              *)
(*                                                                           *)
(* A document is what a page serves, and stands for its ETag or              *)
(* Last-Modified; a text is what an extractor makes of it, and stands for its *)
(* hash.  When a source is due is left out: it may be visited at any time.   *)
EXTENDS Naturals, FiniteSets

CONSTANTS Runs,         \* polls and refreshes that may overlap
          Documents,    \* what the page, or the feed, may serve
          Long,         \* the documents that exceed the fetch cap
          Texts,
          Urls,         \* where it may live
          Vintages,     \* versions of the extractor and the chunker
          Reading,      \* Reading[d, v]: the text vintage v makes of document d
          Length,       \* Length[t, v]: chunks that vintage v makes of text t
          BodyInFeed,   \* channel.body_in_feed
          MaxRevision,  \* bound: a run stops short of storing a later revision
          MaxMisses,    \* bound: further misses are not looked at
          None

States == {"live", "changed", "moved", "gone", "blocked", "truncated"}

(* WebSource.  live is live_url, history is url_history as a set. *)
Row == [text : Texts, state : States, live : Urls, history : SUBSET Urls,
        revision : Nat, misses : Nat, tag : Documents \cup {None},
        truncated : {"no", "yes"}, from_feed : {"no", "yes"}]

(* A Candidate, with the flags of ingest. *)
Visit == [url : Urls, body : Documents \cup {None},
          refresh : {"no", "yes"}, reextract : {"no", "yes"}]

(* WebChunk; index is chunk_index, counted from 1. *)
Chunk == [index : Nat \ {0}, text : Texts, revision : Nat, vintage : Vintages]

(* A text above the word floor has a section with words, and so a chunk. *)
ASSUME ReadingAssumption == Reading \in [Documents \X Vintages -> Texts]
ASSUME LengthAssumption == Length \in [Texts \X Vintages -> Nat \ {0}]
ASSUME NoneAssumption == None \notin Documents \cup Row \cup Visit
ASSUME BoundsAssumption == MaxRevision \in Nat /\ MaxMisses \in Nat

(* Where a run stands: the read of the row, the fetch, the read of chunk     *)
(* ids, the upsert and the delete of chunks, the write of the row.           *)
Steps == {"idle", "looking", "fetching", "reading", "writing", "trimming", "storing"}

VARIABLES
  site,     \* the page: what it serves and where it lives now
  vintage,  \* the extractor and chunker installed
  row,      \* the web_sources row, or None
  chunks,   \* the web_chunks of this source
  \* a run's locals
  at,       \* at[r]: point of control
  cand,     \* cand[r]: what it was asked to ingest, or None
  stored,   \* stored[r]: the row as ingest read it
  source,   \* source[r]: the row it will write
  stale,    \* stale[r]: indexes of the chunks it will delete
  \* history, for the properties only
  torn,     \* a run was killed between its first chunk write and its row write
  alone     \* no two runs were ever at work on this source together

runVars == <<at, cand, stored, source, stale>>
vars == <<site, vintage, row, chunks, runVars, torn, alone>>

Init == /\ site \in [page : Documents, url : Urls]
        /\ vintage \in Vintages
        /\ row = None
        /\ chunks = {}
        /\ at = [r \in Runs |-> "idle"]
        /\ cand = [r \in Runs |-> None]
        /\ stored = [r \in Runs |-> None]
        /\ source = [r \in Runs |-> None]
        /\ stale = [r \in Runs |-> {}]
        /\ torn = FALSE
        /\ alone = TRUE

(* The page is edited, or moves and leaves a redirect. *)
Edit == /\ site' \in [page : Documents, url : Urls]
        /\ UNCHANGED <<vintage, row, chunks, runVars, torn, alone>>

(* Another extractor is installed, with nothing at work. *)
Upgrade == /\ \A r \in Runs : at[r] = "idle"
           /\ vintage' \in Vintages
           /\ UNCHANGED <<site, row, chunks, runVars, torn, alone>>

-----------------------------------------------------------------------------
(* A candidate reaches ingest.                                               *)

Start(r, c) == /\ at[r] = "idle"
               /\ at' = [at EXCEPT ![r] = "looking"]
               /\ cand' = [cand EXCEPT ![r] = c]
               /\ alone' = (alone /\ \A q \in Runs : at[q] = "idle")
               /\ UNCHANGED <<site, vintage, row, chunks, stored, source, stale, torn>>

(* A poll offers it; the feed's copy is trusted only where the channel says  *)
(* that its feed carries bodies.                                             *)
Offer(r) == \E u \in Urls, b \in Documents \cup {None} :
  /\ b # None => BodyInFeed
  /\ Start(r, [url |-> u, body |-> b, refresh |-> "no", reextract |-> "no"])

(* is_due, the clock aside: neither a refusal nor a corroborated loss is     *)
(* visited again unless forced.                                              *)
Due(force) == \/ force
              \/ /\ row.state # "blocked"
                 /\ ~(row.state = "gone" /\ row.misses >= 4)

(* A refresh takes it up where it lives, under its stored identity; the      *)
(* candidate has no body.                                                    *)
Refresh(r) == \E force \in BOOLEAN, again \in {"no", "yes"} :
  /\ row # None
  /\ Due(force)
  /\ Start(r, [url |-> row.live, body |-> None, refresh |-> "yes", reextract |-> again])

(* What remains of a run that has left ingest. *)
Leave(r) == /\ at' = [at EXCEPT ![r] = "idle"]
            /\ cand' = [cand EXCEPT ![r] = None]
            /\ stored' = [stored EXCEPT ![r] = None]
            /\ source' = [source EXCEPT ![r] = None]
            /\ stale' = [stale EXCEPT ![r] = {}]

(* A stored source is only read again by a refresh. *)
Look(r) == /\ at[r] = "looking"
           /\ IF row # None /\ cand[r].refresh = "no"
                THEN Leave(r)
                ELSE /\ at' = [at EXCEPT ![r] = "fetching"]
                     /\ stored' = [stored EXCEPT ![r] = row]
                     /\ UNCHANGED <<cand, source, stale>>
           /\ UNCHANGED <<site, vintage, row, chunks, torn, alone>>

-----------------------------------------------------------------------------
(* The fetch, and the outcomes that end with it.                             *)

Done(r, s) == /\ at[r] = "fetching"
              /\ row' = IF stored[r] = None THEN row ELSE s
              /\ Leave(r)
              /\ UNCHANGED <<site, vintage, chunks, torn, alone>>

(* Any error of the request or of its answer, 403 and 404 alike. *)
Missed(s) == [s EXCEPT !.misses = @ + 1,
                       !.state = IF s.misses + 1 >= 2 THEN "gone" ELSE @]

Miss(r) == /\ at[r] = "fetching" /\ cand[r].body = None
           /\ stored[r] # None => stored[r].misses < MaxMisses
           /\ Done(r, Missed(stored[r]))

(* robots.txt refuses the page, or its extract is below the word floor. *)
Block(r) == Done(r, [stored[r] EXCEPT !.state = "blocked"])

Confirmed(s) == [s EXCEPT !.state = "live", !.misses = 0]

NotModified(r) == /\ at[r] = "fetching" /\ cand[r].body = None
                  /\ stored[r] # None /\ cand[r].reextract = "no"
                  /\ stored[r].tag = site.page
                  /\ Done(r, Confirmed(stored[r]))

(* What the installed extractor makes of a document. *)
Extract(d) == Reading[d, vintage]

(* The page as ingest gets it: the feed's copy, or the site's answer from    *)
(* where the request was redirected, with or without a validator.            *)
Pages(r) ==
  IF cand[r].body # None
    THEN {[url |-> cand[r].url, text |-> Extract(cand[r].body), tag |-> None,
           truncated |-> "no"]}
    ELSE [url : {site.url}, text : {Extract(site.page)}, tag : {None, site.page},
          truncated : {IF site.page \in Long THEN "yes" ELSE "no"}]

SameHash(r, p) ==
  stored[r] # None /\ stored[r].text = p.text /\ cand[r].reextract = "no"

Same(r) ==
  /\ at[r] = "fetching"
  /\ \E p \in Pages(r) :
       /\ SameHash(r, p)
       /\ Done(r, [Confirmed(stored[r]) EXCEPT !.tag = IF p.tag # None THEN p.tag ELSE @])

-----------------------------------------------------------------------------
(* A text to store: _build_source, WebChunkStore.replace, the row.           *)

Changed(s, p) == s = None \/ s.text # p.text
Moved(s, p) == s # None /\ p.url # s.live

(* Mutant: a validator that the new answer does not renew is kept. *)
Validator_Kept(s, p) == IF p.tag = None /\ s # None THEN s.tag ELSE p.tag

Validator(s, p) == p.tag

(* Mutant: the history is carried over by a move only. *)
History_OnMove(s, p) == IF Moved(s, p) THEN s.history \cup {s.live} ELSE {}

History(s, p) == IF s = None THEN {}
                 ELSE s.history \cup (IF Moved(s, p) THEN {s.live} ELSE {})

Revision(s, p) ==
  IF s = None THEN 1 ELSE IF Changed(s, p) THEN s.revision + 1 ELSE s.revision

State(s, p) == IF p.truncated = "yes" THEN "truncated"
               ELSE IF Moved(s, p) THEN "moved"
               ELSE IF s # None /\ Changed(s, p) THEN "changed" ELSE "live"

(* The row for page p; s is the row that ingest read. *)
Build(c, s, p) ==
  [text |-> p.text, state |-> State(s, p), live |-> p.url, history |-> History(s, p),
   revision |-> Revision(s, p), misses |-> 0, tag |-> Validator(s, p),
   truncated |-> p.truncated, from_feed |-> IF c.body # None THEN "yes" ELSE "no"]

(* The chunks of text t; a chunk's id is its index. *)
Whole(t, n, v) ==
  {[index |-> i, text |-> t, revision |-> n, vintage |-> v] : i \in 1 .. Length[t, v]}

(* Mutant: the row is written first, and then the chunks. *)
Found_RowFirst(r) ==
  /\ at[r] = "fetching"
  /\ \E p \in Pages(r) :
       /\ ~SameHash(r, p)
       /\ Revision(stored[r], p) <= MaxRevision
       /\ source' = [source EXCEPT ![r] = Build(cand[r], stored[r], p)]
       /\ row' = Build(cand[r], stored[r], p)
  /\ at' = [at EXCEPT ![r] = "reading"]
  /\ UNCHANGED <<site, vintage, chunks, cand, stored, stale, torn, alone>>

Found(r) ==
  /\ at[r] = "fetching"
  /\ \E p \in Pages(r) :
       /\ ~SameHash(r, p)
       /\ Revision(stored[r], p) <= MaxRevision
       /\ source' = [source EXCEPT ![r] = Build(cand[r], stored[r], p)]
  /\ at' = [at EXCEPT ![r] = "reading"]
  /\ UNCHANGED <<site, vintage, row, chunks, cand, stored, stale, torn, alone>>

New(r) == Whole(source[r].text, source[r].revision, vintage)

Indexes(S) == {c.index : c \in S}

(* Mutant: what is left over is worked out from the row that ingest read. *)
ReadIds_FromRow(r) ==
  /\ at[r] = "reading"
  /\ stale' = [stale EXCEPT ![r] =
       IF stored[r] = None THEN {}
       ELSE (1 .. Length[stored[r].text, vintage]) \ Indexes(New(r))]
  /\ at' = [at EXCEPT ![r] = "writing"]
  /\ UNCHANGED <<site, vintage, row, chunks, cand, stored, source, torn, alone>>

(* Stored vectors are reused by hash, the others embedded, and then the ids  *)
(* left over are worked out, all without the lock.                           *)
ReadIds(r) ==
  /\ at[r] = "reading"
  /\ stale' = [stale EXCEPT ![r] = Indexes(chunks) \ Indexes(New(r))]
  /\ at' = [at EXCEPT ![r] = "writing"]
  /\ UNCHANGED <<site, vintage, row, chunks, cand, stored, source, torn, alone>>

Upsert(r) ==
  /\ at[r] = "writing"
  /\ chunks' = {c \in chunks : c.index \notin Indexes(New(r))} \cup New(r)
  /\ at' = [at EXCEPT ![r] = "trimming"]
  /\ UNCHANGED <<site, vintage, row, cand, stored, source, stale, torn, alone>>

Trim(r) ==
  /\ at[r] = "trimming"
  /\ chunks' = {c \in chunks : c.index \notin stale[r]}
  /\ at' = [at EXCEPT ![r] = "storing"]
  /\ UNCHANGED <<site, vintage, row, cand, stored, source, stale, torn, alone>>

StoreRow(r) ==
  /\ at[r] = "storing"
  /\ row' = source[r]
  /\ torn' = FALSE
  /\ Leave(r)
  /\ UNCHANGED <<site, vintage, chunks, alone>>

Crash(r) ==
  /\ at[r] # "idle"
  /\ torn' = (torn \/ at[r] \in {"trimming", "storing"})
  /\ Leave(r)
  /\ UNCHANGED <<site, vintage, row, chunks, alone>>

-----------------------------------------------------------------------------
Step(r) == \/ Offer(r) \/ Refresh(r) \/ Look(r)
           \/ Miss(r) \/ Block(r) \/ NotModified(r) \/ Same(r) \/ Found(r)
           \/ ReadIds(r) \/ Upsert(r) \/ Trim(r) \/ StoreRow(r) \/ Crash(r)

Next == Edit \/ Upgrade \/ \E r \in Runs : Step(r)

Spec == Init /\ [][Next]_vars

-----------------------------------------------------------------------------
(* Types of the two collections and of every run's locals: a row's revision  *)
(* counts from 1, and a run that fetches or writes has what it needs. *)
TypeOK ==
  /\ site \in [page : Documents, url : Urls] /\ vintage \in Vintages
  /\ row \in Row \cup {None}
  /\ row # None => row.revision \in 1 .. MaxRevision
  /\ chunks \in SUBSET Chunk
  /\ at \in [Runs -> Steps]
  /\ cand \in [Runs -> Visit \cup {None}]
  /\ stored \in [Runs -> Row \cup {None}]
  /\ source \in [Runs -> Row \cup {None}]
  /\ stale \in [Runs -> SUBSET (Nat \ {0})]
  /\ torn \in BOOLEAN /\ alone \in BOOLEAN
  /\ \A r \in Runs :
       /\ at[r] = "idle" <=> cand[r] = None
       /\ at[r] \in {"reading", "writing", "trimming", "storing"} <=> source[r] # None

(* An article with a row can be read, whatever runs overlap and whichever of *)
(* them is killed: polls pass over it for good once the row is there, so a   *)
(* row without chunks would be an article lost.  (ingest writes the chunks   *)
(* before the row.)                                                          *)
StoredIsReadable == row # None => \E c \in chunks : c.index = 1

(* Row and chunks are one version of the article: one text, one revision,    *)
(* one vintage, nothing left over from a longer one.  Runs that overlap may  *)
(* break this, and so may a kill between the writes; the next run that       *)
(* rewrites the article repairs what a kill left, whatever it was.           *)
RowDescribesChunks ==
  (/\ row # None /\ alone /\ ~torn
   /\ \A r \in Runs : at[r] \notin {"trimming", "storing"})
  => \E v \in Vintages : chunks = Whole(row.text, row.revision, v)

(* The cheap answers are right: where ingest reports an article unchanged,   *)
(* the row holds a text of what the page serves, although the page served    *)
(* other documents in between, with and without validators; by a 304 it may  *)
(* be the text of an earlier extractor, by its hash it is the present one's.  *)
UnchangedIsCurrent ==
  [][\A r \in Runs :
       /\ NotModified(r) => \E v \in Vintages : stored[r].text = Reading[site.page, v]
       /\ Same(r) => stored[r].text = Extract(site.page)]_vars

(* A URL the row has ever named stays in it, so that a citation of it can be *)
(* explained, however often the article moves, there and back again.         *)
NoUrlForgotten ==
  [][row # None /\ alone => /\ row' # None
                            /\ row.history \cup {row.live} \subseteq
                                 row'.history \cup {row'.live}]_vars

(* Revision n is one text, so a citation of a revision names its text: the   *)
(* number grows with every other text that is stored, and stays when the same *)
(* text is read or chunked again.  It does not count the edits of the page:  *)
(* another extractor's text of an unedited page is a revision, too.          *)
RevisionsCountTexts ==
  [][row # None /\ alone =>
       row'.revision = row.revision + (IF row'.text = row.text THEN 0 ELSE 1)]_vars

=============================================================================
