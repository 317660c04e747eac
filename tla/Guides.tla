------------------------------ MODULE Guides ------------------------------
(***************************************************************************)
(* One field guide on disk (guides/<slug>/) and the runs that write and    *)
(* revise it: the server's GuideRunner, which holds one job at a time, and *)
(* `guides` commands, which know nothing of it.  A run may fail in any     *)
(* agent session or be killed, and the next one resumes from the files.    *)
(*                                                                         *)
(* A page is what the properties tell apart: the videos it was composed    *)
(* from, whether every cite resolves, the comments that revisers of it were *)
(* given, and whether publishing has gone over its chrome since it was      *)
(* written.                                                                *)
(* What a cite resolves to does not change meanwhile.                      *)
(***************************************************************************)
EXTENDS Naturals, FiniteSets, FiniteSetsExt

CONSTANTS
  Actors,       \* the server and the commands
  Server,       \* the actor that is the server
  Comments,
  Selections,   \* the confirmed sets of videos a guide may be asked for
  Clusters,     \* how many extraction passes each of them is split into ...
  MaxClusters,  \* ... and max_clusters
  None,         \* no file, or one that does not parse
  Torn,         \* a version cut short by a kill
  MaxFixPasses, \* max_fix_passes
  MaxRuns,      \* bound on the runs started
  MaxKills      \* bound on the runs killed

ASSUME GuideAssumption ==
  /\ Server \in Actors /\ None \notin Selections
  /\ MaxClusters \in Nat /\ Clusters \in [Selections -> 1..MaxClusters]
  /\ IsFiniteSet(Actors) /\ MaxFixPasses \in Nat /\ MaxRuns \in Nat /\ MaxKills \in Nat

VARIABLES
  corpus,    \* corpus/corpus.json: the selection last exported
  evidence,  \* evidence/cluster-N.json
  page,      \* guide.html
  claims,    \* claims.json: what it says of the page it reports on
  versions,  \* versions/vN.html
  manifest,  \* manifest.json
  letter,    \* receipt.json, the comments the reviser has answered
  receipts,  \* receipts/vN.json
  asked,     \* comments.jsonl: the comments in it ...
  resolved,  \* ... and the version that resolved each, 0 for an open one
  run,       \* what each actor is doing
  started, kills,
  last,      \* how the last write or revision ended (auxiliary)
  cut,       \* an extraction ended between a session and its check (auxiliary)
  silent,    \* passes whose last session to end well wrote nothing (auxiliary)
  overlap    \* two runs have worked on the guide at once (auxiliary)

files == <<corpus, evidence, page, claims, versions, manifest, letter, receipts>>
commentVars == <<asked, resolved>>
ghosts == <<last, cut, silent, overlap>>
vars == <<files, commentVars, run, started, kills, ghosts>>

Numbers == 1..(MaxRuns + 1)
Passes == 1..MaxClusters
Pages == [of : Selections \cup {None}, sound : BOOLEAN, given : SUBSET Comments,
          normal : BOOLEAN]
Reports == [of : Selections \cup {None}, sound : BOOLEAN, given : SUBSET Comments]
Manifests == [current : Numbers, of : Selections \cup {None}, sound : BOOLEAN]

(* A pass's evidence: the videos it lists, those whose transcripts its claims *)
(* were taken from, and whether its claims were looked up.                   *)
Evidence == [of : Selections, from : Selections, verified : BOOLEAN]

(* No file is none of the files there are. *)
ASSUME FilesAssumption ==
  /\ None \notin Pages \cup Reports /\ Torn \notin Pages /\ None # Torn
  /\ None \notin Manifests /\ None \notin Evidence
  /\ \A S \in SUBSET Comments : S # None

Idle == [at |-> "idle", kind |-> "none", sel |-> None, batch |-> {}, todo |-> {},
         fresh |-> {}, number |-> 0, fixes |-> 0, held |-> None]

(* What write_claims says of a page: its cites, not its chrome. *)
ReportOf(p) == [of |-> p.of, sound |-> p.sound, given |-> p.given]

(* The directory is empty, or holds a hand-made page imported as v1. *)
Init ==
  /\ \/ page = None /\ claims = None /\ manifest = None
        /\ versions = [n \in Numbers |-> None]
     \/ \E sound \in BOOLEAN :
           /\ page = [of |-> None, sound |-> sound, given |-> {}, normal |-> FALSE]
           /\ claims = ReportOf(page)
           /\ manifest = [current |-> 1, of |-> None, sound |-> sound]
           /\ versions = [n \in Numbers |-> IF n = 1 THEN page ELSE None]
  /\ corpus = None /\ letter = None
  /\ evidence = [n \in Passes |-> None]
  /\ receipts = [n \in Numbers |-> None]
  /\ asked = {} /\ resolved = [c \in Comments |-> 0]
  /\ run = [a \in Actors |-> Idle]
  /\ started = 0 /\ kills = 0
  /\ last = "none" /\ cut = FALSE /\ silent = {} /\ overlap = FALSE

-----------------------------------------------------------------------------
(* Helpers.                                                                  *)

Unworked == {"idle", "asked"}
Working(a) == run[a].at \notin Unworked

(* Actor a moves on; the move it starts to work with is the one that may     *)
(* overlap.                                                                  *)
Move(a, next) ==
  /\ run' = [run EXCEPT ![a] = next]
  /\ overlap' = (overlap \/ \E b \in Actors \ {a} :
                               Working(b) /\ ~Working(a) /\ next.at \notin Unworked)

(* The run ends; the job, or the exit code, says how. *)
End(a, status) ==
  /\ Move(a, Idle)
  /\ last' = IF run[a].kind \in {"write", "revise"} THEN status ELSE last

Open == {c \in asked : resolved[c] = 0}

(* Mutant: the number after the one the manifest names. *)
NextVersion_Current == IF manifest = None THEN 1 ELSE manifest.current + 1

(* One more than the highest file in versions/, whatever is in it. *)
NextVersion == Max({n \in Numbers : versions[n] # None} \cup {0}) + 1

-----------------------------------------------------------------------------
(* Writing a guide.                                                          *)

(* Mutant: evidence that exists is evidence. *)
EvidenceMatches_Exists(n, s) == evidence[n] # None

(* _evidence_matches: the file lists exactly the videos of the cluster.  The *)
(* extractor itself writes that list, and so does _verify_evidence.          *)
EvidenceMatches(n, s) == evidence[n] # None /\ evidence[n].of = s

(* The passes to run are those without matching evidence. *)
ToExtract(s) == {n \in 1..Clusters[s] : ~EvidenceMatches(n, s)}

(* A job of the server is refused while it runs another.  A corpus that is    *)
(* exported already is not exported again.                                   *)
StartWrite(a, s) ==
  /\ run[a] = Idle
  /\ started < MaxRuns
  /\ started' = started + 1
  /\ LET writer == [Idle EXCEPT !.kind = "write", !.sel = s]
     IN Move(a, IF corpus = s
                THEN [writer EXCEPT !.at = "extract", !.todo = ToExtract(s)]
                ELSE [writer EXCEPT !.at = "export"])
  /\ UNCHANGED <<files, commentVars, kills, last, cut, silent>>

Export(a) ==
  /\ run[a].at = "export"
  /\ corpus' = run[a].sel
  /\ Move(a, [run[a] EXCEPT !.at = "extract", !.todo = ToExtract(run[a].sel)])
  /\ UNCHANGED <<evidence, page, claims, versions, manifest, letter, receipts,
                 commentVars, started, kills, last, cut, silent>>

(* An extraction session that will end well writes its file, or nothing: the *)
(* file there is, if any, stays.                                             *)
Extract(a, n) ==
  /\ run[a].at = "extract"
  /\ n \in run[a].todo
  /\ \/ /\ evidence' = [evidence EXCEPT ![n] = [of |-> run[a].sel, from |-> run[a].sel,
                                                verified |-> FALSE]]
        /\ silent' = silent \ {n}
     \/ /\ UNCHANGED evidence
        /\ silent' = silent \cup ({n} \ {m \in Passes : evidence[m] = None})
  /\ Move(a, [run[a] EXCEPT !.todo = @ \ {n}, !.fresh = @ \cup {n}])
  /\ UNCHANGED <<corpus, page, claims, versions, manifest, letter, receipts,
                 commentVars, started, kills, last, cut>>

(* Once it has ended, every claim in the file there is gets looked up, and   *)
(* the file gets the videos of the pass, whatever it listed.  One that is    *)
(* missing or does not parse ends the run.                                   *)
VerifyEvidence(a, n) ==
  /\ run[a].at = "extract"
  /\ n \in run[a].fresh
  /\ IF evidence[n] = None
     THEN End(a, "error") /\ UNCHANGED evidence
     ELSE /\ evidence' = [evidence EXCEPT ![n].of = run[a].sel, ![n].verified = TRUE]
          /\ Move(a, [run[a] EXCEPT !.fresh = @ \ {n}])
          /\ UNCHANGED last
  /\ cut' = (cut \/ (evidence[n] = None /\ run[a].fresh # {n}))
  /\ UNCHANGED <<corpus, page, claims, versions, manifest, letter, receipts,
                 commentVars, started, kills, silent>>

(* A page that exists is not composed again. *)
Extracted(a) ==
  /\ run[a].at = "extract" /\ run[a].todo = {} /\ run[a].fresh = {}
  /\ Move(a, [run[a] EXCEPT !.at = IF page = None THEN "compose" ELSE "verify"])
  /\ UNCHANGED <<files, commentVars, started, kills, last, cut, silent>>

(* The composer writes the page, and its session ends well or not. *)
Compose(a) ==
  /\ run[a].at = "compose"
  /\ \E sound \in BOOLEAN :
        page' = [of |-> run[a].sel, sound |-> sound, given |-> {}, normal |-> FALSE]
  /\ \/ Move(a, [run[a] EXCEPT !.at = "verify"]) /\ UNCHANGED last
     \/ End(a, "error")
  /\ UNCHANGED <<corpus, evidence, claims, versions, manifest, letter, receipts,
                 commentVars, started, kills, cut, silent>>

-----------------------------------------------------------------------------
(* Revising a guide.                                                         *)

(* The route, or the command, lists the open comments, all or the ones named *)
(* in the request, and hands over their ids.                                 *)
StartRevise(a) ==
  /\ run[a] = Idle
  /\ started < MaxRuns
  /\ manifest # None
  /\ \E S \in (SUBSET Open) \ {{}} :
        Move(a, [Idle EXCEPT !.at = "asked", !.kind = "revise", !.batch = S])
  /\ started' = started + 1
  /\ UNCHANGED <<files, commentVars, kills, last, cut, silent>>

(* Mutant: the ids handed over are taken to be open still. *)
Pending_Handed(a) == run[a].batch

(* revise_async lists them again. *)
Pending(a) == run[a].batch \cap Open

TakeBatch(a) ==
  /\ run[a].at = "asked"
  /\ IF manifest = None \/ Pending(a) = {}
     THEN End(a, "error") /\ UNCHANGED letter
     ELSE /\ letter' = None
          /\ Move(a, [run[a] EXCEPT !.at = "revise", !.batch = Pending(a),
                                    !.number = NextVersion, !.held = manifest])
          /\ UNCHANGED last
  /\ UNCHANGED <<corpus, evidence, page, claims, versions, manifest, receipts,
                 commentVars, started, kills, cut, silent>>

(* The reviser is given the batch, edits the page, or sees nothing to edit,  *)
(* and answers in receipt.json, for some comments or all, or not at all.     *)
Revise(a) ==
  /\ run[a].at = "revise"
  /\ \E sound \in BOOLEAN :
        page' = [page EXCEPT !.sound = sound, !.given = @ \cup run[a].batch,
                             !.normal = FALSE]
  /\ letter' \in {None} \cup (SUBSET run[a].batch)
  /\ Move(a, [run[a] EXCEPT !.at = "answered"])
  /\ UNCHANGED <<corpus, evidence, claims, versions, manifest, receipts,
                 commentVars, started, kills, last, cut, silent>>

(* parse_receipt: every comment of the batch once, and no other. *)
Accounts(a) == letter = run[a].batch

ParseReceipt(a) ==
  /\ run[a].at = "answered"
  /\ IF Accounts(a)
     THEN /\ Move(a, [run[a] EXCEPT !.at = "verify", !.batch = {}, !.todo = letter])
          /\ UNCHANGED last
     ELSE End(a, "error")
  /\ UNCHANGED <<files, commentVars, started, kills, cut, silent>>

-----------------------------------------------------------------------------
(* Verifying and publishing.                                                 *)

(* The videos the manifest will name: of the run, or else of the export or   *)
(* of the manifest, for a revision.                                          *)
SummaryOf(a) == IF run[a].kind = "write" THEN run[a].sel
                ELSE IF corpus # None THEN corpus ELSE run[a].held.of

Verified(a) == [run[a] EXCEPT !.at = "publish", !.sel = SummaryOf(a), !.held = None,
                              !.fixes = 0, !.number = IF @ = 0 THEN NextVersion ELSE @]

(* Mutant: the last fix pass is not verified. *)
Verify_TrustsFix(a) ==
  /\ run[a].at = "verify"
  /\ claims' = ReportOf(page)
  /\ \/ /\ page.sound \/ run[a].fixes = MaxFixPasses
        /\ Move(a, Verified(a)) /\ UNCHANGED last
     \/ /\ ~page.sound /\ run[a].fixes < MaxFixPasses
        /\ Move(a, [run[a] EXCEPT !.at = "fix", !.fixes = @ + 1]) /\ UNCHANGED last
  /\ UNCHANGED <<corpus, evidence, page, versions, manifest, letter, receipts,
                 commentVars, started, kills, cut, silent>>

(* Mutant: a verification that follows a fix is not recorded. *)
Verify_KeepsClaims(a) ==
  /\ run[a].at = "verify"
  /\ claims' = IF run[a].fixes = 0 THEN ReportOf(page) ELSE claims
  /\ \/ /\ page.sound
        /\ Move(a, Verified(a)) /\ UNCHANGED last
     \/ /\ ~page.sound /\ run[a].fixes < MaxFixPasses
        /\ Move(a, [run[a] EXCEPT !.at = "fix", !.fixes = @ + 1]) /\ UNCHANGED last
     \/ /\ ~page.sound /\ run[a].fixes = MaxFixPasses
        /\ End(a, "error")
  /\ UNCHANGED <<corpus, evidence, page, versions, manifest, letter, receipts,
                 commentVars, started, kills, cut, silent>>

(* Every verification records its claims; then the page is published, fixed, *)
(* or given up.                                                              *)
Verify(a) ==
  /\ run[a].at = "verify"
  /\ claims' = ReportOf(page)
  /\ \/ /\ page.sound
        /\ Move(a, Verified(a)) /\ UNCHANGED last
     \/ /\ ~page.sound /\ run[a].fixes < MaxFixPasses
        /\ Move(a, [run[a] EXCEPT !.at = "fix", !.fixes = @ + 1]) /\ UNCHANGED last
     \/ /\ ~page.sound /\ run[a].fixes = MaxFixPasses
        /\ End(a, "error")
  /\ UNCHANGED <<corpus, evidence, page, versions, manifest, letter, receipts,
                 commentVars, started, kills, cut, silent>>

(* A fix session edits the page, and ends well or not. *)
Fix(a) ==
  /\ run[a].at = "fix"
  /\ \E sound \in BOOLEAN : page' = [page EXCEPT !.sound = sound, !.normal = FALSE]
  /\ \/ Move(a, [run[a] EXCEPT !.at = "verify"]) /\ UNCHANGED last
     \/ End(a, "error")
  /\ UNCHANGED <<corpus, evidence, claims, versions, manifest, letter, receipts,
                 commentVars, started, kills, cut, silent>>

(* stage_publish: the page is given its chrome, in place; that touches no    *)
(* cite and is not verified again.  Then a version that exists is refused,   *)
(* the page is copied, and the manifest is written in place.                 *)
Normalise(a) ==
  /\ run[a].at = "publish"
  /\ page' = [page EXCEPT !.normal = TRUE]
  /\ Move(a, [run[a] EXCEPT !.at = "normalised"])
  /\ UNCHANGED <<corpus, evidence, claims, versions, manifest, letter, receipts,
                 commentVars, started, kills, last, cut, silent>>

PublishCheck(a) ==
  /\ run[a].at = "normalised"
  /\ IF versions[run[a].number] # None
     THEN End(a, "error")
     ELSE Move(a, [run[a] EXCEPT !.at = "copy"]) /\ UNCHANGED last
  /\ UNCHANGED <<files, commentVars, started, kills, cut, silent>>

PublishCopy(a) ==
  /\ run[a].at = "copy"
  /\ versions' = [versions EXCEPT ![run[a].number] = page]
  /\ Move(a, [run[a] EXCEPT !.at = "manifest"])
  /\ UNCHANGED <<corpus, evidence, page, claims, manifest, letter, receipts,
                 commentVars, started, kills, last, cut, silent>>

(* A write is done here; a revision has its receipt to file. *)
PublishManifest(a) ==
  /\ run[a].at = "manifest"
  /\ manifest' = [current |-> run[a].number, of |-> run[a].sel, sound |-> TRUE]
  /\ IF run[a].kind = "write"
     THEN End(a, "done")
     ELSE Move(a, [run[a] EXCEPT !.at = "receipt"]) /\ UNCHANGED last
  /\ UNCHANGED <<corpus, evidence, page, claims, versions, letter, receipts,
                 commentVars, started, kills, cut, silent>>

WriteReceipt(a) ==
  /\ run[a].at = "receipt"
  /\ receipts' = [receipts EXCEPT ![run[a].number] = run[a].todo]
  /\ Move(a, [run[a] EXCEPT !.at = "resolve"])
  /\ UNCHANGED <<corpus, evidence, page, claims, versions, manifest, letter,
                 commentVars, started, kills, last, cut, silent>>

(* Mutant: what is open when the revision ends is what it has answered. *)
ToResolve_Open(a) == Open

(* resolve_comments goes through the receipt's items. *)
ToResolve(a) == run[a].todo

ResolveComment(a) ==
  /\ run[a].at = "resolve"
  /\ \E c \in ToResolve(a) :
        /\ resolved' = [resolved EXCEPT ![c] = run[a].number]
        /\ Move(a, [run[a] EXCEPT !.todo = @ \ {c}])
  /\ UNCHANGED <<files, asked, started, kills, last, cut, silent>>

EndRevise(a) ==
  /\ run[a].at = "resolve" /\ ToResolve(a) = {}
  /\ letter' = None
  /\ End(a, "done")
  /\ UNCHANGED <<corpus, evidence, page, claims, versions, manifest, receipts,
                 commentVars, started, kills, cut, silent>>

-----------------------------------------------------------------------------
(* `guides verify`: read the manifest, resolve the cites, write both back.   *)

StartVerify(a) ==
  /\ a # Server
  /\ run[a] = Idle
  /\ started < MaxRuns
  /\ manifest # None
  /\ started' = started + 1
  /\ Move(a, [Idle EXCEPT !.at = "check", !.kind = "verify", !.held = manifest])
  /\ UNCHANGED <<files, commentVars, kills, last, cut, silent>>

WriteClaims(a) ==
  /\ run[a].at = "check"
  /\ claims' = ReportOf(page)
  /\ Move(a, [run[a] EXCEPT !.at = "checked", !.held.sound = page.sound])
  /\ UNCHANGED <<corpus, evidence, page, versions, manifest, letter, receipts,
                 commentVars, started, kills, last, cut, silent>>

WriteRate(a) ==
  /\ run[a].at = "checked"
  /\ manifest' = run[a].held
  /\ End(a, "done")
  /\ UNCHANGED <<corpus, evidence, page, claims, versions, letter, receipts,
                 commentVars, started, kills, cut, silent>>

-----------------------------------------------------------------------------
(* Readers, failures and kills.                                              *)

(* Comments are recorded even while a job runs. *)
AddComment(c) ==
  /\ c \notin asked
  /\ manifest # None
  /\ asked' = asked \cup {c}
  /\ UNCHANGED <<files, resolved, run, started, kills, ghosts>>

Unchecked(a) == run[a].at = "extract" /\ run[a].fresh # {}

(* A session raises, runs out of time or breaks off before it has written.   *)
(* The extractions that run beside a failed one are cancelled.               *)
SessionFails(a) ==
  /\ run[a].at \in {"extract", "compose", "revise", "fix", "answered"}
  /\ run[a].at = "extract" => run[a].todo \cup run[a].fresh # {}
  /\ cut' = (cut \/ Unchecked(a))
  /\ End(a, "error")
  /\ UNCHANGED <<files, commentVars, started, kills, silent>>

(* Every file is written in place, and the one being written when its       *)
(* process is killed may be cut short: a JSON file then does not parse, a    *)
(* version or the page is a file all the same, and what is left of a page    *)
(* may verify.  A revision may write the manifest a second time before its   *)
(* receipt.  (The page of a session that is killed is one that Compose,      *)
(* Revise or Fix may have left.)                                             *)
Kill(a) ==
  /\ run[a] # Idle
  /\ kills < MaxKills
  /\ kills' = kills + 1
  /\ cut' = (cut \/ Unchecked(a))
  /\ End(a, "error")
  /\ LET Cut(at, file, short) == {file} \cup (IF run[a].at \in at THEN short ELSE {})
     IN /\ corpus' \in Cut({"export"}, corpus, {None})
        /\ \E N \in SUBSET (run[a].todo \cup run[a].fresh) :
              evidence' \in Cut({"extract"}, evidence,
                               {[n \in Passes |-> IF n \in N THEN None ELSE evidence[n]]})
        /\ page' \in Cut({"publish"}, page,
                         {[page EXCEPT !.sound = sound, !.normal = FALSE] : sound \in BOOLEAN})
        /\ claims' \in Cut({"verify", "check"}, claims, {None})
        /\ versions' \in Cut({"copy"}, versions, {[versions EXCEPT ![run[a].number] = Torn]})
        /\ manifest' \in Cut({"manifest", "receipt", "checked"}, manifest, {None})
        /\ receipts' \in Cut({"receipt"}, receipts,
                             {[receipts EXCEPT ![run[a].number] = None]})
  /\ UNCHANGED <<letter, silent, commentVars, started>>

-----------------------------------------------------------------------------
Writes(a) == \/ \E s \in Selections : StartWrite(a, s)
             \/ Export(a)
             \/ \E n \in Passes : Extract(a, n) \/ VerifyEvidence(a, n)
             \/ Extracted(a)
             \/ Compose(a)

Revises(a) == \/ StartRevise(a)
              \/ TakeBatch(a)
              \/ Revise(a)
              \/ ParseReceipt(a)
              \/ WriteReceipt(a)
              \/ ResolveComment(a)
              \/ EndRevise(a)

Publishes(a) == \/ Verify(a)
                \/ Fix(a)
                \/ Normalise(a)
                \/ PublishCheck(a)
                \/ PublishCopy(a)
                \/ PublishManifest(a)

Checks(a) == StartVerify(a) \/ WriteClaims(a) \/ WriteRate(a)

Next == \/ \E a \in Actors : \/ Writes(a)
                             \/ Revises(a)
                             \/ Publishes(a)
                             \/ Checks(a)
                             \/ SessionFails(a)
                             \/ Kill(a)
        \/ \E c \in Comments : AddComment(c)

Spec == Init /\ [][Next]_vars

-----------------------------------------------------------------------------
(* Properties.                                                               *)

RunStates == [at : {"idle", "export", "extract", "compose", "asked", "revise", "answered",
                    "verify", "fix", "publish", "normalised", "copy", "manifest", "receipt",
                    "resolve", "check", "checked"},
              kind : {"none", "write", "revise", "verify"},
              sel : Selections \cup {None}, batch : SUBSET Comments,
              todo : SUBSET (Comments \cup Passes), fresh : SUBSET Passes,
              number : Numbers \cup {0}, fixes : 0..MaxFixPasses,
              held : Manifests \cup {None}]

(* Types. *)
TypeOK ==
  /\ corpus \in Selections \cup {None}
  /\ evidence \in [Passes -> Evidence \cup {None}]
  /\ page \in Pages \cup {None} /\ claims \in Reports \cup {None}
  /\ versions \in [Numbers -> Pages \cup {None, Torn}]
  /\ manifest \in Manifests \cup {None}
  /\ letter \in (SUBSET Comments) \cup {None}
  /\ receipts \in [Numbers -> (SUBSET Comments) \cup {None}]
  /\ asked \subseteq Comments /\ resolved \in [Comments -> Numbers \cup {0}]
  /\ run \in [Actors -> RunStates]
  /\ started \in 0..MaxRuns /\ kills \in 0..MaxKills
  /\ last \in {"none", "done", "error"} /\ cut \in BOOLEAN /\ silent \subseteq Passes
  /\ overlap \in BOOLEAN

(* Without runs at the same time, a comment is closed only by a version that *)
(* is on disk, comes from a reviser who was given that comment, and has a    *)
(* receipt that answers it; and the manifest, if it can be read, has reached *)
(* that version.  A comment made during a revision stays open.               *)
ClosedByItsReceipt ==
  ~overlap =>
     \A c \in Comments : resolved[c] # 0 =>
        LET n == resolved[c]
        IN /\ versions[n] \notin {None, Torn} /\ c \in versions[n].given
           /\ receipts[n] # None /\ c \in receipts[n]
           /\ manifest # None => manifest.current >= n

(* A comment is closed once: however the ids handed over have aged when the  *)
(* revision starts, none that another has closed is closed again.            *)
ClosedOnce ==
  [][\A c \in Comments : resolved[c] # 0 /\ ~overlap' => resolved'[c] = resolved[c]]_vars

(* Whatever was killed before, torn version files and an unreadable manifest *)
(* included, a run by itself is never refused its version number.            *)
NumberIsFree ==
  ~overlap => \A a \in Actors : run[a].at \in {"publish", "normalised"} =>
                                 versions[run[a].number] = None

(* Nothing unverified is published: the version that the manifest names is   *)
(* whole, and its cites resolve unless it is version 1 as it was imported.   *)
PublishedIsVerified ==
  ~overlap /\ manifest # None =>
     LET v == versions[manifest.current]
     IN /\ v \notin {None, Torn}
        /\ v.sound \/ (manifest.current = 1 /\ manifest.of = None)

(* When the last run to write or revise has ended well and none is under     *)
(* way, guide.html is a copy of the current version - chrome included - and  *)
(* claims.json, if it can be read, reports on it.                            *)
PageIsCurrent ==
  /\ last = "done" /\ ~overlap /\ manifest # None
  /\ \A a \in Actors : ~Working(a)
  => page = versions[manifest.current] /\ claims \in {None, ReportOf(page)}

(* The composer is given, for every pass of its guide, a file that lists     *)
(* exactly the videos of that pass.  It is evidence of those videos, unless   *)
(* the session that was to write it wrote nothing over another guide's; and   *)
(* it was verified, unless a run broke off between the session and the check. *)
EvidenceFits ==
  ~overlap =>
     \A a \in Actors : run[a].at = "compose" =>
        \A n \in 1..Clusters[run[a].sel] :
           /\ evidence[n] # None /\ evidence[n].of = run[a].sel
           /\ evidence[n].from = run[a].sel \/ n \in silent
           /\ evidence[n].verified \/ cut
=============================================================================
