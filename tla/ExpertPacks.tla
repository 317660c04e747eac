---------------------------- MODULE ExpertPacks ----------------------------
(***************************************************************************)
(* One topic of the expert packs on disk (PackStore): `build-packs` builds *)
(* its three arms from the corpus while the server's override requests pin *)
(* videos in and out of it, the catalogue of blocked videos is edited and  *)
(* the build may be killed.                                                *)
(*                                                                         *)
(* A rubric is abstracted to the unit it was written from and the rule it  *)
(* states: two rubrics that state the same rule are what dedupe_rubrics    *)
(* takes for one.  A unit is asked for one rubric, and a call is remembered  *)
(* under the unit and those of its videos the topic holds: they give the    *)
(* excerpts.  The calls of one arm, made by a pool of threads and joined in *)
(* the units' order, are one after the other here.                         *)
(***************************************************************************)
EXTENDS TopicPacks, Naturals, Sequences, SequencesExt, FiniteSetsExt

vars == <<blocked, packManifest, arms, cache, build, faults, request, wish, raced>>

Arms == <<"raptor", "communities", "merged">>
Decisions == {"in", "out", "router"}

Manifests == [pins: [Videos -> Decisions], build: 0..MaxBuilds]

Builds ==
  [at: {"idle", "units", "manifest", "writing"}, number: 0..MaxBuilds,
   pins: [Videos -> Decisions], blocked: SUBSET Videos, members: SUBSET Videos,
   arm: 1..Len(Arms), found: Seq(Rules \cup {Silent, Absent})]

Overrides ==
  [at: {"idle", "loaded", "writing", "done", "refused"},
   video: Videos \cup {Absent}, choice: Decisions, draft: Manifests]

NoPins == [v \in Videos |-> "router"]
NoManifest == [pins |-> NoPins, build |-> 0]
NoBuild == [at |-> "idle", number |-> 0, pins |-> NoPins, blocked |-> {}, members |-> {},
            arm |-> 1, found |-> <<>>]

NoRequest == [at |-> "idle", video |-> Absent, choice |-> "router", draft |-> NoManifest]

Init ==
  /\ blocked = {}
  /\ packManifest = NoManifest
  /\ arms = [a \in ArmNames |-> Absent]
  /\ cache = [u \in Units |-> [seen \in SUBSET UnitVideos[u] |-> Absent]]
  /\ build = NoBuild
  /\ faults = 0
  /\ request = [r \in Requests |-> NoRequest]
  /\ wish = NoPins
  /\ raced = FALSE

(* load_manifest: a file that does not parse reads as an empty manifest. *)
LoadManifest == IF packManifest = TornFile THEN NoManifest ELSE packManifest

(* Somebody holds contents of the manifest that a write would make stale. *)
Holding(r) == request[r].at \in {"loaded", "writing"}
Building == build.at # "idle"

----------------------------------------------------------------------------
(* The override requests of the server, each on a thread of its own.       *)

(* set_member_override: a blocked video is refused, for any other the       *)
(* manifest is loaded and changed.                                         *)
Pin(r, v, choice) ==
  /\ request[r].at = "idle"
  /\ IF v \in blocked
     THEN /\ request' = [request EXCEPT ![r].at = "refused"]
          /\ UNCHANGED raced
     ELSE /\ request' = [request EXCEPT ![r] =
               [at |-> "loaded", video |-> v, choice |-> choice,
                draft |-> [LoadManifest EXCEPT !.pins[v] = choice]]]
          /\ raced' = (raced \/ Building \/ (\E q \in Requests: Holding(q)) \/ packManifest = TornFile)
  /\ UNCHANGED <<blocked, packManifest, arms, cache, build, faults, wish>>

(* save_manifest opens the file, which empties it ... *)
BeginPin(r) ==
  /\ request[r].at = "loaded"
  /\ request' = [request EXCEPT ![r].at = "writing"]
  /\ packManifest' = TornFile
  /\ UNCHANGED <<blocked, arms, cache, build, faults, wish, raced>>

(* ... and writes it, and the request answers 200. *)
EndPin(r) ==
  /\ request[r].at = "writing"
  /\ request' = [request EXCEPT ![r] = [NoRequest EXCEPT !.at = "done"]]
  /\ packManifest' = request[r].draft
  /\ wish' = [wish EXCEPT ![request[r].video] = request[r].choice]
  /\ UNCHANGED <<blocked, arms, cache, build, faults, raced>>

(* A hand edit of the catalogue. *)
Exclude(v) ==
  /\ Cardinality(blocked) < MaxExcluded
  /\ blocked' = blocked \cup {v}
  /\ UNCHANGED <<packManifest, arms, cache, build, faults, request, wish, raced>>

----------------------------------------------------------------------------
(* build_topic.                                                            *)

(* Mutant: a pin wins over the catalogue. *)
MembersUnfiltered(routed, pins, barred) ==
  {v \in Videos: pins[v] = "in" \/ (pins[v] = "router" /\ v \in routed)}

(* route_members: the router's videos with the pins applied, and no blocked *)
(* one, pinned in or not.                                                  *)
Members(routed, pins, barred) ==
  {v \in Videos: pins[v] = "in" \/ (pins[v] = "router" /\ v \in routed)} \ barred

(* Mutant: the budget is capped by the larger pool. *)
SharedBudgetOfLarger(raptor, graph) ==
  LET sizes == {Len(raptor), Len(graph)} \ {0} IN
  IF sizes = {} THEN UnitBudget ELSE Min({UnitBudget, Max(sizes)})

(* shared_budget: what every arm whose pool is not empty can spend. *)
SharedBudget(raptor, graph) == Min({UnitBudget} \cup ({Len(raptor), Len(graph)} \ {0}))

Upto(units, n) == SubSeq(units, 1, Min({n, Len(units)}))

(* merge_units: the two pools alternate, best first; where one has no unit  *)
(* left the other gives its next.                                          *)
MergeUnits(raptor, graph, n) ==
  LET short == Min({Len(raptor), Len(graph)})
      long  == IF Len(raptor) > short THEN raptor ELSE graph
  IN  [i \in 1..Min({n, Len(raptor) + Len(graph)}) |->
         IF i > 2 * short THEN long[i - short]
         ELSE IF i % 2 = 1 THEN raptor[(i + 1) \div 2] ELSE graph[i \div 2]]

(* select_units of the arm, from the units that pass the floors.           *)
SelectUnits(arm, members) ==
  LET raptor == RaptorUnits[members]
      graph  == GraphUnits[members]
      n      == SharedBudget(raptor, graph)
  IN  CASE arm = "raptor"      -> Upto(raptor, n)
        [] arm = "communities" -> Upto(graph, n)
        [] arm = "merged"      -> MergeUnits(raptor, graph, n)

(* Build: the catalogue and the pins are read and the topic is routed among *)
(* the videos not blocked.                                                 *)
Start(routed) ==
  /\ build.at = "idle" /\ build.number < MaxBuilds
  /\ build' = [NoBuild EXCEPT !.at = "units", !.number = build.number + 1,
                              !.pins = LoadManifest.pins, !.blocked = blocked,
                              !.members = Members(routed \ blocked, LoadManifest.pins, blocked)]
  /\ raced' = (raced \/ (\E r \in Requests: Holding(r)) \/ packManifest = TornFile)
  /\ UNCHANGED <<blocked, packManifest, arms, cache, faults, request, wish>>

Arm == Arms[build.arm]
Selected == SelectUnits(Arm, build.members)
Pending == Len(build.found) < Len(Selected)
Unit == Selected[Len(build.found) + 1]
Seen == UnitVideos[Unit] \cap build.members
Row == cache[Unit][Seen]

Found(answer) == build' = [build EXCEPT !.found = Append(@, answer)]

(* rubrics_for_unit with a cached call: any file that parses is used. *)
UseCached ==
  /\ build.at = "units" /\ Pending
  /\ Row \notin {Absent, TornFile}
  /\ Found(Row)
  /\ UNCHANGED <<blocked, packManifest, arms, cache, faults, request, wish, raced>>

(* Mutant: a new call's answer is not remembered. *)
CallUncached(answer) ==
  /\ build.at = "units" /\ Pending
  /\ Row \in {Absent, TornFile}
  /\ Found(answer)
  /\ UNCHANGED <<blocked, packManifest, arms, cache, faults, request, wish, raced>>

(* A call to the rubric model, remembered as soon as it is answered, with a *)
(* rule or without.                                                        *)
Call(answer) ==
  /\ build.at = "units" /\ Pending
  /\ Row \in {Absent, TornFile}
  /\ answer = Silent => faults < MaxFaults
  /\ faults' = IF answer = Silent THEN faults + 1 ELSE faults
  /\ Found(answer)
  /\ cache' = [cache EXCEPT ![Unit][Seen] = answer]
  /\ UNCHANGED <<blocked, packManifest, arms, request, wish, raced>>

(* An answer that is not usable (ValueError, KeyError) makes the unit a gap *)
(* and is not remembered.                                                  *)
CallFails ==
  /\ build.at = "units" /\ Pending
  /\ Row \in {Absent, TornFile}
  /\ faults < MaxFaults
  /\ faults' = faults + 1
  /\ Found(Absent)
  /\ UNCHANGED <<blocked, packManifest, arms, cache, request, wish, raced>>

(* dedupe_rubrics: the first statement of every rule is kept. *)
Kept(found) ==
  {i \in DOMAIN found: found[i] \in Rules /\ \A j \in 1..(i - 1): found[j] # found[i]}

Pack ==
  [build |-> build.number, members |-> build.members, blocked |-> build.blocked,
   units |-> Selected,
   rules |-> [i \in Kept(build.found) |-> build.found[i]]]

(* Mutant: the manifest is written before the last arm. *)
SaveArmButOne ==
  /\ build.at = "units" /\ ~Pending
  /\ arms' = [arms EXCEPT ![Arm] = Pack]
  /\ build' = IF build.arm < Len(Arms) - 1
              THEN [build EXCEPT !.arm = @ + 1, !.found = <<>>]
              ELSE [build EXCEPT !.at = "manifest", !.found = <<>>]
  /\ UNCHANGED <<blocked, packManifest, cache, faults, request, wish, raced>>

(* build_pack's result is saved; then the next arm, then the manifest. *)
SaveArm ==
  /\ build.at = "units" /\ ~Pending
  /\ arms' = [arms EXCEPT ![Arm] = Pack]
  /\ build' = IF build.arm < Len(Arms)
              THEN [build EXCEPT !.arm = @ + 1, !.found = <<>>]
              ELSE [build EXCEPT !.at = "manifest", !.found = <<>>]
  /\ UNCHANGED <<blocked, packManifest, cache, faults, request, wish, raced>>

BeginManifest ==
  /\ build.at = "manifest"
  /\ build' = [build EXCEPT !.at = "writing"]
  /\ packManifest' = TornFile
  /\ UNCHANGED <<blocked, arms, cache, faults, request, wish, raced>>

(* Mutant: the rebuilt manifest comes without the pins. *)
BuiltManifestUnpinned == [pins |-> NoPins, build |-> build.number]

(* The new manifest carries the pins the build read when it started. *)
BuiltManifest == [pins |-> build.pins, build |-> build.number]

EndManifest ==
  /\ build.at = "writing"
  /\ build' = [NoBuild EXCEPT !.number = build.number]
  /\ packManifest' = BuiltManifest
  /\ UNCHANGED <<blocked, arms, cache, faults, request, wish, raced>>

(* The command is killed, or a call fails in a way no handler expects: the  *)
(* file it was writing, if any, is left cut short.                         *)
Kill ==
  /\ Building
  /\ faults < MaxFaults
  /\ faults' = faults + 1
  /\ build' = [NoBuild EXCEPT !.number = build.number]
  /\ \/ UNCHANGED <<cache, arms, raced>>
     \/ /\ build.at = "units" /\ Pending /\ Row \in {Absent, TornFile}
        /\ cache' = [cache EXCEPT ![Unit][Seen] = TornFile]
        /\ UNCHANGED <<arms, raced>>
     \/ /\ build.at = "units" /\ ~Pending
        /\ arms' = [arms EXCEPT ![Arm] = TornFile]
        /\ UNCHANGED <<cache, raced>>
  /\ UNCHANGED <<blocked, packManifest, request, wish>>

BuildStep ==
  \/ UseCached
  \/ \E answer \in Rules \cup {Silent}: Call(answer)
  \/ CallFails
  \/ SaveArm
  \/ BeginManifest
  \/ EndManifest

Settled ==
  /\ ~Building /\ build.number = MaxBuilds
  /\ \A r \in Requests: request[r].at \in {"done", "refused"}
  /\ Cardinality(blocked) >= MaxExcluded \/ blocked = Videos

Next ==
  \/ \E r \in Requests, v \in Videos, choice \in Decisions: Pin(r, v, choice)
  \/ \E r \in Requests: BeginPin(r) \/ EndPin(r)
  \/ \E v \in Videos \ blocked: Exclude(v)
  \/ \E routed \in SUBSET Videos: Start(routed)
  \/ BuildStep
  \/ Kill
  \/ Settled /\ UNCHANGED vars

Spec == Init /\ [][Next]_vars

----------------------------------------------------------------------------
(* The types of the variables. *)
TypeOK ==
  /\ blocked \subseteq Videos
  /\ packManifest = TornFile \/ packManifest \in Manifests
  /\ arms \in [ArmNames -> PackFiles \cup {Absent, TornFile}]
  /\ DOMAIN cache = Units
  /\ \A u \in Units: cache[u] \in [SUBSET UnitVideos[u] -> Rules \cup {Silent, Absent, TornFile}]
  /\ build \in Builds
  /\ faults \in 0..MaxFaults
  /\ request \in [Requests -> Overrides]
  /\ wish \in [Videos -> Decisions]
  /\ raced \in BOOLEAN

=============================================================================
