---------------------------- MODULE GuidesProofs ----------------------------
(* TLAPS proofs of the safety properties of Guides, for any actors, comments, *)
(* selections and bounds, and, in the last two sections, of ExpertPacks, the  *)
(* packs on the same topics, for any units, pools, requests and bounds.       *)
EXTENDS Guides, TopicPacks, FiniteSetTheorems, SequenceTheorems, WellFoundedInduction, TLAPS

-----------------------------------------------------------------------------
(* What holds whatever runs work on the guide at once.                       *)

Answering == {"revise", "answered"}
Publishing == {"verify", "fix", "publish", "normalised", "copy"}
Filing == {"manifest", "receipt", "resolve"}
Checking == {"check", "checked"}

(* What a run has at hand at every stage of it. *)
Equipped(a) ==
  LET r == run[a]
  IN  /\ r.at = "idle" => r = Idle
      /\ r.at \in {"export", "extract", "compose"} =>
           r.kind = "write" /\ r.sel \in Selections /\ r.number = 0
      /\ r.at = "asked" => r.number = 0
      /\ r.at = "export" => r.fresh = {}
      /\ r.at = "compose" => r.todo = {}
      /\ r.at \in {"asked", "receipt", "resolve"} \cup Answering => r.kind = "revise"
      /\ r.at \in Publishing \cup {"manifest"} => r.kind \in {"write", "revise"}
      /\ r.at \in Checking => r.kind = "verify" /\ r.held # None
      /\ r.at \in Answering \cup {"verify", "fix"} /\ r.kind = "revise" => r.held # None
      /\ r.at \in Answering \cup {"publish", "normalised", "copy"} \cup Filing => r.number # 0
      /\ r.at \in Publishing \cup Filing => r.todo \subseteq Comments
      /\ r.at \in Answering \cup Publishing \cup Filing \cup Checking => page # None

(* A guide that has a manifest has a page. *)
PageThere == /\ manifest # None => page # None
             /\ \A a \in Actors : Equipped(a)

(* The runs that may yet take a version number.                              *)
Unnumbered == {a \in Actors : run[a].at # "idle" /\ run[a].number = 0}

(* There are numbers for all of them: every version and every number taken    *)
(* has had a run of its own.                                                 *)
Room ==
  /\ Cardinality(Unnumbered) <= started
  /\ \A n \in Numbers : versions[n] # None => n + Cardinality(Unnumbered) <= started + 1
  /\ \A a \in Actors : run[a].number # 0 =>
                         run[a].number + Cardinality(Unnumbered) <= started + 1

(* Evidence that is not verified is about to be, or was cut off from it.      *)
Checked ==
  \A n \in Passes : evidence[n] # None /\ ~evidence[n].verified =>
    cut \/ \E a \in Actors : run[a].at = "extract" /\ n \in run[a].fresh

-----------------------------------------------------------------------------
(* What holds as long as one run at a time works on the guide.               *)

Lone == \A a, b \in Actors : Working(a) /\ Working(b) => a = b

(* What a run that has the guide to itself has made of it.                   *)
Holds(a) ==
  LET r == run[a]
  IN  /\ r.at \in Answering \cup Publishing /\ r.number # 0 =>
           \A n \in Numbers : versions[n] # None => n < r.number
      /\ r.at \in Filing => \A n \in Numbers : versions[n] # None => n <= r.number
      /\ r.at = "answered" => r.batch \subseteq page.given
      /\ r.at \in Publishing \cup Filing => r.todo \subseteq page.given
      /\ r.at \in {"publish", "normalised", "copy"} \cup Filing =>
           page.sound /\ claims = ReportOf(page)
      /\ r.at \in Filing => versions[r.number] = page
      /\ r.at \in {"manifest", "receipt"} => \A c \in Comments : resolved[c] # r.number
      /\ r.at \in {"receipt", "resolve"} => manifest # None /\ manifest.current = r.number
      /\ r.at = "resolve" => receipts[r.number] # None /\ r.todo \subseteq receipts[r.number]
      /\ r.at \in Answering => \A c \in r.batch : resolved[c] = 0
      /\ r.at \in Publishing \cup Filing => \A c \in r.todo : resolved[c] = 0
      /\ r.at \in Checking => /\ manifest # None
                              /\ r.held.current = manifest.current /\ r.held.of = manifest.of
      /\ r.at = "checked" => claims = ReportOf(page)
      /\ r.at \in {"extract", "compose"} =>
           \A n \in 1..Clusters[r.sel] :
             \/ r.at = "extract" /\ n \in r.todo \cup r.fresh
             \/ evidence[n] # None /\ evidence[n].of = r.sel

(* The guide is as its last writer left it, but for a run that writes it.     *)
LeftCurrent ==
  /\ last = "done" /\ manifest # None
  /\ \A a \in Actors : Working(a) => run[a].kind = "verify"
  => page = versions[manifest.current] /\ claims \in {None, ReportOf(page)}

Sound ==
  manifest # None =>
    LET v == versions[manifest.current]
    IN  /\ v \notin {None, Torn}
        /\ v.sound \/ (manifest.current = 1 /\ manifest.of = None)

Closed(c) ==
  resolved[c] # 0 =>
    LET n == resolved[c]
    IN  /\ versions[n] \notin {None, Torn} /\ c \in versions[n].given
        /\ receipts[n] # None /\ c \in receipts[n]
        /\ manifest # None => manifest.current >= n

Alone ==
  /\ Lone /\ LeftCurrent /\ Sound
  /\ \A c \in Comments : Closed(c)
  /\ \A a \in Actors : Holds(a)

IInv == TypeOK /\ PageThere /\ Room /\ Checked /\ (~overlap => Alone)

-----------------------------------------------------------------------------
(* Constants, and the version numbers.                                       *)

LEMMA Members ==
  /\ Idle \in RunStates /\ Idle.at = "idle" /\ Idle.number = 0
  /\ Numbers \subseteq Nat \ {0} /\ 1 \in Numbers /\ 0 \notin Numbers
  /\ \A s \in Selections : 1..Clusters[s] \subseteq Passes
  /\ IsFiniteSet(Actors)
<1>1. Idle \in RunStates
  BY GuideAssumption DEF Idle, RunStates, Numbers
<1>2. \A s \in Selections : 1..Clusters[s] \subseteq Passes
  BY GuideAssumption DEF Passes
<1> QED BY <1>1, <1>2, GuideAssumption DEF Idle, Numbers

LEMMA ReportIs ==
  ASSUME NEW p \in Pages
  PROVE  ReportOf(p) \in Reports
BY DEF ReportOf, Reports, Pages

LEMMA NumberIs ==
  ASSUME NEW r \in RunStates
  PROVE  r.number \in Nat
<1>1. r.number \in Numbers \cup {0}
  BY DEF RunStates
<1>2. Numbers \cup {0} \subseteq Nat
  BY Members
<1> QED BY <1>1, <1>2

(* A set of numbers up to a bound has a highest one.                         *)
LEMMA MaxIs ==
  ASSUME NEW N \in Nat, NEW S \in SUBSET (0..N), S # {}
  PROVE  Max(S) \in S /\ \A x \in S : Max(S) >= x
<1>0. \A x \in S : x \in Nat /\ N - x \in Nat
  OBVIOUS
<1> DEFINE T == {N - x : x \in S}
<1>1. T \subseteq Nat /\ T # {}
  BY <1>0
<1>2. PICK m \in T : \A y \in T : ~(<<y, m>> \in OpToRel(<, Nat))
  BY <1>1, WFMin, NatLessThanWellFounded
<1>3. \A y \in T : y >= m
  <2> SUFFICES ASSUME NEW y \in T PROVE y >= m
    OBVIOUS
  <2>1. y \in Nat /\ m \in Nat
    BY <1>1
  <2>2. y < m => <<y, m>> \in OpToRel(<, Nat)
    BY <2>1 DEF OpToRel
  <2>3. ~(y < m)
    BY <1>2, <2>2, Zenon
  <2> QED BY <2>1, <2>3
<1>4. PICK x \in S : m = N - x
  BY <1>2
<1>5. \A y \in S : x >= y
  <2> SUFFICES ASSUME NEW y \in S PROVE x >= y
    OBVIOUS
  <2>1. N - y >= N - x
    BY <1>3, <1>4
  <2>2. x \in Nat /\ y \in Nat
    BY <1>0
  <2> QED BY <2>1, <2>2
<1> QED BY <1>5 DEF Max

LEMMA NextVersionIs ==
  ASSUME TypeOK
  PROVE  /\ NextVersion \in Nat \ {0}
         /\ \A n \in Numbers : versions[n] # None => n < NextVersion
         /\ NextVersion = 1 \/ (NextVersion - 1 \in Numbers /\ versions[NextVersion - 1] # None)
<1> DEFINE S == {n \in Numbers : versions[n] # None} \cup {0}
<1>1. S \in SUBSET (0..(MaxRuns + 1)) /\ S # {} /\ MaxRuns + 1 \in Nat
  BY GuideAssumption DEF Numbers
<1>2. Max(S) \in S /\ \A x \in S : Max(S) >= x
  BY <1>1, MaxIs
<1>3. NextVersion = Max(S) + 1
  BY DEF NextVersion
<1>4. Max(S) \in Nat
  <2>1. \A x \in S : x \in Nat
    BY Members
  <2> HIDE DEF S
  <2> QED BY <1>2, <2>1
<1>5. \A n \in Numbers : versions[n] # None => n < NextVersion
  <2> SUFFICES ASSUME NEW n \in Numbers, versions[n] # None PROVE n < NextVersion
    OBVIOUS
  <2>1. n \in S
    OBVIOUS
  <2> HIDE DEF S
  <2> QED BY <1>2, <1>3, <1>4, <2>1, Members
<1>6. Max(S) = 0 \/ (Max(S) \in Numbers /\ versions[Max(S)] # None)
  BY <1>2
<1> HIDE DEF S
<1> QED BY <1>3, <1>4, <1>5, <1>6

LEMMA UnnumberedIs ==
  /\ IsFiniteSet(Unnumbered) /\ Cardinality(Unnumbered) \in Nat
  /\ IsFiniteSet(Unnumbered') /\ Cardinality(Unnumbered') \in Nat
<1>1. Unnumbered \subseteq Actors /\ Unnumbered' \subseteq Actors
  BY DEF Unnumbered
<1> QED BY <1>1, GuideAssumption, FS_Subset, FS_CardinalityType

(* A run that takes no number, or ends, leaves the others their room.         *)
LEMMA RoomKeeps ==
  ASSUME IInv, NEW a \in Actors, UNCHANGED started, TypeOK',
         \A b \in Actors \ {a} : run'[b] = run[b],
         \/ run'[a].at = "idle" /\ run'[a].number = 0
         \/ run'[a].number = run[a].number /\ run[a].at # "idle",
         \A n \in Numbers : versions'[n] # None => versions[n] # None \/ n = run[a].number
  PROVE  Room'
<1>1. Unnumbered' \subseteq Unnumbered
  BY DEF Unnumbered
<1>2. Cardinality(Unnumbered') <= Cardinality(Unnumbered)
  BY <1>1, UnnumberedIs, FS_Subset
<1>3. started \in Nat /\ \A b \in Actors : run[b].number \in Nat /\ run'[b].number \in Nat
  BY NumberIs DEF IInv, TypeOK
<1>4. \A n \in Numbers : versions'[n] # None => n + Cardinality(Unnumbered') <= started + 1
  BY <1>2, <1>3, UnnumberedIs, Members DEF IInv, Room
<1>5. \A b \in Actors : run'[b].number # 0 =>
                         run'[b].number + Cardinality(Unnumbered') <= started + 1
  BY <1>2, <1>3, UnnumberedIs DEF IInv, Room
<1> QED BY <1>2, <1>3, <1>4, <1>5, UnnumberedIs DEF IInv, Room

(* A run that takes a number takes one of the room that was kept for it.      *)
LEMMA NumberTaken ==
  ASSUME IInv, NEW a \in Unnumbered
  PROVE  NextVersion \in Numbers /\ NextVersion + Cardinality(Unnumbered \ {a}) <= started + 1
<1>1. Cardinality(Unnumbered \ {a}) = Cardinality(Unnumbered) - 1
      /\ Cardinality(Unnumbered \ {a}) \in Nat
  BY UnnumberedIs, FS_RemoveElement, FS_CardinalityType
<1>2. started \in Nat /\ started <= MaxRuns /\ MaxRuns \in Nat
  BY GuideAssumption DEF IInv, TypeOK
<1>3. NextVersion \in Nat \ {0} /\ NextVersion + Cardinality(Unnumbered \ {a}) <= started + 1
  <2>1. CASE NextVersion = 1
    BY <1>1, <1>2, <2>1, UnnumberedIs DEF IInv, Room
  <2>2. CASE NextVersion # 1
    <3>1. NextVersion - 1 \in Numbers /\ versions[NextVersion - 1] # None
          /\ NextVersion \in Nat \ {0}
      BY <2>2, NextVersionIs DEF IInv
    <3>2. NextVersion - 1 + Cardinality(Unnumbered) <= started + 1
      BY <3>1 DEF IInv, Room
    <3> QED BY <1>1, <1>2, <3>1, <3>2, UnnumberedIs
  <2> QED BY <2>1, <2>2
<1> QED BY <1>1, <1>2, <1>3 DEF Numbers

LEMMA RoomTaken ==
  ASSUME IInv, NEW a \in Actors, UNCHANGED <<started, versions>>, TypeOK',
         run[a].at # "idle", run[a].number = 0,
         \A b \in Actors \ {a} : run'[b] = run[b],
         run'[a].at # "idle", run'[a].number = NextVersion
  PROVE  Room'
<1>1. a \in Unnumbered
  BY DEF Unnumbered
<1>2. NextVersion \in Numbers /\ NextVersion + Cardinality(Unnumbered \ {a}) <= started + 1
  BY <1>1, NumberTaken
<1>3. Unnumbered' = Unnumbered \ {a}
  BY <1>1, <1>2, Members DEF Unnumbered
<1>4. Cardinality(Unnumbered') = Cardinality(Unnumbered) - 1
  BY <1>1, <1>3, UnnumberedIs, FS_RemoveElement
<1>5. started \in Nat /\ \A b \in Actors : run[b].number \in Nat
  BY NumberIs DEF IInv, TypeOK
<1>6. \A n \in Numbers : versions[n] # None => n + Cardinality(Unnumbered') <= started + 1
  BY <1>4, <1>5, UnnumberedIs, Members DEF IInv, Room
<1>7. \A b \in Actors : run'[b].number # 0 =>
                         run'[b].number + Cardinality(Unnumbered') <= started + 1
  BY <1>2, <1>3, <1>4, <1>5, UnnumberedIs DEF IInv, Room
<1> QED BY <1>4, <1>5, <1>6, <1>7, UnnumberedIs DEF IInv, Room

LEMMA RoomStarts ==
  ASSUME IInv, NEW a \in Actors, UNCHANGED versions, started' = started + 1, TypeOK',
         run[a] = Idle, run'[a].number = 0,
         \A b \in Actors \ {a} : run'[b] = run[b]
  PROVE  Room'
<1>1. Unnumbered' \subseteq Unnumbered \cup {a} /\ a \notin Unnumbered
  BY Members DEF Unnumbered
<1>2. Cardinality(Unnumbered') <= Cardinality(Unnumbered) + 1
  <2>1. IsFiniteSet(Unnumbered \cup {a})
        /\ Cardinality(Unnumbered \cup {a}) = Cardinality(Unnumbered) + 1
    BY <1>1, UnnumberedIs, FS_AddElement
  <2> QED BY <1>1, <2>1, FS_Subset
<1>3. started \in Nat /\ \A b \in Actors : run[b].number \in Nat
  BY NumberIs DEF IInv, TypeOK
<1>4. \A n \in Numbers : versions[n] # None => n + Cardinality(Unnumbered') <= started' + 1
  BY <1>2, <1>3, UnnumberedIs, Members DEF IInv, Room
<1>5. \A b \in Actors : run'[b].number # 0 =>
                         run'[b].number + Cardinality(Unnumbered') <= started' + 1
  BY <1>2, <1>3, UnnumberedIs DEF IInv, Room
<1> QED BY <1>2, <1>3, <1>4, <1>5, UnnumberedIs DEF IInv, Room

-----------------------------------------------------------------------------
LEMMA InitIInv == Init => IInv
<1> SUFFICES ASSUME Init PROVE IInv
  OBVIOUS
<1>1. /\ run = [a \in Actors |-> Idle] /\ started = 0 /\ last = "none"
      /\ resolved = [c \in Comments |-> 0] /\ evidence = [n \in Passes |-> None]
      /\ \A a \in Actors : run[a].at = "idle" /\ run[a].number = 0
  BY Members DEF Init
<1> DEFINE Imported ==
             manifest # None => /\ page # None /\ manifest.current = 1 /\ manifest.of = None
                                /\ versions[1] = page /\ page \in Pages
<1>2. /\ page \in Pages \cup {None} /\ claims \in Reports \cup {None}
      /\ versions \in [Numbers -> Pages \cup {None, Torn}]
      /\ manifest \in Manifests \cup {None}
      /\ Imported /\ \A n \in Numbers : versions[n] # None => n = 1
  <2>1. CASE page = None /\ claims = None /\ manifest = None /\ versions = [n \in Numbers |-> None]
    BY <2>1
  <2>2. ASSUME NEW sound \in BOOLEAN,
               page = [of |-> None, sound |-> sound, given |-> {}, normal |-> FALSE],
               claims = ReportOf(page),
               manifest = [current |-> 1, of |-> None, sound |-> sound],
               versions = [n \in Numbers |-> IF n = 1 THEN page ELSE None]
        PROVE  /\ page \in Pages /\ claims \in Reports /\ manifest \in Manifests
               /\ versions \in [Numbers -> Pages \cup {None, Torn}]
               /\ Imported /\ \A n \in Numbers : versions[n] # None => n = 1
    <3>1. page \in Pages /\ page # None /\ claims \in Reports
      <4>1. page \in Pages
        BY <2>2 DEF Pages
      <4> QED BY <2>2, <4>1, ReportIs, FilesAssumption
    <3>2. manifest \in Manifests /\ manifest.current = 1 /\ manifest.of = None
      BY <2>2, Members DEF Manifests
    <3> QED BY <2>2, <3>1, <3>2, Members
  <2> QED BY <2>1, <2>2 DEF Init
<1>3. TypeOK
  <2>1. /\ resolved \in [Comments -> Numbers \cup {0}] /\ run \in [Actors -> RunStates]
        /\ evidence \in [Passes -> Evidence \cup {None}]
    BY <1>1, Members
  <2>2. started \in 0..MaxRuns /\ kills \in 0..MaxKills
    BY GuideAssumption DEF Init
  <2>3. letter \in (SUBSET Comments) \cup {None} /\ corpus \in Selections \cup {None}
    BY DEF Init
  <2>4. receipts \in [Numbers -> (SUBSET Comments) \cup {None}]
    BY DEF Init
  <2> QED BY <1>2, <2>1, <2>2, <2>3, <2>4 DEF Init, TypeOK
<1>4. PageThere
  BY <1>1, <1>2 DEF PageThere, Equipped, Answering, Publishing, Filing, Checking
<1>5. Room
  <2>1. Unnumbered = {}
    BY <1>1 DEF Unnumbered
  <2>2. Cardinality(Unnumbered) = 0
    BY <2>1, FS_EmptySet
  <2> QED BY <1>1, <1>2, <2>2, Members DEF Room
<1>6. Checked
  BY <1>1 DEF Checked
<1>7. Lone /\ \A a \in Actors : Holds(a)
  BY <1>1 DEF Lone, Working, Unworked, Holds, Answering, Publishing, Filing, Checking
<1>8. LeftCurrent /\ Sound
  BY <1>1, <1>2, FilesAssumption DEF LeftCurrent, Sound
<1>9. \A c \in Comments : Closed(c)
  BY <1>1 DEF Closed
<1> QED BY <1>3, <1>4, <1>5, <1>6, <1>7, <1>8, <1>9 DEF IInv, Alone

-----------------------------------------------------------------------------
(* What a step of one actor has to keep.                                     *)

LEMMA MoveIs ==
  ASSUME IInv, NEW a \in Actors, NEW next \in RunStates, Move(a, next)
  PROVE  /\ run' \in [Actors -> RunStates] /\ run'[a] = next
         /\ \A b \in Actors \ {a} : run'[b] = run[b]
         /\ overlap' \in BOOLEAN /\ (~overlap' => ~overlap)
         /\ ~overlap' /\ (Working(a) \/ next.at \notin Unworked) =>
              \A b \in Actors \ {a} : ~Working(b)
<1>1. run \in [Actors -> RunStates] /\ overlap \in BOOLEAN
  BY DEF IInv, TypeOK
<1>2. /\ run' = [run EXCEPT ![a] = next]
      /\ overlap' = (overlap \/ \E b \in Actors \ {a} :
                                   Working(b) /\ ~Working(a) /\ next.at \notin Unworked)
  BY DEF Move
<1>3. run' \in [Actors -> RunStates] /\ run'[a] = next
      /\ \A b \in Actors \ {a} : run'[b] = run[b]
  BY <1>1, <1>2
<1>4. overlap' \in BOOLEAN /\ (~overlap' => ~overlap)
  BY <1>1, <1>2
<1>5. ASSUME ~overlap', Working(a) \/ next.at \notin Unworked, NEW b \in Actors \ {a}, Working(b)
      PROVE  FALSE
  <2>1. CASE Working(a)
    BY <1>4, <1>5, <2>1 DEF IInv, Alone, Lone
  <2>2. CASE ~Working(a)
    BY <1>2, <1>5, <2>2
  <2> QED BY <2>1, <2>2
<1> QED BY <1>3, <1>4, <1>5

LEMMA Keeps ==
  ASSUME IInv, NEW a \in Actors, NEW next \in RunStates, Move(a, next),
         TypeOK', Room', Checked',
         manifest' # None => page' # None, page # None => page' # None,
         Equipped(a)',
         ~overlap' => LeftCurrent' /\ Sound' /\ \A c \in Comments : Closed(c)',
         ~overlap' /\ next.at \notin Unworked => Holds(a)',
         \/ Working(a) \/ next.at \notin Unworked
         \/ UNCHANGED <<page, claims, versions, manifest, receipts, evidence, resolved>>
  PROVE  IInv'
<1>1. /\ run'[a] = next /\ \A b \in Actors \ {a} : run'[b] = run[b]
      /\ ~overlap' => ~overlap
      /\ ~overlap' /\ (Working(a) \/ next.at \notin Unworked) =>
              \A b \in Actors \ {a} : ~Working(b)
  BY MoveIs
<1>2. PageThere'
  <2>1. ASSUME NEW b \in Actors \ {a} PROVE Equipped(b)'
    BY <1>1, <2>1 DEF IInv, PageThere, Equipped
  <2> QED BY <2>1 DEF PageThere
<1>3. ASSUME ~overlap' PROVE Alone'
  <2>1. Alone
    BY <1>1, <1>3 DEF IInv
  <2>2. Lone'
    BY <1>1, <1>3, <2>1 DEF Alone, Lone, Working
  <2>3. ASSUME NEW b \in Actors, b # a PROVE Holds(b)'
    <3>1. CASE Working(a) \/ next.at \notin Unworked
      <4>1. run'[b].at \in Unworked
        BY <1>1, <1>3, <2>3, <3>1 DEF Working
      <4> QED BY <4>1 DEF Holds, Unworked, Answering, Publishing, Filing, Checking
    <3>2. CASE UNCHANGED <<page, claims, versions, manifest, receipts, evidence, resolved>>
      BY <1>1, <2>1, <2>3, <3>2 DEF Alone, Holds
    <3> QED BY <3>1, <3>2
  <2>4. Holds(a)'
    <3>1. CASE next.at \in Unworked
      BY <1>1, <3>1 DEF Holds, Unworked, Answering, Publishing, Filing, Checking
    <3> QED BY <1>3, <3>1
  <2> QED BY <1>3, <2>2, <2>3, <2>4 DEF Alone
<1> QED BY <1>2, <1>3 DEF IInv

LEMMA FilesKeep ==
  ASSUME Sound, \A c \in Comments : Closed(c), UNCHANGED <<versions, manifest, receipts, resolved>>
  PROVE  Sound' /\ \A c \in Comments : Closed(c)'
BY DEF Sound, Closed

(* A run that writes or revises goes on, and publishes nothing yet.           *)
LEMMA WorkKeeps ==
  ASSUME IInv, NEW a \in Actors, NEW next \in RunStates, Move(a, next),
         next.at \notin Unworked, next.kind \in {"write", "revise"},
         UNCHANGED <<versions, manifest, receipts, resolved>>,
         TypeOK', Room', Checked', page # None => page' # None,
         Equipped(a)', ~overlap' => Holds(a)'
  PROVE  IInv'
<1>1. run'[a] = next /\ (~overlap' => ~overlap)
  BY MoveIs
<1>2. manifest' # None => page' # None
  BY DEF IInv, PageThere
<1>3. LeftCurrent'
  BY <1>1 DEF LeftCurrent, Working
<1>4. ~overlap' => LeftCurrent' /\ Sound' /\ \A c \in Comments : Closed(c)'
  BY <1>1, <1>3, FilesKeep DEF IInv, Alone
<1> QED BY <1>2, <1>4, Keeps

(* Evidence is still verified, about to be or cut off.                       *)
LEMMA CheckedKeeps ==
  ASSUME IInv, NEW a \in Actors, \A b \in Actors \ {a} : run'[b] = run[b],
         UNCHANGED evidence, cut => cut',
         \/ run[a].at # "extract" \/ cut'
         \/ \A n \in run[a].fresh : evidence[n] = None
         \/ run'[a].at = "extract" /\ run[a].fresh \subseteq run'[a].fresh
  PROVE  Checked'
BY DEF IInv, Checked

(* A run that writes or revises ends with an error.                          *)
LEMMA ErrorKeeps ==
  ASSUME IInv, NEW a \in Actors, run[a].at # "idle", run[a].kind \in {"write", "revise"},
         End(a, "error"), TypeOK', Checked',
         manifest' \in {manifest, None}, page # None => page' # None,
         UNCHANGED <<resolved, started>>,
         \/ UNCHANGED receipts
         \/ receipts' = [receipts EXCEPT ![run[a].number] = None] /\ run[a].at = "receipt",
         \/ UNCHANGED versions
         \/ versions' = [versions EXCEPT ![run[a].number] = Torn] /\ run[a].at = "copy",
         \/ Working(a)
         \/ UNCHANGED <<page, claims, versions, manifest, receipts, evidence>>
  PROVE  IInv'
<1>1. Move(a, Idle) /\ last' = "error"
  BY DEF End
<1>2. /\ run'[a] = Idle /\ (~overlap' => ~overlap)
      /\ \A b \in Actors \ {a} : run'[b] = run[b]
  BY <1>1, Members, MoveIs
<1>3. Room'
  <2>1. \A n \in Numbers : versions'[n] # None => versions[n] # None \/ n = run[a].number
    BY DEF IInv, TypeOK
  <2> QED BY <1>2, <2>1, Members, RoomKeeps
<1>4. Equipped(a)'
  BY <1>2, Members DEF Equipped, Answering, Publishing, Filing, Checking
<1>5. manifest' # None => page' # None
  BY DEF IInv, PageThere
<1>6. LeftCurrent'
  BY <1>1 DEF LeftCurrent
<1>7. ASSUME ~overlap' PROVE Sound' /\ \A c \in Comments : Closed(c)'
  <2>1. Alone
    BY <1>2, <1>7 DEF IInv
  <2>2. ASSUME NEW n \in Numbers, versions[n] # None PROVE versions'[n] = versions[n]
    <3>1. run[a].at = "copy" => n # run[a].number
      BY <2>1, <2>2, Members, NumberIs DEF Alone, Holds, Publishing, IInv, TypeOK, PageThere, Equipped
    <3> QED BY <3>1 DEF IInv, TypeOK
  <2>3. Sound'
    BY <2>1, <2>2 DEF Alone, Sound, IInv, TypeOK, Manifests
  <2>4. ASSUME NEW c \in Comments PROVE Closed(c)'
    <3>1. run[a].at = "receipt" => resolved[c] # run[a].number
      BY <2>1 DEF Alone, Holds
    <3>2. resolved[c] # 0 => receipts'[resolved[c]] = receipts[resolved[c]]
      BY <3>1 DEF IInv, TypeOK
    <3> QED BY <2>1, <2>2, <3>2 DEF Alone, Closed, IInv, TypeOK
  <2> QED BY <2>3, <2>4
<1>8. Idle \in RunStates /\ Idle.at \in Unworked
  BY Members DEF Unworked
<1> QED BY <1>1, <1>3, <1>4, <1>5, <1>6, <1>7, <1>8, Keeps

-----------------------------------------------------------------------------
(* Writing a guide.                                                          *)

LEMMA ToExtractIs ==
  ASSUME NEW s \in Selections
  PROVE  /\ ToExtract(s) \subseteq Passes
         /\ \A n \in 1..Clusters[s] :
              n \in ToExtract(s) \/ (evidence[n] # None /\ evidence[n].of = s)
BY Members DEF ToExtract, EvidenceMatches

LEMMA StartWriteIInv ==
  ASSUME IInv, NEW a \in Actors, NEW s \in Selections, StartWrite(a, s)
  PROVE  IInv'
<1> DEFINE writer == [Idle EXCEPT !.kind = "write", !.sel = s]
           skips == [writer EXCEPT !.at = "extract", !.todo = ToExtract(s)]
           exports == [writer EXCEPT !.at = "export"]
<1>1. /\ run[a] = Idle /\ started < MaxRuns /\ started' = started + 1
      /\ UNCHANGED <<files, commentVars, kills, last, cut, silent>>
  BY DEF StartWrite
<1>2. PICK next \in RunStates :
        /\ Move(a, next)
        /\ next.kind = "write" /\ next.sel = s /\ next.number = 0 /\ next.fresh = {}
        /\ next.at = "export" \/ (next.at = "extract" /\ next.todo = ToExtract(s))
  <2>1. Idle \in RunStates /\ ToExtract(s) \in SUBSET (Comments \cup Passes)
    BY ToExtractIs, Members
  <2>2. /\ skips \in RunStates /\ skips.kind = "write" /\ skips.sel = s /\ skips.number = 0
        /\ skips.fresh = {} /\ skips.at = "extract" /\ skips.todo = ToExtract(s)
    BY <2>1 DEF RunStates, Idle
  <2>3. /\ exports \in RunStates /\ exports.kind = "write" /\ exports.sel = s
        /\ exports.number = 0 /\ exports.fresh = {} /\ exports.at = "export"
    BY <2>1 DEF RunStates, Idle
  <2>4. Move(a, skips) \/ Move(a, exports)
    BY DEF StartWrite
  <2> HIDE DEF skips, exports
  <2> QED BY <2>2, <2>3, <2>4
<1>3. /\ run' \in [Actors -> RunStates] /\ run'[a] = next /\ overlap' \in BOOLEAN
      /\ \A b \in Actors \ {a} : run'[b] = run[b]
  BY <1>2, MoveIs
<1>4. TypeOK'
  BY <1>1, <1>3, GuideAssumption DEF IInv, TypeOK, files, commentVars
<1>5. Room'
  BY <1>1, <1>2, <1>3, <1>4, RoomStarts DEF files
<1>6. Checked'
  BY <1>1, <1>3, Members, CheckedKeeps DEF files
<1>7. Equipped(a)'
  BY <1>2, <1>3 DEF Equipped, Answering, Publishing, Filing, Checking
<1>8. Holds(a)'
  BY <1>1, <1>2, <1>3, ToExtractIs DEF files, Holds, Answering, Publishing, Filing, Checking
<1> QED BY <1>1, <1>2, <1>4, <1>5, <1>6, <1>7, <1>8, WorkKeeps DEF files, commentVars, Unworked

LEMMA ExportIInv ==
  ASSUME IInv, NEW a \in Actors, Export(a)
  PROVE  IInv'
<1> DEFINE s == run[a].sel
           next == [run[a] EXCEPT !.at = "extract", !.todo = ToExtract(s)]
<1>1. /\ run[a].at = "export" /\ corpus' = s /\ Move(a, next)
      /\ UNCHANGED <<evidence, page, claims, versions, manifest, letter, receipts,
                     commentVars, started, kills, last, cut, silent>>
  BY DEF Export
<1>2. /\ run[a] \in RunStates /\ run[a].kind = "write" /\ s \in Selections
      /\ run[a].number = 0
  BY <1>1 DEF IInv, TypeOK, PageThere, Equipped
<1>3. /\ next \in RunStates /\ next.at = "extract" /\ next.kind = "write"
      /\ next.sel = s /\ next.todo = ToExtract(s) /\ next.number = run[a].number
  BY <1>2, ToExtractIs DEF RunStates
<1> HIDE DEF next
<1>4. /\ run' \in [Actors -> RunStates] /\ run'[a] = next /\ overlap' \in BOOLEAN
      /\ \A b \in Actors \ {a} : run'[b] = run[b]
  BY <1>1, <1>3, MoveIs
<1>5. TypeOK'
  BY <1>1, <1>2, <1>4 DEF IInv, TypeOK, commentVars
<1>6. Room'
  BY <1>1, <1>3, <1>4, <1>5, RoomKeeps
<1>7. Checked'
  BY <1>1, <1>4, CheckedKeeps
<1>8. Equipped(a)'
  BY <1>2, <1>3, <1>4 DEF Equipped, Answering, Publishing, Filing, Checking
<1>9. Holds(a)'
  BY <1>1, <1>2, <1>3, <1>4, ToExtractIs DEF Holds, Answering, Publishing, Filing, Checking
<1> QED BY <1>1, <1>3, <1>5, <1>6, <1>7, <1>8, <1>9, WorkKeeps DEF commentVars, Unworked

(* A file of evidence that is written does not disturb the unchecked others.  *)
LEMMA EvidenceWritten ==
  ASSUME IInv, NEW a \in Actors, NEW n \in Passes, NEW e \in Evidence,
         run[a].at = "extract", run'[a].at = "extract",
         \A b \in Actors \ {a} : run'[b] = run[b],
         evidence' = [evidence EXCEPT ![n] = e],
         UNCHANGED cut,
         e.verified = TRUE \/ n \in run'[a].fresh,
         run[a].fresh \ {n} \subseteq run'[a].fresh
  PROVE  Checked' /\ evidence' \in [Passes -> Evidence \cup {None}]
<1>1. evidence \in [Passes -> Evidence \cup {None}]
  BY DEF IInv, TypeOK
<1>2. evidence' \in [Passes -> Evidence \cup {None}] /\ evidence'[n] = e
      /\ \A m \in Passes \ {n} : evidence'[m] = evidence[m]
  BY <1>1
<1>3. Checked'
  <2> SUFFICES ASSUME NEW m \in Passes, evidence'[m] # None, ~evidence'[m].verified, ~cut
               PROVE  \E b \in Actors : run'[b].at = "extract" /\ m \in run'[b].fresh
    BY DEF Checked
  <2>1. CASE m = n
    BY <1>2, <2>1
  <2>2. CASE m # n
    <3>1. PICK b \in Actors : run[b].at = "extract" /\ m \in run[b].fresh
      BY <1>2, <2>2 DEF IInv, Checked
    <3> QED BY <2>2, <3>1
  <2> QED BY <2>1, <2>2
<1> QED BY <1>2, <1>3

(* An extraction goes on: the pass it works on moves from the passes to run   *)
(* to those to check, or from there to those that fit.                       *)
LEMMA ExtractionKeeps ==
  ASSUME IInv, NEW a \in Actors, NEW n \in Passes, NEW next \in RunStates,
         run[a].at = "extract", Move(a, next),
         next.at = "extract", next.kind = "write", next.sel = run[a].sel,
         next.number = run[a].number,
         run[a].todo \cup run[a].fresh \subseteq next.todo \cup next.fresh \cup {n},
         n \in next.fresh \/ (evidence'[n] # None /\ evidence'[n].of = run[a].sel),
         \A m \in Passes \ {n} : evidence'[m] = evidence[m],
         evidence' \in [Passes -> Evidence \cup {None}], Checked',
         silent' \subseteq Passes,
         UNCHANGED <<corpus, page, claims, versions, manifest, letter, receipts,
                     commentVars, started, kills, last, cut>>
  PROVE  IInv'
<1>1. run[a] \in RunStates /\ run[a].sel \in Selections /\ run[a].number = 0
  BY DEF IInv, TypeOK, PageThere, Equipped
<1>2. /\ run' \in [Actors -> RunStates] /\ run'[a] = next /\ overlap' \in BOOLEAN
      /\ \A b \in Actors \ {a} : run'[b] = run[b]
      /\ ~overlap' => ~overlap
  BY MoveIs
<1>3. TypeOK'
  BY <1>2 DEF IInv, TypeOK, commentVars
<1>4. Room'
  BY <1>1, <1>2, <1>3, RoomKeeps
<1>5. Equipped(a)'
  BY <1>1, <1>2 DEF Equipped, Answering, Publishing, Filing, Checking
<1>6. ASSUME ~overlap' PROVE Holds(a)'
  <2>1. \A m \in 1..Clusters[run[a].sel] :
          m \in run[a].todo \cup run[a].fresh \/ (evidence[m] # None /\ evidence[m].of = run[a].sel)
    BY <1>1, <1>2, <1>6 DEF IInv, Alone, Holds
  <2>2. \A m \in 1..Clusters[run[a].sel] : m \in Passes
    BY <1>1, Members
  <2>3. \A m \in 1..Clusters[next.sel] :
          m \in next.todo \cup next.fresh \/ (evidence'[m] # None /\ evidence'[m].of = next.sel)
    BY <2>1, <2>2
  <2> QED BY <1>2, <2>3 DEF Holds, Answering, Publishing, Filing, Checking
<1> QED BY <1>3, <1>4, <1>5, <1>6, WorkKeeps DEF commentVars, Unworked

LEMMA ExtractIInv ==
  ASSUME IInv, NEW a \in Actors, NEW n \in Passes, Extract(a, n)
  PROVE  IInv'
<1> DEFINE next == [run[a] EXCEPT !.todo = @ \ {n}, !.fresh = @ \cup {n}]
           e == [of |-> run[a].sel, from |-> run[a].sel, verified |-> FALSE]
<1>1. /\ run[a].at = "extract" /\ run[a] \in RunStates
      /\ run[a].kind = "write" /\ run[a].sel \in Selections
      /\ evidence \in [Passes -> Evidence \cup {None}] /\ silent \subseteq Passes
  BY DEF Extract, IInv, TypeOK, PageThere, Equipped
<1>2. /\ next \in RunStates /\ next.fresh = run[a].fresh \cup {n}
      /\ next.todo = run[a].todo \ {n}
      /\ next.at = "extract" /\ next.kind = "write" /\ next.sel = run[a].sel
      /\ next.number = run[a].number
  BY <1>1 DEF RunStates
<1>3. /\ Move(a, next)
      /\ UNCHANGED <<corpus, page, claims, versions, manifest, letter, receipts,
                     commentVars, started, kills, last, cut>>
  BY DEF Extract
<1>4. /\ evidence' = evidence \/ evidence' = [evidence EXCEPT ![n] = e]
      /\ silent' \subseteq Passes
  BY <1>1 DEF Extract
<1> HIDE DEF next
<1>5. run'[a] = next /\ \A b \in Actors \ {a} : run'[b] = run[b]
  BY <1>2, <1>3, MoveIs
<1>6. /\ Checked' /\ evidence' \in [Passes -> Evidence \cup {None}]
      /\ \A m \in Passes \ {n} : evidence'[m] = evidence[m]
  <2>1. CASE evidence' = evidence
    BY <1>1, <1>2, <1>3, <1>5, <2>1, CheckedKeeps
  <2>2. CASE evidence' = [evidence EXCEPT ![n] = e]
    <3>1. e \in Evidence
      BY <1>1 DEF Evidence
    <3>2. Checked' /\ evidence' \in [Passes -> Evidence \cup {None}]
      <4> HIDE DEF e
      <4> QED BY <1>1, <1>2, <1>3, <1>5, <2>2, <3>1, EvidenceWritten
    <3> QED BY <1>1, <2>2, <3>2
  <2> QED BY <1>4, <2>1, <2>2
<1> QED BY <1>1, <1>2, <1>3, <1>4, <1>6, ExtractionKeeps

LEMMA VerifyEvidenceIInv ==
  ASSUME IInv, NEW a \in Actors, NEW n \in Passes, VerifyEvidence(a, n)
  PROVE  IInv'
<1> DEFINE next == [run[a] EXCEPT !.fresh = @ \ {n}]
           e == [evidence[n] EXCEPT !.of = run[a].sel, !.verified = TRUE]
<1>1. /\ run[a].at = "extract" /\ n \in run[a].fresh /\ run[a] \in RunStates
      /\ run[a].kind = "write" /\ run[a].sel \in Selections
      /\ evidence \in [Passes -> Evidence \cup {None}] /\ silent \subseteq Passes
      /\ cut' = (cut \/ (evidence[n] = None /\ run[a].fresh # {n}))
      /\ UNCHANGED <<corpus, page, claims, versions, manifest, letter, receipts,
                     commentVars, started, kills, silent>>
  BY DEF VerifyEvidence, IInv, TypeOK, PageThere, Equipped
<1>2. CASE evidence[n] = None
  <2>1. End(a, "error") /\ UNCHANGED evidence
    BY <1>2 DEF VerifyEvidence
  <2>2. /\ run' \in [Actors -> RunStates] /\ overlap' \in BOOLEAN /\ last' = "error"
        /\ \A b \in Actors \ {a} : run'[b] = run[b]
    BY <1>1, <2>1, Members, MoveIs DEF End
  <2>3. TypeOK'
    BY <1>1, <2>1, <2>2 DEF IInv, TypeOK, commentVars
  <2>4. Checked'
    <3>1. cut' \/ \A m \in run[a].fresh : evidence[m] = None
      BY <1>1, <1>2
    <3>2. cut => cut'
      BY <1>1
    <3> QED BY <2>1, <2>2, <3>1, <3>2, CheckedKeeps
  <2> QED BY <1>1, <2>1, <2>3, <2>4, ErrorKeeps DEF commentVars, Working, Unworked
<1>3. CASE evidence[n] # None
  <2>1. /\ next \in RunStates /\ next.fresh = run[a].fresh \ {n}
        /\ next.todo = run[a].todo
        /\ next.at = "extract" /\ next.kind = "write" /\ next.sel = run[a].sel
        /\ next.number = run[a].number
    BY <1>1 DEF RunStates
  <2>2. /\ Move(a, next) /\ UNCHANGED <<last, cut>>
        /\ evidence' = [evidence EXCEPT ![n].of = run[a].sel, ![n].verified = TRUE]
    BY <1>1, <1>3 DEF VerifyEvidence, IInv, TypeOK
  <2>3. evidence' = [evidence EXCEPT ![n] = e]
    BY <1>1, <2>2
  <2>4. e \in Evidence /\ e.verified = TRUE /\ e.of = run[a].sel
    BY <1>1, <1>3 DEF Evidence
  <2> HIDE DEF next, e
  <2>5. run'[a] = next /\ \A b \in Actors \ {a} : run'[b] = run[b]
    BY <2>1, <2>2, MoveIs
  <2>6. Checked' /\ evidence' \in [Passes -> Evidence \cup {None}]
    <3>1. /\ run'[a].at = "extract" /\ run[a].fresh \ {n} \subseteq run'[a].fresh
          /\ UNCHANGED cut
      BY <2>1, <2>2, <2>5
    <3> QED BY <1>1, <2>3, <2>4, <2>5, <3>1, EvidenceWritten
  <2>7. /\ evidence'[n] = e /\ e # None
        /\ \A m \in Passes \ {n} : evidence'[m] = evidence[m]
    BY <1>1, <2>3, <2>4, FilesAssumption
  <2> QED BY <1>1, <2>1, <2>2, <2>4, <2>6, <2>7, ExtractionKeeps
<1> QED BY <1>2, <1>3

LEMMA ExtractedIInv ==
  ASSUME IInv, NEW a \in Actors, Extracted(a)
  PROVE  IInv'
<1> DEFINE next == [run[a] EXCEPT !.at = IF page = None THEN "compose" ELSE "verify"]
<1>1. /\ run[a].at = "extract" /\ run[a].todo = {} /\ run[a].fresh = {}
      /\ Move(a, next)
      /\ UNCHANGED <<files, commentVars, started, kills, last, cut, silent>>
  BY DEF Extracted
<1>2. /\ run[a] \in RunStates /\ run[a].kind = "write" /\ run[a].sel \in Selections
      /\ run[a].number = 0
  BY <1>1 DEF IInv, TypeOK, PageThere, Equipped
<1>3. /\ next \in RunStates /\ next.at \in {"compose", "verify"} /\ next.kind = "write"
      /\ next.sel = run[a].sel /\ next.todo = {} /\ next.number = run[a].number
      /\ next.at = "verify" => page # None
  BY <1>1, <1>2 DEF RunStates
<1> HIDE DEF next
<1>4. /\ run' \in [Actors -> RunStates] /\ run'[a] = next /\ overlap' \in BOOLEAN
      /\ \A b \in Actors \ {a} : run'[b] = run[b]
      /\ ~overlap' => ~overlap
  BY <1>1, <1>3, MoveIs
<1>5. TypeOK'
  BY <1>1, <1>4 DEF IInv, TypeOK, files, commentVars
<1>6. Room'
  BY <1>1, <1>3, <1>4, <1>5, RoomKeeps DEF files
<1>7. Checked'
  BY <1>1, <1>4, CheckedKeeps DEF files
<1>8. Equipped(a)'
  BY <1>1, <1>2, <1>3, <1>4 DEF files, Equipped, Answering, Publishing, Filing, Checking
<1>9. ASSUME ~overlap' PROVE Holds(a)'
  <2>1. /\ \A n \in 1..Clusters[run[a].sel] : evidence[n] # None /\ evidence[n].of = run[a].sel
    BY <1>1, <1>4, <1>9 DEF IInv, Alone, Holds
  <2> QED BY <1>1, <1>2, <1>3, <1>4, <2>1
        DEF files, Holds, Answering, Publishing, Filing, Checking
<1> QED BY <1>1, <1>3, <1>5, <1>6, <1>7, <1>8, <1>9, WorkKeeps DEF files, commentVars, Unworked

LEMMA ComposeIInv ==
  ASSUME IInv, NEW a \in Actors, Compose(a)
  PROVE  IInv'
<1>1. /\ run[a].at = "compose"
      /\ UNCHANGED <<corpus, evidence, claims, versions, manifest, letter, receipts,
                     commentVars, started, kills, cut, silent>>
  BY DEF Compose
<1>2. /\ run[a] \in RunStates /\ run[a].kind = "write" /\ run[a].sel \in Selections
      /\ run[a].number = 0
  BY <1>1 DEF IInv, TypeOK, PageThere, Equipped
<1>3. page' \in Pages /\ page' # None
  <2>1. PICK sound \in BOOLEAN : page' = [of |-> run[a].sel, sound |-> sound, given |-> {},
                                          normal |-> FALSE]
    BY DEF Compose
  <2>2. page' \in Pages
    BY <1>2, <2>1 DEF Pages
  <2> QED BY <2>2, FilesAssumption
<1> DEFINE next == [run[a] EXCEPT !.at = "verify"]
<1>4. CASE Move(a, next) /\ UNCHANGED last
  <2>1. /\ next \in RunStates /\ next.at = "verify" /\ next.kind = "write"
        /\ next.todo = run[a].todo /\ next.number = 0
    BY <1>2 DEF RunStates
  <2> HIDE DEF next
  <2>2. /\ run' \in [Actors -> RunStates] /\ run'[a] = next /\ overlap' \in BOOLEAN
        /\ \A b \in Actors \ {a} : run'[b] = run[b]
        /\ ~overlap' => ~overlap
    BY <1>4, <2>1, MoveIs
  <2>3. TypeOK'
    BY <1>1, <1>3, <1>4, <2>2 DEF IInv, TypeOK, commentVars
  <2>4. Room'
    BY <1>1, <1>2, <2>1, <2>2, <2>3, RoomKeeps
  <2>5. Checked'
    BY <1>1, <2>2, CheckedKeeps
  <2>6. run[a].todo = {}
    BY <1>1 DEF IInv, PageThere, Equipped
  <2>7. Equipped(a)'
    BY <1>3, <2>1, <2>2, <2>6 DEF Equipped, Answering, Publishing, Filing, Checking
  <2>8. Holds(a)'
    BY <2>1, <2>2, <2>6 DEF Holds, Answering, Publishing, Filing, Checking
  <2> QED BY <1>1, <1>3, <1>4, <2>1, <2>3, <2>4, <2>5, <2>7, <2>8, WorkKeeps
          DEF commentVars, Unworked
<1>5. CASE End(a, "error")
  <2>1. /\ run' \in [Actors -> RunStates] /\ overlap' \in BOOLEAN /\ last' = "error"
        /\ \A b \in Actors \ {a} : run'[b] = run[b]
    BY <1>2, <1>5, Members, MoveIs DEF End
  <2>2. TypeOK'
    BY <1>1, <1>3, <2>1 DEF IInv, TypeOK, commentVars
  <2>3. Checked'
    BY <1>1, <2>1, CheckedKeeps
  <2> QED BY <1>1, <1>2, <1>3, <1>5, <2>2, <2>3, ErrorKeeps DEF commentVars, Working, Unworked
<1> QED BY <1>4, <1>5 DEF Compose

-----------------------------------------------------------------------------
(* Revising a guide.                                                         *)

LEMMA StartReviseIInv ==
  ASSUME IInv, NEW a \in Actors, StartRevise(a)
  PROVE  IInv'
<1>1. /\ run[a] = Idle /\ started < MaxRuns /\ started' = started + 1 /\ manifest # None
      /\ UNCHANGED <<files, commentVars, kills, last, cut, silent>>
  BY DEF StartRevise
<1>2. PICK S \in SUBSET Open : Move(a, [Idle EXCEPT !.at = "asked", !.kind = "revise", !.batch = S])
  BY DEF StartRevise
<1> DEFINE next == [Idle EXCEPT !.at = "asked", !.kind = "revise", !.batch = S]
<1>3. /\ next \in RunStates /\ next.at = "asked" /\ next.kind = "revise" /\ next.number = 0
  <2>1. S \in SUBSET Comments
    BY DEF Open, IInv, TypeOK
  <2> QED BY <2>1, Members DEF RunStates
<1>4. Move(a, next)
  BY <1>2
<1> HIDE DEF next
<1>5. /\ run' \in [Actors -> RunStates] /\ run'[a] = next /\ overlap' \in BOOLEAN
      /\ \A b \in Actors \ {a} : run'[b] = run[b]
      /\ ~overlap' => ~overlap
  BY <1>3, <1>4, MoveIs
<1>6. TypeOK'
  BY <1>1, <1>5, GuideAssumption DEF IInv, TypeOK, files, commentVars
<1>7. Room'
  BY <1>1, <1>3, <1>5, <1>6, RoomStarts DEF files
<1>8. Checked'
  BY <1>1, <1>5, Members, CheckedKeeps DEF files
<1>9. Equipped(a)'
  BY <1>3, <1>5 DEF Equipped, Answering, Publishing, Filing, Checking
<1>10. ASSUME ~overlap' PROVE LeftCurrent' /\ Sound' /\ \A c \in Comments : Closed(c)'
  <2>1. Alone
    BY <1>5, <1>10 DEF IInv
  <2>2. LeftCurrent'
    BY <1>1, <1>5, <2>1, Members DEF Alone, LeftCurrent, Working, Unworked, files
  <2> QED BY <1>1, <2>1, <2>2, FilesKeep DEF Alone, files, commentVars
<1>11. (manifest' # None => page' # None) /\ (page # None => page' # None)
  BY <1>1 DEF IInv, PageThere, files
<1> QED BY <1>1, <1>3, <1>4, <1>6, <1>7, <1>8, <1>9, <1>10, <1>11, Keeps
        DEF files, commentVars, Unworked

LEMMA TakeBatchIInv ==
  ASSUME IInv, NEW a \in Actors, TakeBatch(a)
  PROVE  IInv'
<1>1. /\ run[a].at = "asked"
      /\ UNCHANGED <<corpus, evidence, page, claims, versions, manifest, receipts,
                     commentVars, started, kills, cut, silent>>
  BY DEF TakeBatch
<1>2. run[a] \in RunStates /\ run[a].kind = "revise"
  BY <1>1 DEF IInv, TypeOK, PageThere, Equipped
<1>3. CASE manifest = None \/ Pending(a) = {}
  <2>1. End(a, "error") /\ UNCHANGED letter
    BY <1>3 DEF TakeBatch
  <2>2. /\ run' \in [Actors -> RunStates] /\ overlap' \in BOOLEAN /\ last' = "error"
        /\ \A b \in Actors \ {a} : run'[b] = run[b]
    BY <1>2, <2>1, Members, MoveIs DEF End
  <2>3. TypeOK'
    BY <1>1, <2>1, <2>2 DEF IInv, TypeOK, commentVars
  <2>4. Checked'
    BY <1>1, <2>2, CheckedKeeps
  <2> QED BY <1>1, <1>2, <2>1, <2>3, <2>4, ErrorKeeps DEF commentVars
<1>4. CASE ~(manifest = None \/ Pending(a) = {})
  <2> DEFINE next == [run[a] EXCEPT !.at = "revise", !.batch = Pending(a),
                                    !.number = NextVersion, !.held = manifest]
  <2>1. letter' = None /\ Move(a, next) /\ UNCHANGED last
    BY <1>4 DEF TakeBatch
  <2>2. run[a].number = 0
    BY <1>1 DEF IInv, PageThere, Equipped
  <2>3. NextVersion \in Numbers /\ manifest \in Manifests /\ page # None
    <3>1. a \in Unnumbered
      BY <1>1, <2>2 DEF Unnumbered
    <3> QED BY <1>4, <3>1, NumberTaken DEF IInv, TypeOK, PageThere
  <2>4. Pending(a) \in SUBSET Comments /\ \A c \in Pending(a) : resolved[c] = 0
    BY DEF Pending, Open, IInv, TypeOK
  <2>5. /\ next \in RunStates /\ next.at = "revise" /\ next.kind = "revise"
        /\ next.batch = Pending(a) /\ next.number = NextVersion /\ next.held = manifest
    BY <1>2, <2>3, <2>4 DEF RunStates
  <2> HIDE DEF next
  <2>6. /\ run' \in [Actors -> RunStates] /\ run'[a] = next /\ overlap' \in BOOLEAN
        /\ \A b \in Actors \ {a} : run'[b] = run[b]
    BY <2>1, <2>5, MoveIs
  <2>7. TypeOK'
    BY <1>1, <2>1, <2>6 DEF IInv, TypeOK, commentVars
  <2>8. Room'
    BY <1>1, <2>2, <2>5, <2>6, <2>7, RoomTaken
  <2>9. Checked'
    BY <1>1, <2>6, CheckedKeeps
  <2>10. Equipped(a)'
    BY <1>1, <1>4, <2>3, <2>5, <2>6, Members
       DEF Equipped, Answering, Publishing, Filing, Checking
  <2>11. Holds(a)'
    <3>1. \A n \in Numbers : versions[n] # None => n < NextVersion
      BY NextVersionIs DEF IInv
    <3> QED BY <1>1, <2>4, <2>5, <2>6, <3>1
            DEF commentVars, Holds, Answering, Publishing, Filing, Checking
  <2> QED BY <1>1, <2>1, <2>5, <2>7, <2>8, <2>9, <2>10, <2>11, WorkKeeps
          DEF commentVars, Unworked
<1> QED BY <1>3, <1>4

LEMMA ReviseIInv ==
  ASSUME IInv, NEW a \in Actors, Revise(a)
  PROVE  IInv'
<1> DEFINE next == [run[a] EXCEPT !.at = "answered"]
<1>1. /\ run[a].at = "revise" /\ Move(a, next)
      /\ letter' \in {None} \cup (SUBSET run[a].batch)
      /\ UNCHANGED <<corpus, evidence, claims, versions, manifest, receipts,
                     commentVars, started, kills, last, cut, silent>>
  BY DEF Revise
<1>2. /\ run[a] \in RunStates /\ run[a].kind = "revise" /\ run[a].held # None
      /\ run[a].number # 0 /\ page \in Pages
  BY <1>1 DEF IInv, TypeOK, PageThere, Equipped, Answering
<1>3. page' \in Pages /\ page' # None /\ run[a].batch \subseteq page'.given
  <2>1. PICK sound \in BOOLEAN : 
           page' = [page EXCEPT !.sound = sound, !.given = @ \cup run[a].batch,
                                !.normal = FALSE]
    BY DEF Revise
  <2>2. run[a].batch \subseteq Comments
    BY <1>2 DEF RunStates
  <2>3. page' \in Pages /\ page'.given = page.given \cup run[a].batch
    BY <1>2, <2>1, <2>2 DEF Pages
  <2> QED BY <2>3, FilesAssumption
<1>4. /\ next \in RunStates /\ next.at = "answered" /\ next.kind = "revise"
      /\ next.batch = run[a].batch /\ next.number = run[a].number /\ next.held = run[a].held
  BY <1>2 DEF RunStates
<1> HIDE DEF next
<1>5. /\ run' \in [Actors -> RunStates] /\ run'[a] = next /\ overlap' \in BOOLEAN
      /\ \A b \in Actors \ {a} : run'[b] = run[b]
      /\ ~overlap' => ~overlap
  BY <1>1, <1>4, MoveIs
<1>6. TypeOK'
  <2>1. letter' \in (SUBSET Comments) \cup {None}
    BY <1>1, <1>2 DEF RunStates
  <2> QED BY <1>1, <1>3, <1>5, <2>1 DEF IInv, TypeOK, commentVars
<1>7. Room'
  BY <1>1, <1>4, <1>5, <1>6, RoomKeeps
<1>8. Checked'
  BY <1>1, <1>5, CheckedKeeps
<1>9. Equipped(a)'
  BY <1>2, <1>3, <1>4, <1>5 DEF Equipped, Answering, Publishing, Filing, Checking
<1>10. ASSUME ~overlap' PROVE Holds(a)'
  <2>1. Holds(a)
    BY <1>5, <1>10 DEF IInv, Alone
  <2> QED BY <1>1, <1>3, <1>4, <1>5, <2>1
          DEF commentVars, Holds, Answering, Publishing, Filing, Checking
<1> QED BY <1>1, <1>3, <1>4, <1>6, <1>7, <1>8, <1>9, <1>10, WorkKeeps DEF commentVars, Unworked

LEMMA ParseReceiptIInv ==
  ASSUME IInv, NEW a \in Actors, ParseReceipt(a)
  PROVE  IInv'
<1>1. run[a].at = "answered" /\ UNCHANGED <<files, commentVars, started, kills, cut, silent>>
  BY DEF ParseReceipt
<1>2. /\ run[a] \in RunStates /\ run[a].kind = "revise" /\ run[a].held # None
      /\ run[a].number # 0 /\ page # None
  BY <1>1 DEF IInv, TypeOK, PageThere, Equipped, Answering
<1>3. CASE ~Accounts(a)
  <2>1. End(a, "error")
    BY <1>3 DEF ParseReceipt
  <2>2. /\ run' \in [Actors -> RunStates] /\ overlap' \in BOOLEAN /\ last' = "error"
        /\ \A b \in Actors \ {a} : run'[b] = run[b]
    BY <1>2, <2>1, Members, MoveIs DEF End
  <2>3. TypeOK'
    BY <1>1, <2>2 DEF IInv, TypeOK, files, commentVars
  <2>4. Checked'
    BY <1>1, <2>2, CheckedKeeps DEF files
  <2> QED BY <1>1, <1>2, <2>1, <2>3, <2>4, ErrorKeeps DEF files, commentVars
<1>4. CASE Accounts(a)
  <2> DEFINE next == [run[a] EXCEPT !.at = "verify", !.batch = {}, !.todo = letter]
  <2>1. Move(a, next) /\ UNCHANGED last
    BY <1>4 DEF ParseReceipt
  <2>2. letter = run[a].batch /\ letter \subseteq Comments
    BY <1>2, <1>4 DEF Accounts, RunStates
  <2>3. /\ next \in RunStates /\ next.at = "verify" /\ next.kind = "revise"
        /\ next.todo = letter /\ next.number = run[a].number /\ next.held = run[a].held
    BY <1>2, <2>2 DEF RunStates
  <2> HIDE DEF next
  <2>4. /\ run' \in [Actors -> RunStates] /\ run'[a] = next /\ overlap' \in BOOLEAN
        /\ \A b \in Actors \ {a} : run'[b] = run[b]
        /\ ~overlap' => ~overlap
    BY <2>1, <2>3, MoveIs
  <2>5. TypeOK'
    BY <1>1, <2>1, <2>4 DEF IInv, TypeOK, files, commentVars
  <2>6. Room'
    BY <1>1, <2>3, <2>4, <2>5, RoomKeeps DEF files
  <2>7. Checked'
    BY <1>1, <2>4, CheckedKeeps DEF files
  <2>8. Equipped(a)'
    BY <1>1, <1>2, <2>2, <2>3, <2>4 DEF files, Equipped, Answering, Publishing, Filing, Checking
  <2>9. ASSUME ~overlap' PROVE Holds(a)'
    <3>1. Holds(a)
      BY <2>4, <2>9 DEF IInv, Alone
    <3> QED BY <1>1, <2>2, <2>3, <2>4, <3>1
            DEF files, commentVars, Holds, Answering, Publishing, Filing, Checking
  <2> QED BY <1>1, <2>1, <2>3, <2>5, <2>6, <2>7, <2>8, <2>9, WorkKeeps
          DEF files, commentVars, Unworked
<1> QED BY <1>3, <1>4

-----------------------------------------------------------------------------
(* Verifying and publishing.                                                 *)

(* A step of a run that only ends it, with an error.                         *)
LEMMA GivenUp ==
  ASSUME IInv, NEW a \in Actors, run[a].kind \in {"write", "revise"}, Working(a),
         run[a].at # "extract", End(a, "error"),
         page' \in Pages \cup {None}, claims' \in Reports \cup {None}, page # None => page' # None,
         UNCHANGED <<corpus, evidence, versions, manifest, letter, receipts,
                     commentVars, started, kills, cut, silent>>
  PROVE  IInv'
<1>1. /\ run' \in [Actors -> RunStates] /\ overlap' \in BOOLEAN /\ last' = "error"
      /\ \A b \in Actors \ {a} : run'[b] = run[b]
  BY Members, MoveIs DEF End
<1>2. TypeOK'
  BY <1>1 DEF IInv, TypeOK, commentVars
<1>3. Checked'
  BY <1>1, CheckedKeeps
<1> QED BY <1>2, <1>3, ErrorKeeps DEF commentVars, Working, Unworked

LEMMA VerifyIInv ==
  ASSUME IInv, NEW a \in Actors, Verify(a)
  PROVE  IInv'
<1>1. /\ run[a].at = "verify" /\ claims' = ReportOf(page)
      /\ UNCHANGED <<corpus, evidence, page, versions, manifest, letter, receipts,
                     commentVars, started, kills, cut, silent>>
  BY DEF Verify
<1>2. /\ run[a] \in RunStates /\ run[a].kind \in {"write", "revise"}
      /\ run[a].kind = "revise" => run[a].held \in Manifests
      /\ run[a].todo \subseteq Comments /\ page \in Pages /\ page # None
      /\ run[a].sel \in Selections \cup {None}
  BY <1>1 DEF IInv, TypeOK, PageThere, Equipped, Publishing, RunStates
<1>3. CASE page.sound /\ Move(a, Verified(a)) /\ UNCHANGED last
  <2> DEFINE next == Verified(a)
  <2>1. SummaryOf(a) \in Selections \cup {None}
    BY <1>2 DEF SummaryOf, IInv, TypeOK, Manifests
  <2>2. run[a].number = 0 => NextVersion \in Numbers
    <3>1. run[a].number = 0 => a \in Unnumbered
      BY <1>1 DEF Unnumbered
    <3> QED BY <3>1, NumberTaken
  <2>3. /\ next \in RunStates /\ next.at = "publish" /\ next.kind = run[a].kind
        /\ next.todo = run[a].todo
        /\ next.number = IF run[a].number = 0 THEN NextVersion ELSE run[a].number
    <3> DEFINE n == IF run[a].number = 0 THEN NextVersion ELSE run[a].number
               s == SummaryOf(a)
    <3>1. /\ n \in Numbers \cup {0} /\ s \in Selections \cup {None} /\ 0 \in 0..MaxFixPasses
          /\ next = [run[a] EXCEPT !.at = "publish", !.sel = s, !.held = None,
                                   !.fixes = 0, !.number = n]
      BY <1>2, <2>1, <2>2, GuideAssumption DEF Verified, RunStates
    <3> HIDE DEF next, n, s
    <3>2. next \in RunStates /\ next.at = "publish" /\ next.kind = run[a].kind
          /\ next.todo = run[a].todo /\ next.number = n
      BY <1>2, <3>1 DEF RunStates
    <3> QED BY <3>2 DEF n
  <2> HIDE DEF next
  <2>4. /\ run' \in [Actors -> RunStates] /\ run'[a] = next /\ overlap' \in BOOLEAN
        /\ \A b \in Actors \ {a} : run'[b] = run[b]
        /\ ~overlap' => ~overlap
    BY <1>3, <2>3, MoveIs DEF next
  <2>5. TypeOK'
    BY ReportIs, <1>1, <1>2, <1>3, <2>4 DEF IInv, TypeOK, commentVars
  <2>6. Room'
    <3>1. CASE run[a].number = 0
      BY <1>1, <2>3, <2>4, <2>5, <3>1, RoomTaken
    <3>2. CASE run[a].number # 0
      BY <1>1, <2>3, <2>4, <2>5, <3>2, RoomKeeps
    <3> QED BY <3>1, <3>2
  <2>7. Checked'
    BY <1>1, <2>4, CheckedKeeps
  <2>8. next.number # 0
    BY <2>2, <2>3, Members
  <2>9. Equipped(a)'
    BY <1>1, <1>2, <2>3, <2>4, <2>8 DEF Equipped, Answering, Publishing, Filing, Checking
  <2>10. ASSUME ~overlap' PROVE Holds(a)'
    <3>1. Holds(a)
      BY <2>4, <2>10 DEF IInv, Alone
    <3>2. \A n \in Numbers : versions[n] # None => n < next.number
      BY <1>1, <2>3, <3>1, NextVersionIs DEF IInv, Holds, Publishing
    <3>3. run[a].todo \subseteq page.given /\ \A c \in run[a].todo : resolved[c] = 0
      BY <1>1, <3>1 DEF Holds, Publishing
    <3> QED BY <1>1, <1>3, <2>3, <2>4, <3>2, <3>3
            DEF commentVars, Holds, Answering, Publishing, Filing, Checking
  <2> QED BY <1>1, <1>2, <1>3, <2>3, <2>5, <2>6, <2>7, <2>9, <2>10, WorkKeeps
          DEF commentVars, Unworked, next
<1>4. CASE /\ ~page.sound /\ run[a].fixes < MaxFixPasses
           /\ Move(a, [run[a] EXCEPT !.at = "fix", !.fixes = @ + 1]) /\ UNCHANGED last
  <2> DEFINE next == [run[a] EXCEPT !.at = "fix", !.fixes = @ + 1]
  <2>1. run[a].fixes + 1 \in 0..MaxFixPasses
    BY <1>2, <1>4, GuideAssumption DEF RunStates
  <2>2. /\ next \in RunStates /\ next.at = "fix" /\ next.kind = run[a].kind
        /\ next.todo = run[a].todo /\ next.number = run[a].number /\ next.held = run[a].held
    BY <1>2, <2>1 DEF RunStates
  <2>3. Move(a, next)
    BY <1>4
  <2> HIDE DEF next
  <2>4. /\ run' \in [Actors -> RunStates] /\ run'[a] = next /\ overlap' \in BOOLEAN
        /\ \A b \in Actors \ {a} : run'[b] = run[b]
        /\ ~overlap' => ~overlap
    BY <2>2, <2>3, MoveIs
  <2>5. TypeOK'
    BY ReportIs, <1>1, <1>2, <1>4, <2>4 DEF IInv, TypeOK, commentVars
  <2>6. Room'
    BY <1>1, <2>2, <2>4, <2>5, RoomKeeps
  <2>7. Checked'
    BY <1>1, <2>4, CheckedKeeps
  <2>8. Equipped(a)'
    BY <1>1, <1>2, <2>2, <2>4, FilesAssumption
       DEF Equipped, Answering, Publishing, Filing, Checking
  <2>9. ASSUME ~overlap' PROVE Holds(a)'
    <3>1. Holds(a)
      BY <2>4, <2>9 DEF IInv, Alone
    <3> QED BY <1>1, <2>2, <2>4, <3>1
            DEF commentVars, Holds, Answering, Publishing, Filing, Checking
  <2> QED BY <1>1, <1>2, <1>4, <2>2, <2>3, <2>5, <2>6, <2>7, <2>8, <2>9, WorkKeeps
          DEF commentVars, Unworked
<1>5. CASE End(a, "error")
  BY ReportIs, <1>1, <1>2, <1>5, GivenUp DEF Working, Unworked
<1> QED BY <1>3, <1>4, <1>5 DEF Verify

LEMMA FixIInv ==
  ASSUME IInv, NEW a \in Actors, Fix(a)
  PROVE  IInv'
<1>1. /\ run[a].at = "fix"
      /\ UNCHANGED <<corpus, evidence, claims, versions, manifest, letter, receipts,
                     commentVars, started, kills, cut, silent>>
  BY DEF Fix
<1>2. /\ run[a] \in RunStates /\ run[a].kind \in {"write", "revise"}
      /\ run[a].kind = "revise" => run[a].held # None
      /\ run[a].todo \subseteq Comments /\ page \in Pages
  BY <1>1 DEF IInv, TypeOK, PageThere, Equipped, Publishing
<1>3. page' \in Pages /\ page' # None /\ page'.given = page.given
  <2>1. PICK sound \in BOOLEAN : page' = [page EXCEPT !.sound = sound, !.normal = FALSE]
    BY DEF Fix
  <2>2. page' \in Pages /\ page'.given = page.given
    BY <1>2, <2>1 DEF Pages
  <2> QED BY <2>2, FilesAssumption
<1> DEFINE next == [run[a] EXCEPT !.at = "verify"]
<1>4. CASE Move(a, next) /\ UNCHANGED last
  <2>1. /\ next \in RunStates /\ next.at = "verify" /\ next.kind = run[a].kind
        /\ next.todo = run[a].todo /\ next.number = run[a].number /\ next.held = run[a].held
    BY <1>2 DEF RunStates
  <2> HIDE DEF next
  <2>2. /\ run' \in [Actors -> RunStates] /\ run'[a] = next /\ overlap' \in BOOLEAN
        /\ \A b \in Actors \ {a} : run'[b] = run[b]
        /\ ~overlap' => ~overlap
    BY <1>4, <2>1, MoveIs
  <2>3. TypeOK'
    BY <1>1, <1>3, <1>4, <2>2 DEF IInv, TypeOK, commentVars
  <2>4. Room'
    BY <1>1, <2>1, <2>2, <2>3, RoomKeeps
  <2>5. Checked'
    BY <1>1, <2>2, CheckedKeeps
  <2>6. Equipped(a)'
    BY <1>1, <1>2, <1>3, <2>1, <2>2 DEF Equipped, Answering, Publishing, Filing, Checking
  <2>7. ASSUME ~overlap' PROVE Holds(a)'
    <3>1. Holds(a)
      BY <2>2, <2>7 DEF IInv, Alone
    <3> QED BY <1>1, <1>3, <2>1, <2>2, <3>1
            DEF commentVars, Holds, Answering, Publishing, Filing, Checking
  <2> QED BY <1>1, <1>2, <1>3, <1>4, <2>1, <2>3, <2>4, <2>5, <2>6, <2>7, WorkKeeps
          DEF commentVars, Unworked
<1>5. CASE End(a, "error")
  <2>1. claims \in Reports \cup {None}
    BY DEF IInv, TypeOK
  <2> QED BY <1>1, <1>2, <1>3, <1>5, <2>1, GivenUp DEF Working, Unworked
<1> QED BY <1>4, <1>5 DEF Fix

LEMMA NormaliseIInv ==
  ASSUME IInv, NEW a \in Actors, Normalise(a)
  PROVE  IInv'
<1> DEFINE next == [run[a] EXCEPT !.at = "normalised"]
<1>1. /\ run[a].at = "publish" /\ Move(a, next) /\ page' = [page EXCEPT !.normal = TRUE]
      /\ UNCHANGED <<corpus, evidence, claims, versions, manifest, letter, receipts,
                     commentVars, started, kills, last, cut, silent>>
  BY DEF Normalise
<1>2. /\ run[a] \in RunStates /\ run[a].kind \in {"write", "revise"}
      /\ run[a].number # 0 /\ run[a].todo \subseteq Comments /\ page \in Pages
  BY <1>1 DEF IInv, TypeOK, PageThere, Equipped, Publishing
<1>3. /\ page' \in Pages /\ page' # None /\ page'.given = page.given
      /\ page'.sound = page.sound /\ ReportOf(page)' = ReportOf(page)
  <2>1. /\ page' \in Pages /\ page'.given = page.given /\ page'.sound = page.sound
        /\ page'.of = page.of
    BY <1>1, <1>2 DEF Pages
  <2> QED BY <2>1, FilesAssumption DEF ReportOf
<1>4. /\ next \in RunStates /\ next.at = "normalised" /\ next.kind = run[a].kind
      /\ next.todo = run[a].todo /\ next.number = run[a].number
  BY <1>2 DEF RunStates
<1> HIDE DEF next
<1>5. /\ run' \in [Actors -> RunStates] /\ run'[a] = next /\ overlap' \in BOOLEAN
      /\ \A b \in Actors \ {a} : run'[b] = run[b]
      /\ ~overlap' => ~overlap
  BY <1>1, <1>4, MoveIs
<1>6. TypeOK'
  BY <1>1, <1>3, <1>5 DEF IInv, TypeOK, commentVars
<1>7. Room'
  BY <1>1, <1>4, <1>5, <1>6, RoomKeeps
<1>8. Checked'
  BY <1>1, <1>5, CheckedKeeps
<1>9. Equipped(a)'
  BY <1>1, <1>2, <1>3, <1>4, <1>5 DEF Equipped, Answering, Publishing, Filing, Checking
<1>10. ASSUME ~overlap' PROVE Holds(a)'
  <2>1. Holds(a)
    BY <1>5, <1>10 DEF IInv, Alone
  <2> QED BY <1>1, <1>3, <1>4, <1>5, <2>1
          DEF commentVars, Holds, Answering, Publishing, Filing, Checking
<1> QED BY <1>1, <1>2, <1>3, <1>4, <1>6, <1>7, <1>8, <1>9, <1>10, WorkKeeps
        DEF commentVars, Unworked

LEMMA PublishCheckIInv ==
  ASSUME IInv, NEW a \in Actors, PublishCheck(a)
  PROVE  IInv'
<1>1. /\ run[a].at = "normalised"
      /\ UNCHANGED <<files, commentVars, started, kills, cut, silent>>
  BY DEF PublishCheck
<1>2. /\ run[a] \in RunStates /\ run[a].kind \in {"write", "revise"}
      /\ run[a].number # 0 /\ run[a].todo \subseteq Comments
      /\ page \in Pages \cup {None} /\ claims \in Reports \cup {None} /\ page # None
  BY <1>1 DEF IInv, TypeOK, PageThere, Equipped, Publishing
<1> DEFINE next == [run[a] EXCEPT !.at = "copy"]
<1>3. CASE Move(a, next) /\ UNCHANGED last
  <2>1. /\ next \in RunStates /\ next.at = "copy" /\ next.kind = run[a].kind
        /\ next.todo = run[a].todo /\ next.number = run[a].number
    BY <1>2 DEF RunStates
  <2> HIDE DEF next
  <2>2. /\ run' \in [Actors -> RunStates] /\ run'[a] = next /\ overlap' \in BOOLEAN
        /\ \A b \in Actors \ {a} : run'[b] = run[b]
        /\ ~overlap' => ~overlap
    BY <1>3, <2>1, MoveIs
  <2>3. TypeOK'
    BY <1>1, <1>3, <2>2 DEF IInv, TypeOK, files, commentVars
  <2>4. Room'
    BY <1>1, <2>1, <2>2, <2>3, RoomKeeps DEF files
  <2>5. Checked'
    BY <1>1, <2>2, CheckedKeeps DEF files
  <2>6. Equipped(a)'
    BY <1>1, <1>2, <2>1, <2>2 DEF files, Equipped, Answering, Publishing, Filing, Checking
  <2>7. ASSUME ~overlap' PROVE Holds(a)'
    <3>1. Holds(a)
      BY <2>2, <2>7 DEF IInv, Alone
    <3> QED BY <1>1, <1>2, <2>1, <2>2, <3>1
            DEF files, commentVars, Holds, Answering, Publishing, Filing, Checking
  <2> QED BY <1>1, <1>2, <1>3, <2>1, <2>3, <2>4, <2>5, <2>6, <2>7, WorkKeeps
          DEF files, commentVars, Unworked
<1>4. CASE End(a, "error")
  BY <1>1, <1>2, <1>4, GivenUp DEF files, Working, Unworked
<1> QED BY <1>3, <1>4 DEF PublishCheck

LEMMA PublishCopyIInv ==
  ASSUME IInv, NEW a \in Actors, PublishCopy(a)
  PROVE  IInv'
<1> DEFINE next == [run[a] EXCEPT !.at = "manifest"]
           k == run[a].number
<1>1. /\ run[a].at = "copy" /\ Move(a, next)
      /\ versions' = [versions EXCEPT ![k] = page]
      /\ UNCHANGED <<corpus, evidence, page, claims, manifest, letter, receipts,
                     commentVars, started, kills, last, cut, silent>>
  BY DEF PublishCopy
<1>2. /\ run[a] \in RunStates /\ run[a].kind \in {"write", "revise"}
      /\ k \in Numbers /\ k # 0 /\ run[a].todo \subseteq Comments
      /\ page \in Pages /\ page # None
  BY <1>1 DEF IInv, TypeOK, PageThere, Equipped, Publishing, RunStates
<1>3. /\ next \in RunStates /\ next.at = "manifest" /\ next.kind = run[a].kind
      /\ next.todo = run[a].todo /\ next.number = k
  BY <1>2 DEF RunStates
<1>4. /\ versions' \in [Numbers -> Pages \cup {None, Torn}] /\ versions'[k] = page
      /\ \A n \in Numbers \ {k} : versions'[n] = versions[n]
  BY <1>1, <1>2 DEF IInv, TypeOK
<1> HIDE DEF next
<1>5. /\ run' \in [Actors -> RunStates] /\ run'[a] = next /\ overlap' \in BOOLEAN
      /\ \A b \in Actors \ {a} : run'[b] = run[b]
      /\ ~overlap' => ~overlap
  BY <1>1, <1>3, MoveIs
<1>6. TypeOK'
  BY <1>1, <1>4, <1>5 DEF IInv, TypeOK, commentVars
<1>7. Room'
  BY <1>1, <1>3, <1>4, <1>5, <1>6, RoomKeeps
<1>8. Checked'
  BY <1>1, <1>5, CheckedKeeps
<1>9. Equipped(a)'
  BY <1>1, <1>2, <1>3, <1>5 DEF Equipped, Answering, Publishing, Filing, Checking
<1>10. ASSUME ~overlap'
       PROVE  /\ LeftCurrent' /\ Sound' /\ \A c \in Comments : Closed(c)'
              /\ Holds(a)'
  <2>1. Alone
    BY <1>5, <1>10 DEF IInv
  <2>2. Holds(a)
    BY <2>1 DEF Alone
  <2>3. versions[k] = None /\ \A n \in Numbers : versions[n] # None => n < k
    <3>1. \A n \in Numbers : versions[n] # None => n < k
      BY <1>1, <1>2, <2>2 DEF Holds, Publishing
    <3>2. k \in Nat /\ ~(k < k)
      BY <1>2, NumberIs
    <3>3. k \in Numbers
      BY <1>2
    <3> HIDE DEF k
    <3> QED BY ONLY <3>1, <3>2, <3>3
  <2>4. LeftCurrent'
    BY <1>2, <1>3, <1>5 DEF LeftCurrent, Working, Unworked
  <2>5. \A c \in Comments : resolved[c] \in Numbers \cup {0}
    BY DEF IInv, TypeOK
  <2>6. Sound'
    BY <1>1, <1>4, <2>1, <2>3 DEF Alone, Sound, IInv, TypeOK, Manifests
  <2>7. \A c \in Comments : Closed(c)'
    BY <1>1, <1>4, <2>1, <2>3, <2>5 DEF Alone, Closed, commentVars
  <2>8. \A c \in Comments : resolved[c] # k
    BY <1>2, <2>1, <2>3 DEF Alone, Closed
  <2>9. \A n \in Numbers : versions'[n] # None => n <= k
    <3>1. k \in Nat /\ \A n \in Numbers : n \in Nat
      BY <1>2, Members
    <3>2. \A n \in Numbers : versions'[n] # None => n = k \/ versions[n] # None
      BY <1>4
    <3>3. \A n \in Numbers : versions[n] # None => n < k
      BY <2>3
    <3> HIDE DEF k
    <3> QED BY ONLY <3>1, <3>2, <3>3
  <2> QED BY <1>1, <1>3, <1>4, <1>5, <2>2, <2>4, <2>6, <2>7, <2>8, <2>9
          DEF commentVars, Holds, Answering, Publishing, Filing, Checking
<1>11. manifest' # None => page' # None
  BY <1>1, <1>2
<1> QED BY <1>1, <1>2, <1>3, <1>6, <1>7, <1>8, <1>9, <1>10, <1>11, Keeps DEF Unworked

LEMMA PublishManifestIInv ==
  ASSUME IInv, NEW a \in Actors, PublishManifest(a)
  PROVE  IInv'
<1> DEFINE next == [run[a] EXCEPT !.at = "receipt"]
           k == run[a].number
<1>1. /\ run[a].at = "manifest"
      /\ manifest' = [current |-> k, of |-> run[a].sel, sound |-> TRUE]
      /\ UNCHANGED <<corpus, evidence, page, claims, versions, letter, receipts,
                     commentVars, started, kills, cut, silent>>
  BY DEF PublishManifest
<1>2. /\ run[a] \in RunStates /\ run[a].kind \in {"write", "revise"}
      /\ k \in Numbers /\ k # 0 /\ run[a].todo \subseteq Comments
      /\ page \in Pages /\ page # None /\ page # Torn
  BY <1>1, FilesAssumption DEF IInv, TypeOK, PageThere, Equipped, Filing, RunStates
<1>3. manifest' \in Manifests /\ manifest'.current = k /\ manifest' # None
  <2>1. run[a].sel \in Selections \cup {None}
    BY <1>2 DEF RunStates
  <2> HIDE DEF k
  <2>2. manifest' \in Manifests /\ manifest'.current = k
    BY <1>1, <1>2, <2>1 DEF Manifests
  <2> QED BY <2>2, FilesAssumption
<1>4. PICK goes \in RunStates :
        /\ Move(a, goes)
        /\ \/ goes.at = "receipt" /\ goes.kind = "revise" /\ goes.todo = run[a].todo
              /\ goes.number = k /\ UNCHANGED last
           \/ goes = Idle /\ last' = "done"
  <2>1. CASE run[a].kind = "write"
    BY <1>2, <2>1, Members DEF PublishManifest, End
  <2>2. CASE run[a].kind # "write"
    <3>1. /\ next \in RunStates /\ next.at = "receipt" /\ next.kind = "revise"
          /\ next.todo = run[a].todo /\ next.number = k
      BY <1>2, <2>2 DEF RunStates
    <3>2. Move(a, next) /\ UNCHANGED last
      BY <2>2 DEF PublishManifest
    <3> HIDE DEF next
    <3> QED BY <3>1, <3>2
  <2> QED BY <2>1, <2>2
<1>5. /\ run' \in [Actors -> RunStates] /\ run'[a] = goes /\ overlap' \in BOOLEAN
      /\ \A b \in Actors \ {a} : run'[b] = run[b]
      /\ ~overlap' => ~overlap
  BY <1>4, MoveIs
<1>6. TypeOK'
  BY <1>1, <1>3, <1>4, <1>5 DEF IInv, TypeOK, commentVars
<1>7. Room'
  BY <1>1, <1>4, <1>5, <1>6, Members, RoomKeeps
<1>8. Checked'
  BY <1>1, <1>5, CheckedKeeps
<1>9. Equipped(a)'
  BY <1>1, <1>2, <1>4, <1>5, Members DEF Equipped, Answering, Publishing, Filing, Checking
<1>10. ASSUME ~overlap'
       PROVE  /\ LeftCurrent' /\ Sound' /\ \A c \in Comments : Closed(c)'
              /\ Holds(a)'
  <2>1. Alone
    BY <1>5, <1>10 DEF IInv
  <2>2. Holds(a)
    BY <2>1 DEF Alone
  <2>3. /\ versions[k] = page /\ page.sound /\ claims = ReportOf(page)
        /\ \A n \in Numbers : versions[n] # None => n <= k
    BY <1>1, <2>2 DEF Holds, Filing
  <2>4. LeftCurrent'
    BY <1>1, <1>3, <2>3 DEF LeftCurrent
  <2>5. Sound'
    BY <1>1, <1>2, <1>3, <2>3 DEF Sound
  <2>6. ASSUME NEW c \in Comments PROVE Closed(c)'
    <3>1. resolved[c] \in Numbers \cup {0}
      BY DEF IInv, TypeOK
    <3> QED BY <1>1, <1>2, <1>3, <2>1, <2>3, <3>1, Members DEF Alone, Closed, commentVars
  <2>7. Holds(a)'
    BY <1>1, <1>3, <1>4, <1>5, <2>2, <2>3, Members
       DEF commentVars, Holds, Answering, Publishing, Filing, Checking
  <2> QED BY <2>4, <2>5, <2>6, <2>7
<1>11. page' # None /\ Working(a)
  BY <1>1, <1>2 DEF Working, Unworked
<1> QED BY <1>4, <1>6, <1>7, <1>8, <1>9, <1>10, <1>11, Keeps

LEMMA WriteReceiptIInv ==
  ASSUME IInv, NEW a \in Actors, WriteReceipt(a)
  PROVE  IInv'
<1> DEFINE next == [run[a] EXCEPT !.at = "resolve"]
           k == run[a].number
<1>1. /\ run[a].at = "receipt" /\ Move(a, next)
      /\ receipts' = [receipts EXCEPT ![k] = run[a].todo]
      /\ UNCHANGED <<corpus, evidence, page, claims, versions, manifest, letter,
                     commentVars, started, kills, last, cut, silent>>
  BY DEF WriteReceipt
<1>2. /\ run[a] \in RunStates /\ run[a].kind = "revise"
      /\ k \in Numbers /\ k # 0 /\ run[a].todo \subseteq Comments /\ run[a].todo # None
      /\ page # None
  BY <1>1, FilesAssumption DEF IInv, TypeOK, PageThere, Equipped, Filing, RunStates
<1>3. /\ next \in RunStates /\ next.at = "resolve" /\ next.kind = "revise"
      /\ next.todo = run[a].todo /\ next.number = k
  BY <1>2 DEF RunStates
<1>4. /\ receipts' \in [Numbers -> (SUBSET Comments) \cup {None}]
      /\ receipts'[k] = run[a].todo
      /\ \A n \in Numbers \ {k} : receipts'[n] = receipts[n]
  BY <1>1, <1>2 DEF IInv, TypeOK
<1> HIDE DEF next
<1>5. /\ run' \in [Actors -> RunStates] /\ run'[a] = next /\ overlap' \in BOOLEAN
      /\ \A b \in Actors \ {a} : run'[b] = run[b]
      /\ ~overlap' => ~overlap
  BY <1>1, <1>3, MoveIs
<1>6. TypeOK'
  BY <1>1, <1>4, <1>5 DEF IInv, TypeOK, commentVars
<1>7. Room'
  BY <1>1, <1>3, <1>5, <1>6, RoomKeeps
<1>8. Checked'
  BY <1>1, <1>5, CheckedKeeps
<1>9. Equipped(a)'
  BY <1>1, <1>2, <1>3, <1>5 DEF Equipped, Answering, Publishing, Filing, Checking
<1>10. ASSUME ~overlap'
       PROVE  /\ LeftCurrent' /\ Sound' /\ \A c \in Comments : Closed(c)'
              /\ Holds(a)'
  <2>1. Alone
    BY <1>5, <1>10 DEF IInv
  <2>2. Holds(a)
    BY <2>1 DEF Alone
  <2>3. LeftCurrent'
    BY <1>3, <1>5 DEF LeftCurrent, Working, Unworked
  <2>4. Sound'
    BY <1>1, <2>1 DEF Alone, Sound
  <2>5. ASSUME NEW c \in Comments PROVE Closed(c)'
    <3>1. resolved[c] \in Numbers \cup {0} /\ resolved[c] # k
      BY <1>1, <2>2 DEF IInv, TypeOK, Holds
    <3> QED BY <1>1, <1>4, <2>1, <3>1 DEF Alone, Closed, commentVars
  <2>6. Holds(a)'
    BY <1>1, <1>2, <1>3, <1>4, <1>5, <2>2
       DEF commentVars, Holds, Answering, Publishing, Filing, Checking
  <2> QED BY <2>3, <2>4, <2>5, <2>6
<1>11. page' # None
  BY <1>1, <1>2
<1> QED BY <1>1, <1>3, <1>6, <1>7, <1>8, <1>9, <1>10, <1>11, Keeps DEF Unworked

LEMMA ResolveCommentIInv ==
  ASSUME IInv, NEW a \in Actors, ResolveComment(a)
  PROVE  IInv'
<1> DEFINE k == run[a].number
<1>1. run[a].at = "resolve" /\ UNCHANGED <<files, asked, started, kills, last, cut, silent>>
  BY DEF ResolveComment
<1>2. /\ run[a] \in RunStates /\ run[a].kind = "revise"
      /\ k \in Numbers /\ k # 0 /\ run[a].todo \subseteq Comments
      /\ page \in Pages /\ page # None /\ page # Torn
  BY <1>1, FilesAssumption DEF IInv, TypeOK, PageThere, Equipped, Filing, RunStates
<1>3. PICK c \in run[a].todo :
        /\ resolved' = [resolved EXCEPT ![c] = k]
        /\ Move(a, [run[a] EXCEPT !.todo = @ \ {c}])
  BY DEF ResolveComment, ToResolve
<1> DEFINE next == [run[a] EXCEPT !.todo = @ \ {c}]
<1>4. /\ next \in RunStates /\ next.at = "resolve" /\ next.kind = "revise"
      /\ next.todo = run[a].todo \ {c} /\ next.number = k
  BY <1>1, <1>2 DEF RunStates
<1>5. Move(a, next)
  BY <1>3
<1>6. /\ resolved' \in [Comments -> Numbers \cup {0}] /\ resolved'[c] = k
      /\ \A d \in Comments \ {c} : resolved'[d] = resolved[d]
  BY <1>2, <1>3 DEF IInv, TypeOK
<1> HIDE DEF next
<1>7. /\ run' \in [Actors -> RunStates] /\ run'[a] = next /\ overlap' \in BOOLEAN
      /\ \A b \in Actors \ {a} : run'[b] = run[b]
      /\ ~overlap' => ~overlap
  BY <1>4, <1>5, MoveIs
<1>8. TypeOK'
  BY <1>1, <1>6, <1>7 DEF IInv, TypeOK, files
<1>9. Room'
  BY <1>1, <1>4, <1>7, <1>8, RoomKeeps DEF files
<1>10. Checked'
  BY <1>1, <1>7, CheckedKeeps DEF files
<1>11. Equipped(a)'
  BY <1>1, <1>2, <1>4, <1>7 DEF files, Equipped, Answering, Publishing, Filing, Checking
<1>12. ASSUME ~overlap'
       PROVE  /\ LeftCurrent' /\ Sound' /\ \A d \in Comments : Closed(d)'
              /\ Holds(a)'
  <2>1. Alone
    BY <1>7, <1>12 DEF IInv
  <2>2. Holds(a)
    BY <2>1 DEF Alone
  <2>3. LeftCurrent'
    BY <1>4, <1>7 DEF LeftCurrent, Working, Unworked
  <2>4. Sound'
    BY <1>1, <2>1 DEF Alone, Sound, files
  <2>5. ASSUME NEW d \in Comments PROVE Closed(d)'
    <3>1. CASE d = c
      <4>1. /\ versions[k] = page /\ c \in page.given
            /\ receipts[k] # None /\ c \in receipts[k]
            /\ manifest # None => manifest.current = k
        BY <1>1, <1>3, <2>2 DEF Holds, Filing
      <4>2. k >= k
        <5>1. k \in Nat
          BY <1>2, NumberIs
        <5> QED BY <5>1
      <4> QED BY <1>1, <1>2, <1>6, <3>1, <4>1, <4>2 DEF Closed, files
    <3>2. CASE d # c
      BY <1>1, <1>6, <2>1, <3>2 DEF Alone, Closed, files
    <3> QED BY <3>1, <3>2
  <2>6. Holds(a)'
    <3>1. \A d \in next.todo : resolved'[d] = 0
      BY <1>1, <1>2, <1>4, <1>6, <2>2 DEF Holds, Filing
    <3> QED BY <1>1, <1>4, <1>7, <2>2, <3>1
            DEF files, Holds, Answering, Publishing, Filing, Checking
  <2> QED BY <2>3, <2>4, <2>5, <2>6
<1>13. page' # None
  BY <1>1, <1>2 DEF files
<1> QED BY <1>4, <1>5, <1>8, <1>9, <1>10, <1>11, <1>12, <1>13, Keeps DEF Unworked

LEMMA EndReviseIInv ==
  ASSUME IInv, NEW a \in Actors, EndRevise(a)
  PROVE  IInv'
<1>1. /\ run[a].at = "resolve" /\ letter' = None /\ End(a, "done")
      /\ UNCHANGED <<corpus, evidence, page, claims, versions, manifest, receipts,
                     commentVars, started, kills, cut, silent>>
  BY DEF EndRevise
<1>2. run[a].kind = "revise" /\ page # None
  BY <1>1 DEF IInv, TypeOK, PageThere, Equipped, Filing
<1>3. Move(a, Idle) /\ last' = "done"
  BY <1>1, <1>2 DEF End
<1>4. /\ run' \in [Actors -> RunStates] /\ run'[a] = Idle /\ overlap' \in BOOLEAN
      /\ \A b \in Actors \ {a} : run'[b] = run[b]
      /\ ~overlap' => ~overlap
  BY <1>3, Members, MoveIs
<1>5. TypeOK'
  BY <1>1, <1>3, <1>4 DEF IInv, TypeOK, commentVars
<1>6. Room'
  BY <1>1, <1>4, <1>5, Members, RoomKeeps
<1>7. Checked'
  BY <1>1, <1>4, CheckedKeeps
<1>8. Equipped(a)'
  BY <1>4, Members DEF Equipped, Answering, Publishing, Filing, Checking
<1>9. ASSUME ~overlap' PROVE LeftCurrent' /\ Sound' /\ \A c \in Comments : Closed(c)'
  <2>1. Alone
    BY <1>4, <1>9 DEF IInv
  <2>2. /\ versions[run[a].number] = page /\ claims = ReportOf(page)
        /\ manifest.current = run[a].number
    BY <1>1, <2>1 DEF Alone, Holds, Filing
  <2>3. LeftCurrent'
    BY <1>1, <2>2 DEF LeftCurrent
  <2> QED BY <1>1, <2>1, <2>3, FilesKeep DEF Alone, commentVars
<1> QED BY <1>1, <1>2, <1>3, <1>5, <1>6, <1>7, <1>8, <1>9, Members, Keeps DEF Working, Unworked

-----------------------------------------------------------------------------
(* `guides verify`.                                                          *)

LEMMA StartVerifyIInv ==
  ASSUME IInv, NEW a \in Actors, StartVerify(a)
  PROVE  IInv'
<1> DEFINE next == [Idle EXCEPT !.at = "check", !.kind = "verify", !.held = manifest]
<1>1. /\ run[a] = Idle /\ started < MaxRuns /\ started' = started + 1 /\ manifest # None
      /\ Move(a, next)
      /\ UNCHANGED <<files, commentVars, kills, last, cut, silent>>
  BY DEF StartVerify
<1>2. manifest \in Manifests /\ page # None
  BY <1>1 DEF IInv, TypeOK, PageThere
<1>3. /\ next \in RunStates /\ next.at = "check" /\ next.kind = "verify" /\ next.number = 0
      /\ next.held = manifest
  BY <1>2, Members DEF RunStates
<1> HIDE DEF next
<1>4. /\ run' \in [Actors -> RunStates] /\ run'[a] = next /\ overlap' \in BOOLEAN
      /\ \A b \in Actors \ {a} : run'[b] = run[b]
      /\ ~overlap' => ~overlap
  BY <1>1, <1>3, MoveIs
<1>5. TypeOK'
  BY <1>1, <1>4, GuideAssumption DEF IInv, TypeOK, files, commentVars
<1>6. Room'
  BY <1>1, <1>3, <1>4, <1>5, RoomStarts DEF files
<1>7. Checked'
  BY <1>1, <1>4, Members, CheckedKeeps DEF files
<1>8. Equipped(a)'
  BY <1>1, <1>2, <1>3, <1>4 DEF files, Equipped, Answering, Publishing, Filing, Checking
<1>9. ASSUME ~overlap' PROVE LeftCurrent' /\ Sound' /\ \A c \in Comments : Closed(c)'
  <2>1. Alone
    BY <1>4, <1>9 DEF IInv
  <2>2. LeftCurrent'
    BY <1>1, <1>4, <2>1, Members DEF Alone, LeftCurrent, Working, Unworked, files
  <2> QED BY <1>1, <2>1, <2>2, FilesKeep DEF Alone, files, commentVars
<1>10. Holds(a)'
  BY <1>1, <1>3, <1>4 DEF files, Holds, Answering, Publishing, Filing, Checking
<1>11. (manifest' # None => page' # None) /\ (page # None => page' # None)
  BY <1>1, <1>2 DEF files
<1> QED BY <1>1, <1>3, <1>5, <1>6, <1>7, <1>8, <1>9, <1>10, <1>11, Keeps DEF Unworked

LEMMA WriteClaimsIInv ==
  ASSUME IInv, NEW a \in Actors, WriteClaims(a)
  PROVE  IInv'
<1> DEFINE next == [run[a] EXCEPT !.at = "checked", !.held.sound = page.sound]
<1>1. /\ run[a].at = "check" /\ claims' = ReportOf(page) /\ Move(a, next)
      /\ UNCHANGED <<corpus, evidence, page, versions, manifest, letter, receipts,
                     commentVars, started, kills, last, cut, silent>>
  BY DEF WriteClaims
<1>2. /\ run[a] \in RunStates /\ run[a].kind = "verify" /\ run[a].held \in Manifests
      /\ page \in Pages /\ page # None
  BY <1>1 DEF IInv, TypeOK, PageThere, Equipped, Checking, RunStates
<1> DEFINE held == [run[a].held EXCEPT !.sound = page.sound]
<1>3. /\ held \in Manifests /\ held # None
      /\ held.current = run[a].held.current /\ held.of = run[a].held.of
  <2>1. page.sound \in BOOLEAN
    BY <1>2 DEF Pages
  <2>2. held \in Manifests
    BY <1>2, <2>1 DEF Manifests
  <2>3. held.current = run[a].held.current /\ held.of = run[a].held.of
    BY <1>2 DEF Manifests
  <2> QED BY <2>2, <2>3, FilesAssumption
<1>4. next = [run[a] EXCEPT !.at = "checked", !.held = held]
  BY <1>2 DEF RunStates
<1> HIDE DEF next, held
<1>5. /\ next \in RunStates /\ next.at = "checked" /\ next.kind = "verify"
      /\ next.number = run[a].number /\ next.held = held
  BY <1>2, <1>3, <1>4 DEF RunStates
<1>6. /\ run' \in [Actors -> RunStates] /\ run'[a] = next /\ overlap' \in BOOLEAN
      /\ \A b \in Actors \ {a} : run'[b] = run[b]
      /\ ~overlap' => ~overlap
  BY <1>1, <1>5, MoveIs
<1>7. TypeOK'
  BY ReportIs, <1>1, <1>2, <1>6 DEF IInv, TypeOK, commentVars
<1>8. Room'
  BY <1>1, <1>5, <1>6, <1>7, RoomKeeps
<1>9. Checked'
  BY <1>1, <1>6, CheckedKeeps
<1>10. Equipped(a)'
  BY <1>1, <1>2, <1>3, <1>5, <1>6 DEF Equipped, Answering, Publishing, Filing, Checking
<1>11. ASSUME ~overlap'
       PROVE  /\ LeftCurrent' /\ Sound' /\ \A c \in Comments : Closed(c)'
              /\ Holds(a)'
  <2>1. Alone
    BY <1>6, <1>11 DEF IInv
  <2>2. LeftCurrent'
    BY <1>1, <1>2, <1>5, <1>6, <2>1 DEF Alone, LeftCurrent, Working, Unworked
  <2>3. Holds(a)
    BY <2>1 DEF Alone
  <2>4. Holds(a)'
    BY <1>1, <1>3, <1>5, <1>6, <2>3
       DEF commentVars, Holds, Answering, Publishing, Filing, Checking
  <2> QED BY <1>1, <2>1, <2>2, <2>4, FilesKeep DEF Alone, commentVars
<1>12. (manifest' # None => page' # None) /\ (page # None => page' # None)
  BY <1>1, <1>2
<1> QED BY <1>1, <1>5, <1>7, <1>8, <1>9, <1>10, <1>11, <1>12, Keeps DEF Unworked

(* A check that ends, or is killed, leaves the manifest as good as it found it. *)
LEMMA CheckEnds ==
  ASSUME IInv, NEW a \in Actors, run[a].at \in Checking, Move(a, Idle),
         manifest' \in {manifest, None, run[a].held}, claims' \in {claims, None},
         kills' \in 0..MaxKills, cut' = cut,
         UNCHANGED <<corpus, evidence, page, versions, letter, receipts,
                     commentVars, started, last, silent>>
  PROVE  IInv'
<1>1. /\ run[a] \in RunStates /\ run[a].kind = "verify" /\ run[a].held \in Manifests
      /\ page # None /\ run[a].held # None
  BY DEF IInv, TypeOK, PageThere, Equipped, RunStates
<1>2. /\ run' \in [Actors -> RunStates] /\ run'[a] = Idle /\ overlap' \in BOOLEAN
      /\ \A b \in Actors \ {a} : run'[b] = run[b]
      /\ ~overlap' => ~overlap
  BY Members, MoveIs
<1>3. TypeOK'
  BY <1>1, <1>2 DEF IInv, TypeOK, commentVars
<1>4. Room'
  BY <1>2, <1>3, Members, RoomKeeps
<1>5. Checked'
  BY <1>2, CheckedKeeps DEF Checking
<1>6. Equipped(a)'
  BY <1>2, Members DEF Equipped, Answering, Publishing, Filing, Checking
<1>7. ASSUME ~overlap' PROVE LeftCurrent' /\ Sound' /\ \A c \in Comments : Closed(c)'
  <2>1. Alone
    BY <1>2, <1>7 DEF IInv
  <2>2. manifest # None
    BY <2>1 DEF Alone, Holds
  <2>3. manifest' # None => manifest'.current = manifest.current /\ manifest'.of = manifest.of
    BY <2>1 DEF Alone, Holds
  <2>4. LeftCurrent'
    BY <1>1, <1>2, <2>1, <2>2, <2>3 DEF Alone, LeftCurrent, Working
  <2>5. Sound'
    BY <2>1, <2>2, <2>3 DEF Alone, Sound
  <2>6. \A c \in Comments : Closed(c)'
    BY <2>1, <2>2, <2>3 DEF Alone, Closed, commentVars
  <2> QED BY <2>4, <2>5, <2>6
<1> QED BY <1>1, <1>3, <1>4, <1>5, <1>6, <1>7, Members, Keeps DEF Working, Unworked, Checking

LEMMA WriteRateIInv ==
  ASSUME IInv, NEW a \in Actors, WriteRate(a)
  PROVE  IInv'
<1>1. /\ run[a].at = "checked" /\ manifest' = run[a].held /\ End(a, "done")
      /\ UNCHANGED <<corpus, evidence, page, claims, versions, letter, receipts,
                     commentVars, started, kills, cut, silent>>
  BY DEF WriteRate
<1>2. run[a].kind = "verify"
  BY <1>1 DEF IInv, PageThere, Equipped, Checking
<1>3. Move(a, Idle) /\ UNCHANGED last
  BY <1>1, <1>2 DEF End
<1>4. kills \in 0..MaxKills
  BY DEF IInv, TypeOK
<1> QED BY <1>1, <1>3, <1>4, CheckEnds DEF Checking

-----------------------------------------------------------------------------
(* Readers, failures and kills.                                              *)

LEMMA KindIs ==
  ASSUME IInv, NEW a \in Actors
  PROVE  \/ run[a] = Idle
         \/ run[a].at # "idle" /\ run[a].kind \in {"write", "revise"} /\ run[a].at \notin Checking
         \/ run[a].at \in Checking /\ run[a].kind = "verify"
BY DEF IInv, TypeOK, RunStates, PageThere, Equipped, Answering, Publishing, Filing, Checking

LEMMA AddCommentIInv ==
  ASSUME IInv, NEW c \in Comments, AddComment(c)
  PROVE  IInv'
<1>1. asked' = asked \cup {c} /\ UNCHANGED <<files, resolved, run, started, kills, ghosts>>
  BY DEF AddComment
<1>2. TypeOK'
  BY <1>1 DEF IInv, TypeOK, files, ghosts
<1>3. PageThere' /\ Room' /\ Checked'
  BY <1>1 DEF IInv, PageThere, Equipped, Room, Unnumbered, Checked, files, ghosts
<1>4. ASSUME ~overlap' PROVE Alone'
  <2>1. Alone
    BY <1>1, <1>4 DEF IInv, ghosts
  <2>2. Lone' /\ LeftCurrent' /\ Sound' /\ \A d \in Comments : Closed(d)'
    BY <1>1, <2>1 DEF Alone, Lone, LeftCurrent, Working, Sound, Closed, files, ghosts
  <2>3. \A a \in Actors : Holds(a)'
    BY <1>1, <2>1 DEF Alone, Holds, files, ghosts
  <2> QED BY <2>2, <2>3 DEF Alone
<1> QED BY <1>2, <1>3, <1>4 DEF IInv

LEMMA SessionFailsIInv ==
  ASSUME IInv, NEW a \in Actors, SessionFails(a)
  PROVE  IInv'
<1>1. /\ run[a].at \in {"extract", "compose", "revise", "fix", "answered"}
      /\ cut' = (cut \/ Unchecked(a)) /\ End(a, "error")
      /\ UNCHANGED <<files, commentVars, started, kills, silent>>
  BY DEF SessionFails
<1>2. run[a].kind \in {"write", "revise"}
  BY <1>1, KindIs, Members DEF Checking
<1>3. /\ run' \in [Actors -> RunStates] /\ overlap' \in BOOLEAN /\ last' = "error"
      /\ \A b \in Actors \ {a} : run'[b] = run[b]
  BY <1>1, <1>2, Members, MoveIs DEF End
<1>4. TypeOK'
  BY <1>1, <1>3 DEF IInv, TypeOK, files, commentVars
<1>5. Checked'
  BY <1>1, <1>3, CheckedKeeps DEF files, Unchecked, IInv, TypeOK
<1> QED BY <1>1, <1>2, <1>4, <1>5, ErrorKeeps DEF files, commentVars, Working, Unworked

(* What a kill leaves of the files, by the file that was being written.       *)
LEMMA KillLeaves ==
  ASSUME IInv, NEW a \in Actors, Kill(a)
  PROVE  /\ corpus' \in Selections \cup {None}
         /\ evidence' \in [Passes -> Evidence \cup {None}]
         /\ \A n \in Passes : evidence'[n] \in {evidence[n], None}
         /\ run[a].at = "extract" \/ UNCHANGED evidence
         /\ page' \in Pages \cup {None} /\ (page # None => page' # None)
         /\ run[a].at = "publish" \/ UNCHANGED page
         /\ claims' \in {claims, None}
         /\ run[a].at \in {"verify", "check"} \/ UNCHANGED claims
         /\ \/ UNCHANGED versions
            \/ versions' = [versions EXCEPT ![run[a].number] = Torn] /\ run[a].at = "copy"
         /\ manifest' \in {manifest, None}
         /\ run[a].at \in {"manifest", "receipt", "checked"} \/ UNCHANGED manifest
         /\ \/ UNCHANGED receipts
            \/ receipts' = [receipts EXCEPT ![run[a].number] = None] /\ run[a].at = "receipt"
<1> DEFINE Cut(at, file, short) == {file} \cup (IF run[a].at \in at THEN short ELSE {})
<1>1. /\ corpus' \in Cut({"export"}, corpus, {None})
      /\ \E N \in SUBSET (run[a].todo \cup run[a].fresh) :
            evidence' \in Cut({"extract"}, evidence,
                             {[n \in Passes |-> IF n \in N THEN None ELSE evidence[n]]})
      /\ page' \in Cut({"publish"}, page,
                       {[page EXCEPT !.sound = sound, !.normal = FALSE] : sound \in BOOLEAN})
      /\ claims' \in Cut({"verify", "check"}, claims, {None})
      /\ versions' \in Cut({"copy"}, versions, {[versions EXCEPT ![run[a].number] = Torn]})
      /\ manifest' \in Cut({"manifest", "receipt", "checked"}, manifest, {None})
      /\ receipts' \in Cut({"receipt"}, receipts,
                           {[receipts EXCEPT ![run[a].number] = None]})
  BY DEF Kill
<1>2. corpus' \in Selections \cup {None}
  BY <1>1 DEF IInv, TypeOK
<1>3. /\ evidence' \in [Passes -> Evidence \cup {None}]
      /\ \A n \in Passes : evidence'[n] \in {evidence[n], None}
      /\ run[a].at = "extract" \/ UNCHANGED evidence
  BY <1>1 DEF IInv, TypeOK
<1>4. /\ page' \in Pages \cup {None} /\ (page # None => page' # None)
      /\ run[a].at = "publish" \/ UNCHANGED page
  <2>1. CASE run[a].at = "publish" /\ page' # page
    <3>1. page \in Pages
      BY <2>1 DEF IInv, TypeOK, PageThere, Equipped, Publishing
    <3>2. PICK sound \in BOOLEAN : page' = [page EXCEPT !.sound = sound, !.normal = FALSE]
      BY <1>1, <2>1
    <3>3. page' \in Pages
      BY <3>1, <3>2 DEF Pages
    <3> QED BY <2>1, <3>3, FilesAssumption
  <2>2. CASE run[a].at # "publish" \/ page' = page
    BY <1>1, <2>2 DEF IInv, TypeOK
  <2> QED BY <2>1, <2>2
<1>5. /\ claims' \in {claims, None}
      /\ run[a].at \in {"verify", "check"} \/ UNCHANGED claims
      /\ manifest' \in {manifest, None}
      /\ run[a].at \in {"manifest", "receipt", "checked"} \/ UNCHANGED manifest
  BY <1>1
<1>6. /\ \/ UNCHANGED versions
         \/ versions' = [versions EXCEPT ![run[a].number] = Torn] /\ run[a].at = "copy"
      /\ \/ UNCHANGED receipts
         \/ receipts' = [receipts EXCEPT ![run[a].number] = None] /\ run[a].at = "receipt"
  BY <1>1
<1> QED BY <1>2, <1>3, <1>4, <1>5, <1>6

LEMMA KillIInv ==
  ASSUME IInv, NEW a \in Actors, Kill(a)
  PROVE  IInv'
<1>1. /\ run[a] # Idle /\ kills < MaxKills /\ kills' = kills + 1
      /\ cut' = (cut \/ Unchecked(a)) /\ End(a, "error")
      /\ UNCHANGED <<letter, silent, commentVars, started>>
  BY DEF Kill
<1>2. kills' \in 0..MaxKills /\ cut' \in BOOLEAN
  BY <1>1, GuideAssumption DEF IInv, TypeOK
<1>3. CASE run[a].kind \in {"write", "revise"} /\ run[a].at # "idle"
  <2>1. /\ run' \in [Actors -> RunStates] /\ overlap' \in BOOLEAN /\ last' = "error"
        /\ \A b \in Actors \ {a} : run'[b] = run[b]
    BY <1>1, <1>3, Members, MoveIs DEF End
  <2>2. TypeOK'
    <3>1. /\ versions' \in [Numbers -> Pages \cup {None, Torn}]
          /\ receipts' \in [Numbers -> (SUBSET Comments) \cup {None}]
          /\ manifest' \in Manifests \cup {None} /\ claims' \in Reports \cup {None}
      BY KillLeaves DEF IInv, TypeOK
    <3> QED BY <1>1, <1>2, <2>1, <3>1, KillLeaves DEF IInv, TypeOK, commentVars
  <2>3. Checked'
    <3> SUFFICES ASSUME NEW n \in Passes, evidence'[n] # None, ~evidence'[n].verified, ~cut'
                 PROVE  \E b \in Actors : run'[b].at = "extract" /\ n \in run'[b].fresh
      BY DEF Checked
    <3>1. evidence'[n] = evidence[n] /\ ~cut /\ ~Unchecked(a)
      BY <1>1, KillLeaves DEF IInv, TypeOK
    <3>2. PICK b \in Actors : run[b].at = "extract" /\ n \in run[b].fresh
      BY <3>1 DEF IInv, Checked
    <3>3. b # a
      BY <3>1, <3>2 DEF Unchecked
    <3> QED BY <2>1, <3>2, <3>3
  <2>4. \/ Working(a)
        \/ UNCHANGED <<page, claims, versions, manifest, receipts, evidence>>
    BY <1>3, KillLeaves DEF Working, Unworked
  <2> QED BY <1>1, <1>3, <2>2, <2>3, <2>4, KillLeaves, ErrorKeeps DEF commentVars
<1>4. CASE run[a].at \in Checking /\ run[a].kind = "verify"
  <2>1. Move(a, Idle) /\ UNCHANGED last
    BY <1>1, <1>4 DEF End
  <2>2. cut' = cut
    BY <1>1, <1>4 DEF Checking, Unchecked, IInv, TypeOK
  <2>3. corpus' = corpus
    BY <1>4 DEF Checking, Kill
  <2>4. UNCHANGED <<evidence, page, versions, receipts>>
    BY <1>4, KillLeaves DEF Checking
  <2> QED BY <1>1, <1>2, <1>4, <2>1, <2>2, <2>3, <2>4, KillLeaves, CheckEnds
<1> QED BY <1>1, <1>3, <1>4, KindIs

-----------------------------------------------------------------------------
LEMMA NextIInv == IInv /\ [Next]_vars => IInv'
<1> SUFFICES ASSUME IInv, [Next]_vars PROVE IInv'
  OBVIOUS
<1>1. ASSUME NEW a \in Actors, Writes(a) PROVE IInv'
  BY <1>1, StartWriteIInv, ExportIInv, ExtractIInv, VerifyEvidenceIInv, ExtractedIInv, ComposeIInv
     DEF Writes
<1>2. ASSUME NEW a \in Actors, Revises(a) PROVE IInv'
  BY <1>2, StartReviseIInv, TakeBatchIInv, ReviseIInv, ParseReceiptIInv, WriteReceiptIInv,
     ResolveCommentIInv, EndReviseIInv DEF Revises
<1>3. ASSUME NEW a \in Actors, Publishes(a) PROVE IInv'
  BY <1>3, VerifyIInv, FixIInv, NormaliseIInv, PublishCheckIInv, PublishCopyIInv, PublishManifestIInv
     DEF Publishes
<1>4. ASSUME NEW a \in Actors, Checks(a) PROVE IInv'
  BY <1>4, StartVerifyIInv, WriteClaimsIInv, WriteRateIInv DEF Checks
<1>5. ASSUME NEW a \in Actors, SessionFails(a) \/ Kill(a) PROVE IInv'
  BY <1>5, SessionFailsIInv, KillIInv
<1>6. ASSUME NEW c \in Comments, AddComment(c) PROVE IInv'
  BY <1>6, AddCommentIInv
<1>7. CASE UNCHANGED vars
  <2>1. /\ UNCHANGED <<files, commentVars, run, started, kills, ghosts>>
    BY <1>7 DEF vars
  <2>2. TypeOK' /\ PageThere' /\ Room' /\ Checked'
    BY <2>1 DEF IInv, TypeOK, PageThere, Equipped, Room, Unnumbered, Checked, files,
                commentVars, ghosts
  <2>3. Alone => Alone'
    BY <2>1 DEF Alone, Lone, LeftCurrent, Working, Sound, Closed, Holds, files, commentVars,
                ghosts
  <2> QED BY <2>1, <2>2, <2>3 DEF IInv, ghosts
<1> QED BY <1>1, <1>2, <1>3, <1>4, <1>5, <1>6, <1>7 DEF Next

LEMMA Invariance == Spec => []IInv
BY InitIInv, NextIInv, PTL DEF Spec

-----------------------------------------------------------------------------
(* Where the evidence comes from.                                            *)

(* Evidence is of the videos it lists, or of those of the run that has yet   *)
(* to check it, unless the session that was to write it wrote nothing.       *)
Origins ==
  ~overlap =>
    /\ \A n \in Passes :
         evidence[n] # None => evidence[n].from = evidence[n].of \/ n \in silent
    /\ \A a \in Actors : run[a].at = "extract" =>
         \A n \in run[a].fresh :
           evidence[n] # None => evidence[n].from = run[a].sel \/ n \in silent

(* No other step writes evidence, or leaves a run with any to check. *)
LEMMA Elsewhere ==
  ASSUME IInv, NEW a \in Actors,
         \/ (\E s \in Selections : StartWrite(a, s)) \/ Export(a) \/ Extracted(a) \/ Compose(a)
         \/ Revises(a) \/ Publishes(a) \/ Checks(a) \/ SessionFails(a)
  PROVE  UNCHANGED <<evidence, silent>> /\ (run'[a].at # "extract" \/ run'[a].fresh = {})
<1>1. /\ run \in [Actors -> RunStates] /\ run[a] \in RunStates
      /\ run[a].at = "export" => run[a].fresh = {}
  BY DEF IInv, TypeOK, PageThere, Equipped
<1>2. ASSUME NEW next, Move(a, next) PROVE run'[a] = next
  BY <1>1, <1>2 DEF Move
<1>3. ASSUME NEW status, End(a, status) PROVE run'[a].at # "extract"
  BY <1>2, <1>3, Members DEF End
<1>4. ASSUME NEW s \in Selections, StartWrite(a, s)
      PROVE  UNCHANGED <<evidence, silent>> /\ run'[a].fresh = {}
  BY <1>2, <1>4 DEF StartWrite, Idle, files
<1>5. CASE Export(a)
  BY <1>1, <1>2, <1>5 DEF Export, RunStates
<1>6. CASE Extracted(a) \/ Compose(a)
  BY <1>1, <1>2, <1>3, <1>6 DEF Extracted, Compose, files, RunStates
<1>7. CASE StartRevise(a) \/ TakeBatch(a) \/ Revise(a) \/ ParseReceipt(a)
  BY <1>1, <1>2, <1>3, <1>7 DEF StartRevise, TakeBatch, Revise, ParseReceipt, files, RunStates, Idle
<1>8. CASE WriteReceipt(a) \/ ResolveComment(a) \/ EndRevise(a)
  BY <1>1, <1>2, <1>3, <1>8 DEF WriteReceipt, ResolveComment, EndRevise, files, RunStates
<1>9. CASE Verify(a) \/ Fix(a)
  <2>1. Verified(a).at = "publish"
    BY <1>1 DEF Verified, RunStates
  <2>2. ASSUME Move(a, Verified(a)) PROVE run'[a].at # "extract"
    BY <1>2, <2>1, <2>2
  <2>3. CASE Verify(a)
    BY <1>1, <1>2, <1>3, <2>2, <2>3 DEF Verify, RunStates
  <2>4. CASE Fix(a)
    BY <1>1, <1>2, <1>3, <2>4 DEF Fix, RunStates
  <2> QED BY <1>9, <2>3, <2>4
<1>10. CASE Normalise(a) \/ PublishCheck(a) \/ PublishCopy(a) \/ PublishManifest(a)
  BY <1>1, <1>2, <1>3, <1>10
     DEF Normalise, PublishCheck, PublishCopy, PublishManifest, files, RunStates
<1>11. CASE Checks(a)
  BY <1>1, <1>2, <1>3, <1>11 DEF Checks, StartVerify, WriteClaims, WriteRate, files, RunStates, Idle
<1>12. CASE SessionFails(a)
  BY <1>3, <1>12 DEF SessionFails, files
<1> QED BY <1>4, <1>5, <1>6, <1>7, <1>8, <1>9, <1>10, <1>11, <1>12 DEF Revises, Publishes

LEMMA OriginsKeep ==
  ASSUME IInv, Origins, [Next]_vars
  PROVE  Origins'
<1> SUFFICES ASSUME ~overlap' PROVE Origins'
  BY DEF Origins
<1>1. ASSUME NEW a \in Actors, NEW next \in RunStates, Move(a, next)
      PROVE  /\ run'[a] = next /\ \A b \in Actors \ {a} : run'[b] = run[b]
             /\ ~overlap
             /\ Working(a) => \A b \in Actors \ {a} : run[b].at # "extract"
  BY <1>1, MoveIs DEF Working, Unworked
<1>2. ASSUME NEW a \in Actors, \A b \in Actors \ {a} : run'[b] = run[b], ~overlap,
             \A n \in Passes : evidence'[n] \in {evidence[n], None}, UNCHANGED silent,
             run'[a].at # "extract" \/ run'[a].fresh = {}
      PROVE  Origins'
  <2>1. \A b \in Actors : run[b].fresh \subseteq Passes
    BY DEF IInv, TypeOK, RunStates
  <2> QED BY <1>2, <2>1 DEF Origins
<1>3. ASSUME NEW a \in Actors, NEW n \in Passes, Extract(a, n) PROVE Origins'
  <2> DEFINE next == [run[a] EXCEPT !.todo = @ \ {n}, !.fresh = @ \cup {n}]
             e == [of |-> run[a].sel, from |-> run[a].sel, verified |-> FALSE]
  <2>1. run[a].at = "extract" /\ run[a] \in RunStates /\ Working(a)
    BY <1>3 DEF Extract, IInv, TypeOK, Working, Unworked
  <2>2. /\ next \in RunStates /\ next.fresh = run[a].fresh \cup {n}
        /\ next.at = "extract" /\ next.sel = run[a].sel /\ Move(a, next)
    BY <1>3, <2>1 DEF RunStates, Extract
  <2>3. /\ run'[a] = next /\ ~overlap
        /\ \A b \in Actors \ {a} : run'[b] = run[b] /\ run[b].at # "extract"
    BY <1>1, <2>1, <2>2
  <2>4. /\ evidence'[n] = None \/ n \in silent' \/ (evidence'[n].of = run[a].sel
                                                    /\ evidence'[n].from = run[a].sel)
        /\ \A m \in Passes \ {n} : evidence'[m] = evidence[m] /\ (m \in silent' <=> m \in silent)
    BY <1>3 DEF Extract, IInv, TypeOK
  <2>5. run[a].fresh \subseteq Passes
    BY <2>1 DEF RunStates
  <2> HIDE DEF next
  <2> QED BY <2>1, <2>2, <2>3, <2>4, <2>5 DEF Origins
<1>4. ASSUME NEW a \in Actors, NEW n \in Passes, VerifyEvidence(a, n) PROVE Origins'
  <2> DEFINE next == [run[a] EXCEPT !.fresh = @ \ {n}]
  <2>1. /\ run[a].at = "extract" /\ run[a] \in RunStates /\ Working(a)
        /\ n \in run[a].fresh /\ run[a].fresh \subseteq Passes /\ UNCHANGED silent
    BY <1>4 DEF VerifyEvidence, IInv, TypeOK, Working, Unworked, RunStates
  <2>2. CASE evidence[n] = None
    <3>1. Move(a, Idle) /\ UNCHANGED evidence
      BY <1>4, <2>2 DEF VerifyEvidence, End
    <3> QED BY <1>1, <1>2, <2>1, <3>1, Members
  <2>3. CASE evidence[n] # None
    <3>1. /\ next \in RunStates /\ next.fresh = run[a].fresh \ {n}
          /\ next.at = "extract" /\ next.sel = run[a].sel
      BY <2>1 DEF RunStates
    <3>2. /\ Move(a, next)
          /\ evidence' = [evidence EXCEPT ![n].of = run[a].sel, ![n].verified = TRUE]
      BY <1>4, <2>3 DEF VerifyEvidence
    <3>3. /\ run'[a] = next /\ ~overlap
          /\ \A b \in Actors \ {a} : run'[b] = run[b] /\ run[b].at # "extract"
      BY <1>1, <2>1, <3>1, <3>2
    <3>4. /\ evidence'[n].of = run[a].sel /\ evidence'[n].from = evidence[n].from
          /\ \A m \in Passes \ {n} : evidence'[m] = evidence[m]
      BY <2>3, <3>2 DEF IInv, TypeOK, Evidence
    <3> HIDE DEF next
    <3> QED BY <2>1, <2>3, <3>1, <3>3, <3>4 DEF Origins
  <2> QED BY <2>2, <2>3
<1>5. ASSUME NEW a \in Actors, Kill(a) PROVE Origins'
  <2>1. Move(a, Idle) /\ UNCHANGED silent
    BY <1>5 DEF Kill, End
  <2>2. \A n \in Passes : evidence'[n] \in {evidence[n], None}
    BY <1>5, KillLeaves
  <2> QED BY <1>1, <1>2, <2>1, <2>2, Members
<1>6. ASSUME NEW a \in Actors,
             \/ (\E s \in Selections : StartWrite(a, s)) \/ Export(a) \/ Extracted(a) \/ Compose(a)
             \/ Revises(a) \/ Publishes(a) \/ Checks(a) \/ SessionFails(a)
      PROVE  Origins'
  <2>1. UNCHANGED <<evidence, silent>> /\ (run'[a].at # "extract" \/ run'[a].fresh = {})
    BY <1>6, Elsewhere
  <2>2. ~overlap /\ \A b \in Actors \ {a} : run'[b] = run[b]
    <3>1. PICK next : Move(a, next)
      BY <1>6 DEF StartWrite, Export, Extracted, Compose, Revises, StartRevise, TakeBatch, Revise,
                  ParseReceipt, WriteReceipt, ResolveComment, EndRevise, Publishes, Verify, Fix,
                  Normalise, PublishCheck, PublishCopy, PublishManifest, Checks, StartVerify,
                  WriteClaims, WriteRate, SessionFails, End
    <3> QED BY <3>1 DEF Move, IInv, TypeOK
  <2> QED BY <1>2, <2>1, <2>2
<1>7. CASE UNCHANGED <<evidence, silent, run, overlap>>
  BY <1>7 DEF Origins
<1>8. CASE (\E c \in Comments : AddComment(c)) \/ UNCHANGED vars
  BY <1>7, <1>8 DEF AddComment, files, ghosts, vars
<1> QED BY <1>3, <1>4, <1>5, <1>6, <1>8 DEF Next, Writes

LEMMA OriginsHold == Spec => []Origins
<1>1. Init => Origins
  <2> SUFFICES ASSUME Init PROVE Origins
    OBVIOUS
  <2>1. evidence = [n \in Passes |-> None] /\ run = [a \in Actors |-> Idle]
    BY DEF Init
  <2> QED BY <2>1, Members DEF Origins
<1> QED BY <1>1, OriginsKeep, Invariance, PTL DEF Spec

-----------------------------------------------------------------------------
(* The theorems.                                                             *)

(* The files and the runs stay of their types, for any number of actors,     *)
(* comments, selections, fix passes, runs and kills; a run that has a number *)
(* for its version has one there is room for.                                *)
THEOREM TypeCorrect == Spec => []TypeOK
<1>1. IInv => TypeOK
  BY DEF IInv
<1> QED BY <1>1, Invariance, PTL

(* stage_publish never refuses a run that has the guide to itself, whatever  *)
(* was killed before it.                                                     *)
THEOREM NumbersAreFree == Spec => []NumberIsFree
<1>1. ASSUME IInv PROVE NumberIsFree
  <2> SUFFICES ASSUME ~overlap, NEW a \in Actors, run[a].at \in {"publish", "normalised"}
               PROVE  versions[run[a].number] = None
    BY DEF NumberIsFree
  <2>1. /\ run[a].number # 0 /\ run[a].number \in Numbers
    BY <1>1 DEF IInv, TypeOK, PageThere, Equipped, RunStates
  <2>2. \A n \in Numbers : versions[n] # None => n < run[a].number
    BY <1>1, <2>1 DEF IInv, Alone, Holds, Publishing
  <2>3. run[a].number \in Nat
    BY <2>1, Members
  <2> QED BY <2>1, <2>2, <2>3
<1> QED BY <1>1, Invariance, PTL

(* A comment is closed by a version of a reviser who was given it and a      *)
(* receipt that answers it.                                                  *)
THEOREM CommentsAreAnswered == Spec => []ClosedByItsReceipt
<1>1. IInv => ClosedByItsReceipt
  BY DEF IInv, Alone, Closed, ClosedByItsReceipt
<1> QED BY <1>1, Invariance, PTL

(* What the manifest names is whole, and its cites resolve unless it is      *)
(* version 1 as it was imported.                                             *)
THEOREM VersionsAreVerified == Spec => []PublishedIsVerified
<1>1. IInv => PublishedIsVerified
  BY DEF IInv, Alone, Sound, PublishedIsVerified
<1> QED BY <1>1, Invariance, PTL

(* After a run that ended well guide.html is the current version, and        *)
(* `guides verify` does not change that.                                     *)
THEOREM PagesAreCurrent == Spec => []PageIsCurrent
<1>1. IInv => PageIsCurrent
  BY DEF IInv, Alone, LeftCurrent, PageIsCurrent
<1> QED BY <1>1, Invariance, PTL

(* The composer has the evidence of every pass; it is of that pass's videos,  *)
(* unless a session wrote nothing over another guide's, and verified, unless *)
(* an extraction was broken off.                                             *)
THEOREM EvidenceIsComplete == Spec => []EvidenceFits
<1>1. ASSUME IInv, Origins PROVE EvidenceFits
  <2> SUFFICES ASSUME ~overlap, NEW a \in Actors, run[a].at = "compose",
                      NEW n \in 1..Clusters[run[a].sel]
               PROVE  /\ evidence[n] # None /\ evidence[n].of = run[a].sel
                      /\ evidence[n].from = run[a].sel \/ n \in silent
                      /\ evidence[n].verified \/ cut
    BY DEF EvidenceFits
  <2>1. evidence[n] # None /\ evidence[n].of = run[a].sel
    BY <1>1 DEF IInv, Alone, Holds
  <2>2. n \in Passes
    BY <1>1, Members DEF IInv, PageThere, Equipped
  <2>3. evidence[n].from = run[a].sel \/ n \in silent
    BY <1>1, <2>1, <2>2 DEF Origins
  <2>4. \A b \in Actors : run[b].at # "extract"
    BY <1>1 DEF IInv, Alone, Lone, Working, Unworked
  <2> QED BY <1>1, <2>1, <2>2, <2>3, <2>4 DEF IInv, Checked
<1> QED BY <1>1, Invariance, OriginsHold, PTL

(* No step of any run or command closes a comment again.                     *)
THEOREM CommentsCloseOnce == Spec => ClosedOnce
<1> DEFINE Again == \A c \in Comments : resolved[c] # 0 /\ ~overlap' => resolved'[c] = resolved[c]
<1>1. ASSUME IInv, [Next]_vars PROVE [Again]_vars
  <2> SUFFICES ASSUME NEW c \in Comments, resolved[c] # 0, ~overlap'
               PROVE  resolved'[c] = resolved[c]
    OBVIOUS
  <2>1. ASSUME NEW a \in Actors, ResolveComment(a) PROVE resolved'[c] = resolved[c]
    <3>1. PICK d \in run[a].todo : /\ resolved' = [resolved EXCEPT ![d] = run[a].number]
                                   /\ Move(a, [run[a] EXCEPT !.todo = @ \ {d}])
      BY <2>1 DEF ResolveComment, ToResolve
    <3>2. ~overlap /\ run[a].at = "resolve"
      BY <2>1, <3>1 DEF Move, ResolveComment, IInv, TypeOK
    <3>3. resolved[d] = 0
      BY <1>1, <3>2 DEF IInv, Alone, Holds, Filing
    <3> QED BY <1>1, <3>1, <3>3 DEF IInv, TypeOK
  <2>2. CASE UNCHANGED resolved
    BY <2>2
  <2>3. ASSUME NEW a \in Actors,
               Writes(a) \/ Revises(a) \/ Publishes(a) \/ Checks(a) \/ SessionFails(a) \/ Kill(a)
        PROVE  ResolveComment(a) \/ UNCHANGED resolved
    BY <2>3 DEF Writes, StartWrite, Export, Extract, VerifyEvidence, Extracted, Compose,
                Revises, StartRevise, TakeBatch, Revise, ParseReceipt, WriteReceipt, EndRevise,
                Publishes, Verify, Fix, Normalise, PublishCheck, PublishCopy, PublishManifest,
                Checks, StartVerify, WriteClaims, WriteRate, SessionFails, Kill, commentVars
  <2>4. ASSUME NEW d \in Comments, AddComment(d) PROVE UNCHANGED resolved
    BY <2>4 DEF AddComment
  <2>5. UNCHANGED vars => UNCHANGED resolved
    BY DEF vars, commentVars
  <2> QED BY <1>1, <2>1, <2>2, <2>3, <2>4, <2>5 DEF Next
<1> QED BY <1>1, Invariance, PTL DEF Spec, ClosedOnce

-----------------------------------------------------------------------------
(* The packs of the experts: what TopicPacks says of them holds of            *)
(* ExpertPacks.                                                              *)

Topic == INSTANCE ExpertPacks

PackAssumption == Topic!BoundsAssumption /\ Topic!PoolAssumption /\ Topic!AbsentAssumption

(* select_units: what an arm may use of a topic. *)
LEMMA BudgetIsShared ==
  ASSUME PackAssumption, NEW raptor \in Seq(Units), NEW graph \in Seq(Units)
  PROVE  /\ Topic!SharedBudget(raptor, graph) \in 1..UnitBudget
         /\ raptor # <<>> => Topic!SharedBudget(raptor, graph) <= Len(raptor)
         /\ graph # <<>> => Topic!SharedBudget(raptor, graph) <= Len(graph)
<1> DEFINE S == {UnitBudget} \cup ({Len(raptor), Len(graph)} \ {0})
<1>1. UnitBudget \in Nat \ {0} /\ Len(raptor) \in Nat /\ Len(graph) \in Nat
  BY DEF PackAssumption, Topic!BoundsAssumption
<1>2. \E x \in S : \A y \in S : x <= y
  BY <1>1
<1>3. Topic!Min(S) \in S /\ \A y \in S : Topic!Min(S) <= y
  BY <1>2 DEF Topic!Min
<1>4. Topic!SharedBudget(raptor, graph) = Topic!Min(S)
  BY DEF Topic!SharedBudget
<1>5. \A x \in S : x \in Nat \ {0}
  BY <1>1
<1> HIDE DEF S
<1>6. UnitBudget \in S /\ (Len(raptor) # 0 => Len(raptor) \in S) /\ (Len(graph) # 0 => Len(graph) \in S)
  BY DEF S
<1>7. Topic!Min(S) \in Nat \ {0} /\ Topic!Min(S) <= UnitBudget
  BY <1>3, <1>5, <1>6
<1>8. /\ raptor # <<>> => Len(raptor) # 0
      /\ graph # <<>> => Len(graph) # 0
  BY EmptySeq
<1> QED BY <1>1, <1>3, <1>4, <1>6, <1>7, <1>8

LEMMA MinOfTwo ==
  ASSUME NEW a \in Nat, NEW b \in Nat
  PROVE  Topic!Min({a, b}) = IF a <= b THEN a ELSE b
  BY DEF Topic!Min

LEMMA UptoIs ==
  ASSUME NEW s \in Seq(Units), NEW n \in Nat
  PROVE  /\ Topic!Upto(s, n) \in Seq(Units)
         /\ Len(Topic!Upto(s, n)) = IF n <= Len(s) THEN n ELSE Len(s)
  BY MinOfTwo DEF Topic!Upto

LEMMA MergeIs ==
  ASSUME NEW raptor \in Seq(Units), NEW graph \in Seq(Units), NEW n \in Nat
  PROVE  /\ Topic!MergeUnits(raptor, graph, n) \in Seq(Units)
         /\ Len(Topic!MergeUnits(raptor, graph, n)) =
              IF n <= Len(raptor) + Len(graph) THEN n ELSE Len(raptor) + Len(graph)
<1> DEFINE short == Topic!Min({Len(raptor), Len(graph)})
           long == IF Len(raptor) > short THEN raptor ELSE graph
           total == Topic!Min({n, Len(raptor) + Len(graph)})
           Nth(i) == IF i > 2 * short THEN long[i - short]
                     ELSE IF i % 2 = 1 THEN raptor[(i + 1) \div 2] ELSE graph[i \div 2]
<1>1. Len(raptor) \in Nat /\ Len(graph) \in Nat
  OBVIOUS
<1>2. /\ short = IF Len(raptor) <= Len(graph) THEN Len(raptor) ELSE Len(graph)
      /\ total = IF n <= Len(raptor) + Len(graph) THEN n ELSE Len(raptor) + Len(graph)
  BY <1>1, MinOfTwo
<1>3. ASSUME NEW i \in 1..total PROVE Nth(i) \in Units
  <2>1. i \in Nat /\ i >= 1 /\ i <= Len(raptor) + Len(graph) /\ short \in Nat
    BY <1>1, <1>2
  <2>2. CASE i > 2 * short
    <3>1. i - short \in 1..Len(long) /\ long \in Seq(Units)
      BY <1>1, <1>2, <2>1, <2>2
    <3> HIDE DEF long, short
    <3> QED BY <2>2, <3>1
  <2>3. CASE i <= 2 * short /\ i % 2 = 1
    <3>1. (i + 1) \div 2 \in 1..Len(raptor)
      BY <1>1, <1>2, <2>1, <2>3
    <3> HIDE DEF long, short
    <3> QED BY <2>1, <2>3, <3>1
  <2>4. CASE i <= 2 * short /\ i % 2 # 1
    <3>1. i \div 2 \in 1..Len(graph)
      BY <1>1, <1>2, <2>1, <2>4
    <3> HIDE DEF long, short
    <3> QED BY <2>1, <2>4, <3>1
  <2> HIDE DEF short
  <2> QED BY <2>1, <2>2, <2>3, <2>4
<1>4. Topic!MergeUnits(raptor, graph, n) = [i \in 1..total |-> Nth(i)]
  BY DEF Topic!MergeUnits
<1>5. total \in Nat
  BY <1>1, <1>2
<1> HIDE DEF total, Nth
<1> QED BY <1>2, <1>3, <1>4, <1>5, IsASeq

(* Every arm of a topic whose pool is not empty has as many units.            *)
LEMMA ArmsOfOneLength ==
  ASSUME PackAssumption, NEW S \in SUBSET Videos, NEW a \in Topic!ArmNames
  PROVE  LET units == Topic!SelectUnits(a, S)
         IN  /\ units \in Seq(Units) /\ Len(units) <= UnitBudget
             /\ Len(units) = 0 \/
                Len(units) = Topic!SharedBudget(RaptorUnits[S], GraphUnits[S])
<1>1. RaptorUnits[S] \in Seq(Units) /\ GraphUnits[S] \in Seq(Units)
  BY DEF PackAssumption, Topic!PoolAssumption
<1> DEFINE n == Topic!SharedBudget(RaptorUnits[S], GraphUnits[S])
<1>2. /\ n \in 1..UnitBudget
      /\ RaptorUnits[S] # <<>> => n <= Len(RaptorUnits[S])
      /\ GraphUnits[S] # <<>> => n <= Len(GraphUnits[S])
  BY <1>1, BudgetIsShared
<1>3. UnitBudget \in Nat
  BY DEF PackAssumption, Topic!BoundsAssumption
<1>4. CASE a = "raptor"
  <2>1. Topic!SelectUnits(a, S) = Topic!Upto(RaptorUnits[S], n)
    BY <1>4 DEF Topic!SelectUnits
  <2> HIDE DEF n
  <2> QED BY <1>1, <1>2, <1>3, <2>1, UptoIs DEF n
<1>5. CASE a = "communities"
  <2>1. Topic!SelectUnits(a, S) = Topic!Upto(GraphUnits[S], n)
    BY <1>5 DEF Topic!SelectUnits
  <2> HIDE DEF n
  <2> QED BY <1>1, <1>2, <1>3, <2>1, UptoIs DEF n
<1>6. CASE a = "merged"
  <2>1. Topic!SelectUnits(a, S) = Topic!MergeUnits(RaptorUnits[S], GraphUnits[S], n)
    BY <1>6 DEF Topic!SelectUnits
  <2> HIDE DEF n
  <2>2. PICK r \in Nat, g \in Nat : r = Len(RaptorUnits[S]) /\ g = Len(GraphUnits[S])
    BY <1>1
  <2>3. /\ n \in Nat
        /\ RaptorUnits[S] # <<>> => n <= r
        /\ GraphUnits[S] # <<>> => n <= g
        /\ RaptorUnits[S] = <<>> => r = 0
        /\ GraphUnits[S] = <<>> => g = 0
    BY <1>2, <1>3, <2>2
  <2>4. r + g = 0 \/ n <= r + g
    <3>1. CASE RaptorUnits[S] = <<>> /\ GraphUnits[S] = <<>>
      BY <2>3, <3>1
    <3>2. CASE n <= r \/ n <= g
      BY <2>3, <3>2
    <3> QED BY <2>3, <3>1, <3>2
  <2>5. /\ Topic!SelectUnits(a, S) \in Seq(Units)
        /\ Len(Topic!SelectUnits(a, S)) = IF n <= r + g THEN n ELSE r + g
    <3>1. LET merged == Topic!MergeUnits(RaptorUnits[S], GraphUnits[S], n)
              all == Len(RaptorUnits[S]) + Len(GraphUnits[S])
          IN  merged \in Seq(Units) /\ Len(merged) = IF n <= all THEN n ELSE all
      BY <1>1, <2>3, MergeIs
    <3>2. Len(RaptorUnits[S]) + Len(GraphUnits[S]) = r + g
      BY <2>2
    <3> QED BY <2>1, <3>1, <3>2
  <2>6. Len(Topic!SelectUnits(a, S)) \in {0, n}
    BY <2>3, <2>4, <2>5
  <2> QED BY <1>2, <1>3, <2>5, <2>6 DEF n
<1> QED BY <1>4, <1>5, <1>6 DEF Topic!ArmNames

-----------------------------------------------------------------------------
(* Overrides, builds and files of a topic: the inductive invariant.           *)

(* As long as no two of them overlapped, an override or a build that holds    *)
(* what it read of the manifest is alone and holds the pins that count.       *)
TopicPins ==
  ~raced =>
    /\ packManifest # TornFile => packManifest.pins = wish
    /\ Topic!Building => build.pins = wish
    /\ \A r \in Requests : Topic!Holding(r) =>
         /\ request[r].draft.pins = [wish EXCEPT ![request[r].video] = request[r].choice]
         /\ ~Topic!Building
         /\ \A q \in Requests \ {r} : ~Topic!Holding(q)

(* An arm this build has saved, unless a kill tore it since. *)
Saved(a) == arms[a] # Absent /\ (arms[a] # TornFile => arms[a].build = build.number)

(* The arms a manifest speaks of are there and not older than it. *)
Backed(m) ==
  /\ m.build <= build.number
  /\ m.build > 0 =>
       \A a \in Topic!ArmNames :
         arms[a] # Absent /\ (arms[a] # TornFile => arms[a].build >= m.build)

TopicOrder ==
  /\ build.at = "units" => \A i \in 1..(build.arm - 1) : Saved(Topic!Arms[i])
  /\ build.at \in {"manifest", "writing"} => \A a \in Topic!ArmNames : Saved(a)
  /\ packManifest # TornFile => Backed(packManifest)
  /\ \A r \in Requests : Backed(request[r].draft)

(* A pack holds the arm's selection from its members, no member its build     *)
(* found blocked, and of a unit the rule that is remembered for it.           *)
Written(p, a) ==
  /\ p.units = Topic!SelectUnits(a, p.members)
  /\ p.members \cap p.blocked = {}
  /\ p.build <= build.number
  /\ \A i \in DOMAIN p.rules :
       /\ i \in 1..Len(p.units) /\ p.rules[i] \in Rules
       /\ cache[p.units[i]][UnitVideos[p.units[i]] \cap p.members] = p.rules[i]

OnDisk(a) == arms[a] \notin {Absent, TornFile}

TopicFiles ==
  /\ \A a \in Topic!ArmNames : OnDisk(a) =>
       /\ Written(arms[a], a)
       /\ Topic!Building /\ arms[a].build = build.number => arms[a].members = build.members
  /\ \A a, b \in Topic!ArmNames :
       OnDisk(a) /\ OnDisk(b) /\ arms[a].build = arms[b].build => arms[a].members = arms[b].members

(* What a build has found for the first of its arm's units is remembered.      *)
Remembered(found, units, members) ==
  /\ Len(found) <= Len(units)
  /\ \A i \in 1..Len(found) : found[i] \in Rules =>
       cache[units[i]][UnitVideos[units[i]] \cap members] = found[i]

TopicBuild ==
  /\ build.members \cap build.blocked = {}
  /\ Topic!Building => build.number > 0
  /\ build.at = "units" =>
       Remembered(build.found, Topic!SelectUnits(Topic!Arms[build.arm], build.members),
                  build.members)

TopicInv == Topic!TypeOK /\ TopicPins /\ TopicOrder /\ TopicFiles /\ TopicBuild

LEMMA TopicConstants ==
  ASSUME PackAssumption
  PROVE  /\ Topic!NoPins \in [Videos -> Topic!Decisions]
         /\ Topic!NoManifest \in Topic!Manifests /\ Topic!NoManifest.build = 0
         /\ Topic!NoManifest.pins = Topic!NoPins
         /\ Topic!NoBuild \in Topic!Builds
         /\ Topic!NoRequest \in Topic!Overrides
         /\ Len(Topic!Arms) = 3
         /\ \A i \in 1..3 : Topic!Arms[i] \in Topic!ArmNames
         /\ \A a \in Topic!ArmNames : \E i \in 1..3 : Topic!Arms[i] = a
         /\ MaxBuilds \in Nat /\ MaxFaults \in Nat
<1> USE DEF PackAssumption, Topic!BoundsAssumption
<1>1. Topic!NoPins \in [Videos -> Topic!Decisions]
  BY DEF Topic!NoPins, Topic!Decisions
<1>2. Topic!NoManifest \in Topic!Manifests
  BY <1>1 DEF Topic!NoManifest, Topic!Manifests
<1>3. /\ Len(Topic!Arms) = 3
      /\ \A i \in 1..3 : Topic!Arms[i] \in Topic!ArmNames
      /\ \A a \in Topic!ArmNames : \E i \in 1..3 : Topic!Arms[i] = a
  <2>1. /\ Len(Topic!Arms) = 3
        /\ Topic!Arms[1] = "raptor" /\ Topic!Arms[2] = "communities" /\ Topic!Arms[3] = "merged"
    BY DEF Topic!Arms
  <2> QED BY <2>1 DEF Topic!ArmNames
<1>4. Topic!NoBuild \in Topic!Builds
  BY <1>1, <1>3 DEF Topic!NoBuild, Topic!Builds
<1>5. Topic!NoRequest \in Topic!Overrides
  BY <1>2 DEF Topic!NoRequest, Topic!Overrides, Topic!Decisions
<1> QED BY <1>1, <1>2, <1>3, <1>4, <1>5 DEF Topic!NoManifest

LEMMA TopicInit == ASSUME PackAssumption, Topic!Init PROVE TopicInv
<1> USE TopicConstants DEF Topic!Init
<1>1. Topic!TypeOK
  <2>1. 0 \in 0..MaxFaults
    OBVIOUS
  <2> QED BY <2>1 DEF Topic!TypeOK
<1>2. TopicPins
  BY DEF TopicPins, Topic!Building, Topic!Holding, Topic!NoBuild, Topic!NoRequest
<1>3. TopicOrder
  BY DEF TopicOrder, Backed, Topic!NoBuild, Topic!NoRequest
<1>4. TopicFiles /\ TopicBuild
  BY DEF TopicFiles, OnDisk, TopicBuild, Topic!Building, Topic!NoBuild
<1> QED BY <1>1, <1>2, <1>3, <1>4 DEF TopicInv

(* Every copy of the manifest, on disk or in a request, is backed by the arms. *)
LEMMA CopiesAreBacked ==
  ASSUME PackAssumption, TopicInv
  PROVE  /\ packManifest = TornFile \/ (packManifest \in Topic!Manifests /\ Backed(packManifest))
         /\ Topic!LoadManifest \in Topic!Manifests /\ Backed(Topic!LoadManifest)
         /\ \A r \in Requests : request[r].draft \in Topic!Manifests /\ Backed(request[r].draft)
         /\ Backed(Topic!NoManifest)
<1>1. /\ packManifest = TornFile \/ packManifest \in Topic!Manifests
      /\ \A r \in Requests : request[r].draft \in Topic!Manifests
      /\ build.number \in Nat
  BY DEF TopicInv, Topic!TypeOK, Topic!Overrides, Topic!Builds
<1>2. /\ packManifest # TornFile => Backed(packManifest)
      /\ \A r \in Requests : Backed(request[r].draft)
  BY DEF TopicInv, TopicOrder
<1>3. Backed(Topic!NoManifest)
  BY <1>1, TopicConstants DEF Backed
<1>4. Topic!LoadManifest \in Topic!Manifests /\ Backed(Topic!LoadManifest)
  <2>1. CASE packManifest = TornFile
    <3>1. Topic!LoadManifest = Topic!NoManifest
      BY <2>1 DEF Topic!LoadManifest
    <3> QED BY <1>3, <3>1, TopicConstants
  <2>2. CASE packManifest # TornFile
    <3>1. Topic!LoadManifest = packManifest
      BY <2>2 DEF Topic!LoadManifest
    <3> QED BY <1>1, <1>2, <2>2, <3>1
  <2> QED BY <2>1, <2>2
<1> QED BY <1>1, <1>2, <1>3, <1>4

(* A request is stepped to an override and nothing but the manifest, the pins *)
(* that count and the race can change with it.                                *)
LEMMA RequestStep ==
  ASSUME PackAssumption, TopicInv, NEW r \in Requests, NEW o \in Topic!Overrides,
         request' = [request EXCEPT ![r] = o],
         Backed(o.draft), packManifest' = TornFile \/ (packManifest' \in Topic!Manifests /\ Backed(packManifest')),
         wish' \in [Videos -> Topic!Decisions], raced' \in BOOLEAN,
         UNCHANGED <<blocked, arms, cache, build, faults>>, TopicPins'
  PROVE  TopicInv'
<1> USE DEF TopicInv
<1>1. Topic!TypeOK'
  BY DEF Topic!TypeOK
<1>2. TopicOrder'
  BY DEF TopicOrder, Backed, Saved, Topic!TypeOK
<1>3. TopicFiles'
  BY DEF TopicFiles, Written, OnDisk, Topic!Building
<1>4. TopicBuild'
  BY DEF TopicBuild, Remembered, Topic!Building
<1> QED BY <1>1, <1>2, <1>3, <1>4

LEMMA TopicPin ==
  ASSUME PackAssumption, TopicInv, NEW r \in Requests, NEW v \in Videos, NEW c \in Topic!Decisions,
         Topic!Pin(r, v, c)
  PROVE  TopicInv'
<1> USE DEF TopicInv
<1>0. request[r] \in Topic!Overrides /\ request[r].at = "idle"
  BY DEF Topic!Pin, Topic!TypeOK
<1>1. CASE v \in blocked
  <2> DEFINE o == [request[r] EXCEPT !.at = "refused"]
  <2>1. o \in Topic!Overrides /\ o.draft = request[r].draft /\ o.at = "refused"
    BY <1>0 DEF Topic!Overrides
  <2>2. request' = [request EXCEPT ![r] = o] /\ UNCHANGED <<packManifest, wish, raced, blocked, arms, cache, build, faults>>
    BY <1>1 DEF Topic!Pin
  <2> HIDE DEF o
  <2>3. TopicPins'
    BY <2>1, <2>2 DEF TopicPins, Topic!Building, Topic!Holding, Topic!TypeOK
  <2>4. Backed(o.draft) /\ (packManifest = TornFile \/ (packManifest \in Topic!Manifests /\ Backed(packManifest)))
    BY <2>1, CopiesAreBacked
  <2>5. packManifest' = TornFile \/ (packManifest' \in Topic!Manifests /\ Backed(packManifest'))
    BY <2>2, <2>4
  <2> QED BY <2>1, <2>2, <2>3, <2>4, <2>5, RequestStep DEF Topic!TypeOK
<1>2. CASE v \notin blocked
  <2> DEFINE m == Topic!LoadManifest
             d == [m EXCEPT !.pins[v] = c]
             o == [at |-> "loaded", video |-> v, choice |-> c, draft |-> d]
  <2>1. /\ m \in Topic!Manifests /\ Backed(m) /\ (packManifest # TornFile => m = packManifest)
    BY CopiesAreBacked DEF Topic!LoadManifest
  <2>2. d \in Topic!Manifests /\ d.build = m.build /\ d.pins = [m.pins EXCEPT ![v] = c]
    BY <2>1 DEF Topic!Manifests
  <2>3. /\ o \in Topic!Overrides /\ o.draft = d /\ o.at = "loaded" /\ o.video = v /\ o.choice = c
    BY <2>2 DEF Topic!Overrides
  <2>4. /\ request' = [request EXCEPT ![r] = o]
        /\ raced' = (raced \/ Topic!Building \/ (\E q \in Requests: Topic!Holding(q)) \/ packManifest = TornFile)
        /\ UNCHANGED <<packManifest, wish, blocked, arms, cache, build, faults>>
    BY <1>2 DEF Topic!Pin
  <2>5. Backed(o.draft)
    BY <2>1, <2>2, <2>3 DEF Backed
  <2> HIDE DEF m, d, o
  <2>6. TopicPins'
    <3> SUFFICES ASSUME ~raced' PROVE TopicPins'
      BY DEF TopicPins
    <3>1. /\ ~raced /\ ~Topic!Building /\ packManifest # TornFile
          /\ \A q \in Requests : ~Topic!Holding(q)
      BY <2>4 DEF Topic!TypeOK
    <3>2. d.pins = [wish EXCEPT ![v] = c]
      BY <2>1, <2>2, <3>1 DEF TopicPins
    <3> QED BY <2>3, <2>4, <3>1, <3>2 DEF TopicPins, Topic!Building, Topic!Holding, Topic!TypeOK
  <2>7. packManifest' = TornFile \/ (packManifest' \in Topic!Manifests /\ Backed(packManifest'))
    BY <2>4, CopiesAreBacked
  <2>8. raced' \in BOOLEAN
    BY <2>4
  <2> QED BY <2>3, <2>4, <2>5, <2>6, <2>7, <2>8, RequestStep DEF Topic!TypeOK
<1> QED BY <1>1, <1>2

LEMMA TopicWrite ==
  ASSUME PackAssumption, TopicInv, NEW r \in Requests, Topic!BeginPin(r) \/ Topic!EndPin(r)
  PROVE  TopicInv'
<1> USE DEF TopicInv
<1>0. request[r] \in Topic!Overrides /\ Topic!Holding(r)
  BY DEF Topic!BeginPin, Topic!EndPin, Topic!TypeOK, Topic!Holding
<1>1. CASE Topic!BeginPin(r)
  <2> DEFINE o == [request[r] EXCEPT !.at = "writing"]
  <2>1. /\ o \in Topic!Overrides /\ o.draft = request[r].draft /\ o.at = "writing"
        /\ o.video = request[r].video /\ o.choice = request[r].choice
    BY <1>0 DEF Topic!Overrides
  <2>2. /\ request' = [request EXCEPT ![r] = o] /\ packManifest' = TornFile
        /\ UNCHANGED <<wish, raced, blocked, arms, cache, build, faults>>
    BY <1>1 DEF Topic!BeginPin
  <2> HIDE DEF o
  <2>3. TopicPins'
    BY <1>0, <2>1, <2>2 DEF TopicPins, Topic!Building, Topic!Holding, Topic!TypeOK
  <2>4. Backed(o.draft)
    BY <2>1, CopiesAreBacked
  <2>5. packManifest' = TornFile /\ wish' \in [Videos -> Topic!Decisions] /\ raced' \in BOOLEAN
    BY <2>2 DEF Topic!TypeOK
  <2> QED BY <2>1, <2>2, <2>3, <2>4, <2>5, RequestStep
<1>2. CASE Topic!EndPin(r)
  <2> DEFINE o == [Topic!NoRequest EXCEPT !.at = "done"]
  <2>1. o \in Topic!Overrides /\ o.draft = Topic!NoManifest /\ o.at = "done"
    BY TopicConstants DEF Topic!NoRequest, Topic!Overrides
  <2>2. /\ request' = [request EXCEPT ![r] = o] /\ packManifest' = request[r].draft
        /\ wish' = [wish EXCEPT ![request[r].video] = request[r].choice]
        /\ UNCHANGED <<raced, blocked, arms, cache, build, faults>>
    BY <1>2 DEF Topic!EndPin
  <2> HIDE DEF o
  <2>3. TopicPins'
    BY <1>0, <2>1, <2>2 DEF TopicPins, Topic!Building, Topic!Holding, Topic!TypeOK
  <2>4. Backed(o.draft) /\ Backed(request[r].draft) /\ request[r].draft \in Topic!Manifests
    BY <2>1, CopiesAreBacked
  <2>5. packManifest' = TornFile \/ (packManifest' \in Topic!Manifests /\ Backed(packManifest'))
    BY <2>2, <2>4
  <2>6. wish' \in [Videos -> Topic!Decisions]
    BY <1>0, <2>2 DEF Topic!TypeOK, Topic!Overrides
  <2> QED BY <2>1, <2>2, <2>3, <2>4, <2>5, <2>6, RequestStep DEF Topic!TypeOK
<1> QED BY <1>1, <1>2

LEMMA TopicExclude ==
  ASSUME PackAssumption, TopicInv, NEW v \in Videos, Topic!Exclude(v)
  PROVE  TopicInv'
<1> USE DEF TopicInv, Topic!Exclude
<1>1. Topic!TypeOK'
  BY DEF Topic!TypeOK
<1>2. TopicPins'
  BY DEF TopicPins, Topic!Building, Topic!Holding
<1>3. TopicOrder'
  BY DEF TopicOrder, Backed, Saved
<1>4. TopicFiles'
  BY DEF TopicFiles, Written, OnDisk, Topic!Building
<1>5. TopicBuild'
  BY DEF TopicBuild, Remembered, Topic!Building
<1> QED BY <1>1, <1>2, <1>3, <1>4, <1>5

(* The numbers of builds grow.                                                *)
LEMMA BackedLater ==
  ASSUME NEW m, m.build \in Nat, Backed(m), build.number \in Nat, build'.number \in Nat,
         build'.number >= build.number, UNCHANGED arms
  PROVE  Backed(m)'
  BY DEF Backed

LEMMA TopicStart ==
  ASSUME PackAssumption, TopicInv, NEW routed \in SUBSET Videos, Topic!Start(routed)
  PROVE  TopicInv'
<1> USE DEF TopicInv
<1> DEFINE pins == Topic!LoadManifest.pins
           members == Topic!Members(routed \ blocked, pins, blocked)
           b == [Topic!NoBuild EXCEPT !.at = "units", !.number = build.number + 1,
                                      !.pins = pins, !.blocked = blocked, !.members = members]
<1>1. /\ build \in Topic!Builds /\ build.number \in Nat /\ build.number < MaxBuilds
      /\ build.at = "idle" /\ build' = b
      /\ raced' = (raced \/ (\E r \in Requests: Topic!Holding(r)) \/ packManifest = TornFile)
      /\ UNCHANGED <<blocked, packManifest, arms, cache, faults, request, wish>>
  BY DEF Topic!Start, Topic!TypeOK, Topic!Builds
<1>2. /\ pins \in [Videos -> Topic!Decisions] /\ members \in SUBSET Videos
      /\ members \cap blocked = {} /\ blocked \in SUBSET Videos
      /\ packManifest # TornFile => pins = packManifest.pins
  BY CopiesAreBacked DEF Topic!Manifests, Topic!Members, Topic!LoadManifest, Topic!TypeOK
<1> HIDE DEF pins, members
<1>3. /\ b \in Topic!Builds /\ b.at = "units" /\ b.number = build.number + 1 /\ b.pins = pins
      /\ b.blocked = blocked /\ b.members = members /\ b.arm = 1 /\ b.found = <<>>
  <2>1. build.number + 1 \in 0..MaxBuilds
    BY <1>1, TopicConstants
  <2>2. Topic!NoBuild \in Topic!Builds /\ Topic!NoBuild.arm = 1 /\ Topic!NoBuild.found = <<>>
    BY TopicConstants DEF Topic!NoBuild
  <2> QED BY <1>2, <2>1, <2>2 DEF Topic!Builds
<1> HIDE DEF b
<1>4. Topic!TypeOK'
  BY <1>1, <1>3 DEF Topic!TypeOK
<1>5. TopicPins'
  <2> SUFFICES ASSUME ~raced' PROVE TopicPins'
    BY DEF TopicPins
  <2>1. ~raced /\ packManifest # TornFile /\ \A r \in Requests : ~Topic!Holding(r)
    BY <1>1 DEF Topic!TypeOK
  <2> QED BY <1>1, <1>2, <1>3, <2>1 DEF TopicPins, Topic!Building, Topic!Holding
<1>6. TopicOrder'
  <2>1. /\ packManifest # TornFile => Backed(packManifest)'
        /\ \A r \in Requests : Backed(request[r].draft)'
    <3>1. \A m \in Topic!Manifests : m.build \in Nat
      BY TopicConstants DEF Topic!Manifests
    <3> QED BY <1>1, <1>3, <3>1, BackedLater, CopiesAreBacked
  <2> QED BY <1>1, <1>3, <2>1 DEF TopicOrder
<1>7. TopicFiles'
  <2>1. ASSUME NEW a \in Topic!ArmNames, OnDisk(a)
        PROVE  Written(arms[a], a)' /\ arms[a].build <= build.number
    <3>1. Written(arms[a], a) /\ arms[a].build \in Nat
      <4>1. arms[a].build \in 1..MaxBuilds
        BY <2>1 DEF OnDisk, Topic!TypeOK, Topic!PackFiles
      <4> QED BY <2>1, <4>1, TopicConstants DEF TopicFiles
    <3>2. arms[a].build <= build.number /\ arms[a].build <= b.number
      BY <1>1, <1>3, <3>1 DEF Written
    <3> QED BY <1>1, <3>1, <3>2 DEF Written
  <2>2. \A a \in Topic!ArmNames : OnDisk(a) => arms[a].build # build.number + 1
    <3>1. \A a \in Topic!ArmNames : OnDisk(a) => arms[a].build \in 1..MaxBuilds
      BY DEF OnDisk, Topic!TypeOK, Topic!PackFiles
    <3> QED BY <1>1, <2>1, <3>1, TopicConstants
  <2> QED BY <1>1, <1>3, <2>1, <2>2 DEF TopicFiles, OnDisk
<1>8. TopicBuild'
  <2>1. Len(b.found) = 0
    BY <1>3
  <2>2. \A S \in SUBSET Videos, a \in Topic!ArmNames : Len(Topic!SelectUnits(a, S)) \in Nat
    BY ArmsOfOneLength
  <2>3. /\ build'.members = members /\ build'.blocked = blocked /\ build'.arm = 1
        /\ build'.found = b.found /\ build'.number > 0
    BY <1>1, <1>3
  <2>4. Len(Topic!SelectUnits(Topic!Arms[1], members)) >= 0
    BY <1>2, <2>2, TopicConstants
  <2>5. Remembered(build.found, Topic!SelectUnits(Topic!Arms[build.arm], build.members), build.members)'
    BY <2>1, <2>3, <2>4 DEF Remembered
  <2> QED BY <1>2, <2>3, <2>5 DEF TopicBuild
<1> QED BY <1>4, <1>5, <1>6, <1>7, <1>8

(* A call is answered or a remembered answer used: what is remembered stays.  *)
LEMMA TopicAnswer ==
  ASSUME PackAssumption, TopicInv, build.at = "units", Topic!Pending,
         NEW answer \in Rules \cup {Silent, Absent}, Topic!Found(answer),
         Topic!Row \notin {Absent, TornFile} => cache' = cache,
         cache' = cache \/ cache' = [cache EXCEPT ![Topic!Unit][Topic!Seen] = answer],
         answer \in Rules => cache'[Topic!Unit][Topic!Seen] = answer,
         faults' \in 0..MaxFaults, UNCHANGED <<blocked, packManifest, arms, request, wish, raced>>
  PROVE  TopicInv'
<1> USE DEF TopicInv
<1> DEFINE units == Topic!SelectUnits(Topic!Arms[build.arm], build.members)
           k == Len(build.found)
           b == [build EXCEPT !.found = Append(@, answer)]
<1>1. /\ build \in Topic!Builds /\ build.members \in SUBSET Videos
      /\ Topic!Arms[build.arm] \in Topic!ArmNames
      /\ build.found \in Seq(Rules \cup {Silent, Absent})
  BY TopicConstants DEF Topic!TypeOK, Topic!Builds
<1>2. units \in Seq(Units) /\ Len(units) \in Nat /\ k \in Nat
  <2>1. units \in Seq(Units)
    BY <1>1, ArmsOfOneLength
  <2> QED BY <1>1, <2>1
<1>3. /\ k < Len(units) /\ Topic!Unit = units[k + 1]
      /\ Topic!Seen = UnitVideos[units[k + 1]] \cap build.members
      /\ Topic!Row = cache[units[k + 1]][UnitVideos[units[k + 1]] \cap build.members]
      /\ build' = b
  BY DEF Topic!Pending, Topic!Unit, Topic!Seen, Topic!Row, Topic!Selected, Topic!Arm, Topic!Found
<1> HIDE DEF units
<1>4. /\ b \in Topic!Builds /\ b.at = build.at /\ b.number = build.number /\ b.pins = build.pins
      /\ b.blocked = build.blocked /\ b.members = build.members /\ b.arm = build.arm
      /\ b.found = Append(build.found, answer)
  <2>1. Append(build.found, answer) \in Seq(Rules \cup {Silent, Absent})
    BY <1>1
  <2> QED BY <1>1, <2>1 DEF Topic!Builds
<1> HIDE DEF b, k
<1>5. Topic!Unit \in Units /\ Topic!Seen \in SUBSET UnitVideos[Topic!Unit]
  BY <1>2, <1>3
<1>6. /\ Topic!TypeOK'
      /\ \A u \in Units : \A seen \in SUBSET UnitVideos[u] : cache[u][seen] \in Rules =>
           cache'[u][seen] = cache[u][seen]
  <2>1. /\ DOMAIN cache' = Units
        /\ \A u \in Units : cache'[u] \in [SUBSET UnitVideos[u] -> Rules \cup {Silent, Absent, TornFile}]
        /\ \A u \in Units : \A seen \in SUBSET UnitVideos[u] : cache[u][seen] \in Rules =>
             cache'[u][seen] = cache[u][seen]
    <3>1. /\ DOMAIN cache = Units
          /\ \A u \in Units : cache[u] \in [SUBSET UnitVideos[u] -> Rules \cup {Silent, Absent, TornFile}]
          /\ Absent \notin Rules /\ TornFile \notin Rules
      BY DEF Topic!TypeOK, PackAssumption, Topic!BoundsAssumption
    <3>2. CASE cache' = cache
      BY <3>1, <3>2
    <3>3. CASE cache' # cache
      <4>1. /\ cache' = [cache EXCEPT ![Topic!Unit][Topic!Seen] = answer]
            /\ Topic!Row = cache[Topic!Unit][Topic!Seen] /\ Topic!Row \in {Absent, TornFile}
        BY <1>3, <3>3 DEF Topic!Row
      <4> QED BY <1>5, <3>1, <4>1
    <3> QED BY <3>2, <3>3
  <2> QED BY <1>3, <1>4, <2>1 DEF Topic!TypeOK
<1>7. TopicPins'
  BY <1>3, <1>4 DEF TopicPins, Topic!Building, Topic!Holding
<1>8. TopicOrder'
  BY <1>3, <1>4 DEF TopicOrder, Backed, Saved
<1>9. TopicFiles'
  <2>1. ASSUME NEW a \in Topic!ArmNames, OnDisk(a) PROVE Written(arms[a], a)'
    <3> DEFINE p == arms[a]
    <3>1. p \in Topic!PackFiles /\ p.units \in Seq(Units)
      BY <2>1 DEF OnDisk, Topic!TypeOK, Topic!PackFiles
    <3>2. Written(p, a)
      BY <2>1 DEF TopicFiles
    <3> HIDE DEF p
    <3>3. ASSUME NEW i \in DOMAIN p.rules
          PROVE  cache'[p.units[i]][UnitVideos[p.units[i]] \cap p.members] = p.rules[i]
      <4>1. /\ i \in 1..Len(p.units) /\ p.rules[i] \in Rules
            /\ cache[p.units[i]][UnitVideos[p.units[i]] \cap p.members] = p.rules[i]
        BY <3>2, <3>3 DEF Written
      <4>2. p.units[i] \in Units
        BY <3>1, <4>1
      <4> QED BY <1>6, <4>1, <4>2
    <3>4. Written(p, a)'
      BY <1>3, <1>4, <3>2, <3>3 DEF Written, p
    <3> QED BY <3>4 DEF p
  <2> QED BY <1>3, <1>4, <2>1 DEF TopicFiles, OnDisk, Topic!Building
<1>10. TopicBuild'
  <2>1. /\ build'.found = Append(build.found, answer) /\ Len(build'.found) = k + 1
    BY <1>1, <1>3, <1>4 DEF k
  <2>2. ASSUME NEW i \in 1..(k + 1), build'.found[i] \in Rules
        PROVE  cache'[units[i]][UnitVideos[units[i]] \cap build.members] = build'.found[i]
    <3>1. CASE i = k + 1
      <4>1. build'.found[i] = answer
        BY <1>1, <2>1, <3>1 DEF k
      <4> QED BY <1>3, <2>2, <3>1, <4>1
    <3>2. CASE i # k + 1
      <4>1. i \in 1..k /\ build'.found[i] = build.found[i]
        BY <1>1, <1>2, <2>1, <2>2, <3>2 DEF k
      <4>2. cache[units[i]][UnitVideos[units[i]] \cap build.members] = build.found[i]
        BY <2>2, <4>1 DEF TopicBuild, Remembered, units, k
      <4>3. units[i] \in Units
        BY <1>2, <1>3, <4>1
      <4> QED BY <1>6, <2>2, <4>1, <4>2, <4>3
    <3> QED BY <3>1, <3>2
  <2>3. k + 1 <= Len(units)
    BY <1>2, <1>3
  <2>4. build.members \cap build.blocked = {} /\ build.number > 0
    BY DEF TopicBuild, Topic!Building
  <2>5. units = Topic!SelectUnits(Topic!Arms[build'.arm], build'.members)
    BY <1>3, <1>4 DEF units
  <2>6. Remembered(build.found, Topic!SelectUnits(Topic!Arms[build.arm], build.members), build.members)'
    <3>1. build'.members = build.members /\ Len(build'.found) <= Len(units)
      BY <1>3, <1>4, <2>1, <2>3
    <3>2. ASSUME NEW i \in 1..Len(build'.found), build'.found[i] \in Rules
          PROVE  cache'[units[i]][UnitVideos[units[i]] \cap build'.members] = build'.found[i]
      BY <2>1, <2>2, <3>1, <3>2
    <3> QED BY <2>5, <3>1, <3>2 DEF Remembered
  <2>7. build'.members = build.members /\ build'.blocked = build.blocked /\ build'.number = build.number
    BY <1>3, <1>4
  <2> QED BY <2>4, <2>6, <2>7 DEF TopicBuild
<1> QED BY <1>6, <1>7, <1>8, <1>9, <1>10

(* What a build has selected for its arm, and the unit it is at.              *)
LEMMA BuildFacts ==
  ASSUME PackAssumption, TopicInv
  PROVE  /\ build \in Topic!Builds /\ build.number \in Nat
         /\ build.members \in SUBSET Videos /\ build.blocked \in SUBSET Videos
         /\ build.found \in Seq(Rules \cup {Silent, Absent}) /\ Len(build.found) \in Nat
         /\ build.arm \in 1..3 /\ Topic!Arms[build.arm] \in Topic!ArmNames
         /\ LET units == Topic!SelectUnits(Topic!Arms[build.arm], build.members)
            IN  /\ units \in Seq(Units) /\ Len(units) \in Nat /\ Len(units) <= UnitBudget
                /\ Topic!Pending => /\ Topic!Unit \in Units
                                    /\ Topic!Seen \in SUBSET UnitVideos[Topic!Unit]
<1> DEFINE units == Topic!SelectUnits(Topic!Arms[build.arm], build.members)
<1>1. build \in Topic!Builds
  BY DEF TopicInv, Topic!TypeOK
<1>2. /\ build.number \in 0..MaxBuilds
      /\ build.members \in SUBSET Videos /\ build.blocked \in SUBSET Videos
      /\ build.found \in Seq(Rules \cup {Silent, Absent})
      /\ build.arm \in 1..Len(Topic!Arms)
  BY <1>1 DEF Topic!Builds
<1>3. build.number \in Nat /\ build.arm \in 1..3 /\ Topic!Arms[build.arm] \in Topic!ArmNames
  <2>1. Len(Topic!Arms) = 3 /\ MaxBuilds \in Nat
    BY TopicConstants
  <2>2. build.number \in Nat /\ build.arm \in 1..3
    BY <1>2, <2>1
  <2> QED BY <2>2, TopicConstants
<1>4. Len(build.found) \in Nat
  BY <1>2
<1>5. units \in Seq(Units) /\ Len(units) <= UnitBudget
  BY <1>2, <1>3, ArmsOfOneLength
<1>6. Len(units) \in Nat
  BY <1>5
<1>7. ASSUME Topic!Pending PROVE Topic!Unit \in Units
  <2>1. Topic!Unit = units[Len(build.found) + 1] /\ Len(build.found) < Len(units)
    BY <1>7 DEF Topic!Pending, Topic!Unit, Topic!Selected, Topic!Arm
  <2> HIDE DEF units
  <2> QED BY <1>4, <1>5, <1>6, <2>1
<1>8. Topic!Seen \in SUBSET UnitVideos[Topic!Unit]
  BY DEF Topic!Seen
<1> HIDE DEF units
<1> QED BY <1>1, <1>2, <1>3, <1>4, <1>5, <1>6, <1>7, <1>8 DEF units

LEMMA TopicCall ==
  ASSUME PackAssumption, TopicInv,
         Topic!UseCached \/ (\E answer \in Rules \cup {Silent} : Topic!Call(answer)) \/ Topic!CallFails
  PROVE  TopicInv'
<1>0. faults \in 0..MaxFaults /\ MaxFaults \in Nat
  BY TopicConstants DEF TopicInv, Topic!TypeOK
<1>1. CASE Topic!UseCached
  <2>1. Topic!Row \in Rules \cup {Silent, Absent} /\ Topic!Row = cache[Topic!Unit][Topic!Seen]
    <3>1. Topic!Unit \in Units /\ Topic!Seen \in SUBSET UnitVideos[Topic!Unit]
      BY <1>1, BuildFacts DEF Topic!UseCached
    <3>2. cache[Topic!Unit][Topic!Seen] \in Rules \cup {Silent, Absent, TornFile}
      BY <3>1 DEF TopicInv, Topic!TypeOK
    <3> QED BY <1>1, <3>2 DEF Topic!Row, Topic!UseCached
  <2> QED BY <1>0, <1>1, <2>1, TopicAnswer DEF Topic!UseCached
<1>2. ASSUME NEW answer \in Rules \cup {Silent}, Topic!Call(answer) PROVE TopicInv'
  <2>1. faults' \in 0..MaxFaults
    BY <1>0, <1>2 DEF Topic!Call
  <2>2. answer \in Rules => cache'[Topic!Unit][Topic!Seen] = answer
    <3>1. Topic!Unit \in Units /\ Topic!Seen \in SUBSET UnitVideos[Topic!Unit]
      BY <1>2, BuildFacts DEF Topic!Call
    <3> QED BY <1>2, <3>1 DEF Topic!Call, TopicInv, Topic!TypeOK
  <2> QED BY <1>2, <2>1, <2>2, TopicAnswer DEF Topic!Call
<1>3. CASE Topic!CallFails
  <2>1. faults' \in 0..MaxFaults
    BY <1>0, <1>3 DEF Topic!CallFails
  <2>2. Absent \notin Rules
    BY DEF PackAssumption, Topic!BoundsAssumption
  <2> QED BY <1>3, <2>1, <2>2, TopicAnswer DEF Topic!CallFails
<1> QED BY <1>1, <1>2, <1>3

(* The file of an arm: the build's selection, and the rules it found for it.  *)
LEMMA PackIsWritten ==
  ASSUME PackAssumption, TopicInv, build.at = "units"
  PROVE  /\ Topic!Pack \in Topic!PackFiles /\ Topic!Pack.build = build.number
         /\ Topic!Pack.members = build.members
         /\ Written(Topic!Pack, Topic!Arms[build.arm])
<1> DEFINE units == Topic!SelectUnits(Topic!Arms[build.arm], build.members)
           kept == Topic!Kept(build.found)
           rules == [i \in kept |-> build.found[i]]
<1>1. /\ Topic!Arms[build.arm] \in Topic!ArmNames
      /\ build.members \in SUBSET Videos /\ build.blocked \in SUBSET Videos
      /\ build.number \in 1..MaxBuilds /\ build.found \in Seq(Rules \cup {Silent, Absent})
  <2>1. build.number \in 0..MaxBuilds /\ build.number > 0
    BY BuildFacts DEF Topic!Builds, TopicInv, TopicBuild, Topic!Building
  <2> QED BY <2>1, BuildFacts
<1>2. /\ units \in Seq(Units) /\ Len(units) \in Nat /\ Len(units) <= UnitBudget
      /\ UnitBudget \in Nat
  BY BuildFacts DEF PackAssumption, Topic!BoundsAssumption
<1>3. Remembered(build.found, units, build.members) /\ build.members \cap build.blocked = {}
  BY DEF TopicInv, TopicBuild
<1>4. Topic!Pack = [build |-> build.number, members |-> build.members, blocked |-> build.blocked,
                    units |-> units, rules |-> rules]
  BY DEF Topic!Pack, Topic!Selected, Topic!Arm
<1> HIDE DEF units
<1>5. /\ kept \subseteq 1..Len(build.found) /\ Len(build.found) \in Nat
      /\ \A i \in kept : build.found[i] \in Rules
  BY <1>1 DEF Topic!Kept
<1>6. /\ kept \subseteq 1..UnitBudget /\ kept \subseteq 1..Len(units)
      /\ rules \in [kept -> Rules]
      /\ \A i \in kept : cache[units[i]][UnitVideos[units[i]] \cap build.members] = build.found[i]
  <2>1. Len(build.found) <= Len(units) /\ Len(build.found) <= UnitBudget
    BY <1>2, <1>3, <1>5 DEF Remembered
  <2>2. kept \subseteq 1..UnitBudget /\ kept \subseteq 1..Len(units)
    BY <1>2, <1>5, <2>1
  <2>3. \A i \in kept : cache[units[i]][UnitVideos[units[i]] \cap build.members] = build.found[i]
    BY <1>3, <1>5 DEF Remembered
  <2>4. rules \in [kept -> Rules]
    BY <1>5
  <2> QED BY <2>2, <2>3, <2>4
<1> HIDE DEF kept
<1>7. rules \in UNION {[K -> Rules] : K \in SUBSET (1..UnitBudget)}
  BY <1>6
<1>8. DOMAIN rules = kept /\ \A i \in kept : rules[i] = build.found[i] /\ rules[i] \in Rules
  BY <1>5
<1> HIDE DEF rules
<1>9. Topic!Pack \in Topic!PackFiles
  BY <1>1, <1>2, <1>4, <1>7 DEF Topic!PackFiles
<1>10. Written(Topic!Pack, Topic!Arms[build.arm])
  <2> DEFINE p == Topic!Pack
  <2>1. /\ p.units = units /\ p.members = build.members /\ p.blocked = build.blocked
        /\ p.build = build.number /\ p.rules = rules
    BY <1>4
  <2> HIDE DEF p
  <2>2. \A i \in DOMAIN p.rules :
          /\ i \in 1..Len(p.units) /\ p.rules[i] \in Rules
          /\ cache[p.units[i]][UnitVideos[p.units[i]] \cap p.members] = p.rules[i]
    BY <1>6, <1>8, <2>1
  <2>3. p.build <= build.number
    BY <2>1, BuildFacts
  <2>4. p.units = Topic!SelectUnits(Topic!Arms[build.arm], p.members)
    BY <2>1 DEF units
  <2>5. p.members \cap p.blocked = {}
    BY <1>3, <2>1
  <2>6. Written(p, Topic!Arms[build.arm])
    BY <2>2, <2>3, <2>4, <2>5 DEF Written
  <2> QED BY <2>6 DEF p
<1> QED BY <1>4, <1>9, <1>10

(* What is saved or torn in place of an arm leaves the others what they were. *)
LEMMA TopicSave ==
  ASSUME PackAssumption, TopicInv, Topic!SaveArm
  PROVE  TopicInv'
<1> USE DEF TopicInv
<1> DEFINE arm == Topic!Arms[build.arm]
           next == IF build.arm < 3 THEN [build EXCEPT !.arm = @ + 1, !.found = <<>>]
                   ELSE [build EXCEPT !.at = "manifest", !.found = <<>>]
<1>1. /\ build \in Topic!Builds /\ build.at = "units" /\ build.arm \in 1..3
      /\ build.number \in Nat /\ arm \in Topic!ArmNames
      /\ arms' = [arms EXCEPT ![arm] = Topic!Pack] /\ build' = next
      /\ UNCHANGED <<blocked, packManifest, cache, faults, request, wish, raced>>
  BY TopicConstants, BuildFacts DEF Topic!SaveArm, Topic!Arm
<1>2. /\ Topic!Pack \in Topic!PackFiles /\ Topic!Pack.build = build.number
      /\ Topic!Pack.members = build.members /\ Written(Topic!Pack, arm) /\ Topic!Pack # Absent
  BY <1>1, PackIsWritten DEF PackAssumption, Topic!AbsentAssumption
<1>3. /\ next \in Topic!Builds /\ next.number = build.number /\ next.pins = build.pins
      /\ next.blocked = build.blocked /\ next.members = build.members /\ next.found = <<>>
      /\ \/ build.arm < 3 /\ next.at = "units" /\ next.arm = build.arm + 1
         \/ build.arm = 3 /\ next.at = "manifest"
  <2>1. <<>> \in Seq(Rules \cup {Silent, Absent})
    OBVIOUS
  <2>2. CASE build.arm < 3
    <3>0. Len(Topic!Arms) = 3
      BY TopicConstants
    <3>1. build.arm + 1 \in 1..Len(Topic!Arms)
      BY <1>1, <2>2, <3>0
    <3> QED BY <1>1, <2>1, <2>2, <3>1 DEF Topic!Builds
  <2>3. CASE ~(build.arm < 3)
    <3>1. build.arm = 3
      BY <1>1, <2>3
    <3> QED BY <1>1, <2>1, <2>3, <3>1 DEF Topic!Builds
  <2> QED BY <2>2, <2>3
<1> HIDE DEF next
<1>4. Topic!TypeOK'
  BY <1>1, <1>2, <1>3 DEF Topic!TypeOK
<1>5. TopicPins'
  BY <1>1, <1>3 DEF TopicPins, Topic!Building, Topic!Holding
<1>6. TopicOrder'
  <2>1. \A a \in Topic!ArmNames : Saved(a) \/ a = arm => Saved(a)'
    BY <1>1, <1>2, <1>3 DEF Saved, Topic!TypeOK
  <2>2. \A i \in 1..build.arm : Saved(Topic!Arms[i])'
    <3>1. \A i \in 1..build.arm : Topic!Arms[i] \in Topic!ArmNames
      BY <1>1, TopicConstants
    <3>2. \A i \in 1..build.arm : i = build.arm \/ i \in 1..(build.arm - 1)
      BY <1>1
    <3> QED BY <1>1, <2>1, <3>1, <3>2 DEF TopicOrder
  <2>3. /\ build'.at = "units" => \A i \in 1..(build'.arm - 1) : Saved(Topic!Arms[i])'
        /\ build'.at \in {"manifest", "writing"} => \A a \in Topic!ArmNames : Saved(a)'
    BY <1>1, <1>3, <2>2, TopicConstants
  <2>4. ASSUME NEW m, m.build \in Nat, Backed(m) PROVE Backed(m)'
    BY <1>1, <1>2, <1>3, <2>4 DEF Backed, Topic!TypeOK
  <2>5. \A m \in Topic!Manifests : m.build \in Nat
    BY TopicConstants DEF Topic!Manifests
  <2>6. /\ packManifest # TornFile => Backed(packManifest)'
        /\ \A r \in Requests : Backed(request[r].draft)'
    BY <1>1, <2>4, <2>5, CopiesAreBacked
  <2> QED BY <1>1, <2>3, <2>6 DEF TopicOrder
<1>7. TopicFiles'
  <2>0. PICK p \in Topic!PackFiles, own \in Topic!ArmNames : p = Topic!Pack /\ own = arm
    BY <1>1, <1>2
  <2>1. /\ Written(p, own)' /\ arms'[own] = p /\ p.build = build.number
        /\ p.members = build.members
    BY <1>1, <1>2, <1>3, <2>0 DEF Written, Topic!TypeOK
  <2>2. ASSUME NEW a \in Topic!ArmNames, a # own, OnDisk(a)'
        PROVE  OnDisk(a) /\ Written(arms[a], a)' /\ arms'[a] = arms[a]
    <3>1. arms'[a] = arms[a] /\ OnDisk(a)
      BY <1>1, <2>0, <2>2 DEF OnDisk, Topic!TypeOK
    <3>2. Written(arms[a], a)
      BY <3>1 DEF TopicFiles
    <3>3. cache' = cache /\ build'.number = build.number
      BY <1>1, <1>3
    <3> QED BY <3>1, <3>2, <3>3 DEF Written
  <2> QED BY <1>1, <1>3, <2>1, <2>2 DEF TopicFiles, Topic!Building
<1>8. TopicBuild'
  <2>1. build'.found = <<>> /\ Len(build'.found) = 0
    BY <1>1, <1>3
  <2>2. build'.at = "units" => Len(Topic!SelectUnits(Topic!Arms[build'.arm], build'.members)) >= 0
    <3>1. \A S \in SUBSET Videos, a \in Topic!ArmNames : Len(Topic!SelectUnits(a, S)) >= 0
      BY ArmsOfOneLength
    <3>2. build'.arm \in 1..3 /\ build'.members \in SUBSET Videos
      BY <1>1, <1>3, TopicConstants DEF Topic!Builds
    <3> QED BY <3>1, <3>2, TopicConstants
  <2>3. build'.at = "units" =>
          Remembered(build.found, Topic!SelectUnits(Topic!Arms[build.arm], build.members), build.members)'
    BY <2>1, <2>2 DEF Remembered
  <2> QED BY <1>1, <1>3, <2>3 DEF TopicBuild, Topic!Building
<1> QED BY <1>4, <1>5, <1>6, <1>7, <1>8

LEMMA TopicManifest ==
  ASSUME PackAssumption, TopicInv, Topic!BeginManifest \/ Topic!EndManifest
  PROVE  TopicInv'
<1> USE DEF TopicInv
<1>1. CASE Topic!BeginManifest
  <2> DEFINE b == [build EXCEPT !.at = "writing"]
  <2>1. /\ b \in Topic!Builds /\ b.at = "writing" /\ b.number = build.number /\ b.pins = build.pins
        /\ b.blocked = build.blocked /\ b.members = build.members
    BY BuildFacts DEF Topic!Builds
  <2>2. /\ build.at = "manifest" /\ build' = b /\ packManifest' = TornFile
        /\ UNCHANGED <<blocked, arms, cache, faults, request, wish, raced>>
    BY <1>1 DEF Topic!BeginManifest
  <2> HIDE DEF b
  <2>3. Topic!TypeOK'
    BY <2>1, <2>2 DEF Topic!TypeOK
  <2>4. TopicPins'
    BY <2>1, <2>2 DEF TopicPins, Topic!Building, Topic!Holding
  <2>5. TopicOrder'
    BY <2>1, <2>2 DEF TopicOrder, Backed, Saved
  <2>6. TopicFiles' /\ TopicBuild'
    <3>1. \A a : Written(arms[a], a) => Written(arms[a], a)'
      BY <2>1, <2>2 DEF Written
    <3> QED BY <2>1, <2>2, <3>1 DEF TopicFiles, OnDisk, TopicBuild, Topic!Building
  <2> QED BY <2>3, <2>4, <2>5, <2>6
<1>2. CASE Topic!EndManifest
  <2> DEFINE b == [Topic!NoBuild EXCEPT !.number = build.number]
             m == [pins |-> build.pins, build |-> build.number]
  <2>1. b \in Topic!Builds /\ b.at = "idle" /\ b.number = build.number /\ b.members = {}
    <3>1. build.number \in 0..MaxBuilds
      BY BuildFacts DEF Topic!Builds
    <3> QED BY <3>1, TopicConstants DEF Topic!NoBuild, Topic!Builds
  <2>2. m \in Topic!Manifests /\ m.pins = build.pins /\ m.build = build.number
    BY BuildFacts DEF Topic!Manifests, Topic!Builds
  <2>3. /\ build.at = "writing" /\ build' = b /\ packManifest' = m
        /\ UNCHANGED <<blocked, arms, cache, faults, request, wish, raced>>
    BY <1>2 DEF Topic!EndManifest, Topic!BuiltManifest
  <2> HIDE DEF b, m
  <2>4. Topic!TypeOK'
    BY <2>1, <2>2, <2>3 DEF Topic!TypeOK
  <2>5. TopicPins'
    BY <2>1, <2>2, <2>3 DEF TopicPins, Topic!Building, Topic!Holding
  <2>6. TopicOrder'
    <3>1. /\ build.number \in Nat /\ build'.number = build.number
          /\ \A a \in Topic!ArmNames : Saved(a)
      BY <2>1, <2>3, BuildFacts DEF TopicOrder
    <3>2. Backed(packManifest)'
      BY <2>2, <2>3, <3>1 DEF Backed, Saved
    <3>3. \A r \in Requests : Backed(request[r].draft)'
      BY <2>3, <3>1 DEF TopicOrder, Backed
    <3> QED BY <2>1, <2>3, <3>2, <3>3 DEF TopicOrder
  <2>7. TopicFiles' /\ TopicBuild'
    <3>1. \A a : Written(arms[a], a) => Written(arms[a], a)'
      BY <2>1, <2>3 DEF Written
    <3> QED BY <2>1, <2>3, <3>1 DEF TopicFiles, OnDisk, TopicBuild, Topic!Building
  <2> QED BY <2>4, <2>5, <2>6, <2>7
<1> QED BY <1>1, <1>2

(* A kill tears at most the call or the arm it was writing, of which nothing  *)
(* is used again.                                                             *)
LEMMA TopicKill ==
  ASSUME PackAssumption, TopicInv, Topic!Kill
  PROVE  TopicInv'
<1> USE DEF TopicInv
<1> DEFINE b == [Topic!NoBuild EXCEPT !.number = build.number]
           own == Topic!Arms[build.arm]
<1>1. b \in Topic!Builds /\ b.at = "idle" /\ b.number = build.number /\ b.members = {}
  <2>1. build.number \in 0..MaxBuilds
    BY BuildFacts DEF Topic!Builds
  <2> QED BY <2>1, TopicConstants DEF Topic!NoBuild, Topic!Builds
<1>2. /\ build' = b /\ UNCHANGED <<blocked, packManifest, request, wish, raced>>
      /\ faults < MaxFaults /\ faults' = faults + 1
  BY DEF Topic!Kill
<1> HIDE DEF b
<1>3. /\ arms' = arms \/ arms' = [arms EXCEPT ![own] = TornFile]
      /\ arms' \in [Topic!ArmNames -> Topic!PackFiles \cup {Absent, TornFile}]
      /\ \A a \in Topic!ArmNames : arms'[a] = arms[a] \/ arms'[a] = TornFile
  <2>1. arms' = arms \/ arms' = [arms EXCEPT ![own] = TornFile]
    BY DEF Topic!Kill, Topic!Arm
  <2> QED BY <2>1, BuildFacts DEF Topic!TypeOK
<1>4. /\ DOMAIN cache' = Units
      /\ \A u \in Units : cache'[u] \in [SUBSET UnitVideos[u] -> Rules \cup {Silent, Absent, TornFile}]
      /\ \A u \in Units : \A seen \in SUBSET UnitVideos[u] : cache[u][seen] \in Rules =>
           cache'[u][seen] = cache[u][seen]
  <2>1. /\ DOMAIN cache = Units
        /\ \A u \in Units : cache[u] \in [SUBSET UnitVideos[u] -> Rules \cup {Silent, Absent, TornFile}]
        /\ Absent \notin Rules /\ TornFile \notin Rules
    BY DEF Topic!TypeOK, PackAssumption, Topic!BoundsAssumption
  <2>2. CASE cache' = cache
    BY <2>1, <2>2
  <2>3. CASE cache' # cache
    <3>1. /\ cache' = [cache EXCEPT ![Topic!Unit][Topic!Seen] = TornFile] /\ Topic!Pending
          /\ cache[Topic!Unit][Topic!Seen] \in {Absent, TornFile}
      BY <2>3 DEF Topic!Kill, Topic!Row
    <3>2. Topic!Unit \in Units /\ Topic!Seen \in SUBSET UnitVideos[Topic!Unit]
      BY <3>1, BuildFacts
    <3> QED BY <2>1, <3>1, <3>2
  <2> QED BY <2>2, <2>3
<1>5. Topic!TypeOK'
  <2>1. faults' \in 0..MaxFaults
    BY <1>2, TopicConstants DEF Topic!TypeOK
  <2> QED BY <1>1, <1>2, <1>3, <1>4, <2>1 DEF Topic!TypeOK
<1>6. TopicPins'
  BY <1>1, <1>2 DEF TopicPins, Topic!Building, Topic!Holding
<1>7. TopicOrder'
  <2>1. TornFile # Absent
    BY DEF PackAssumption, Topic!BoundsAssumption
  <2>2. ASSUME NEW m, Backed(m) PROVE Backed(m)'
    BY <1>1, <1>2, <1>3, <2>1, <2>2 DEF Backed
  <2>3. /\ packManifest # TornFile => Backed(packManifest)'
        /\ \A r \in Requests : Backed(request[r].draft)'
    BY <1>1, <1>2, <1>3, <2>1 DEF TopicOrder, Backed
  <2> QED BY <1>1, <1>2, <2>3 DEF TopicOrder
<1>8. TopicFiles'
  <2>1. ASSUME NEW a \in Topic!ArmNames, OnDisk(a)'
        PROVE  OnDisk(a) /\ arms'[a] = arms[a] /\ Written(arms[a], a)'
    <3>1. OnDisk(a) /\ arms'[a] = arms[a]
      BY <1>3, <2>1 DEF OnDisk
    <3>2. PICK p \in Topic!PackFiles : p = arms[a]
      BY <3>1 DEF OnDisk, Topic!TypeOK
    <3>3. Written(p, a) /\ p.units \in Seq(Units)
      BY <3>1, <3>2 DEF TopicFiles, Topic!PackFiles
    <3>4. ASSUME NEW i \in DOMAIN p.rules
          PROVE  cache'[p.units[i]][UnitVideos[p.units[i]] \cap p.members] = p.rules[i]
      <4>1. /\ i \in 1..Len(p.units) /\ p.rules[i] \in Rules
            /\ cache[p.units[i]][UnitVideos[p.units[i]] \cap p.members] = p.rules[i]
        BY <3>3, <3>4 DEF Written
      <4>2. p.units[i] \in Units
        BY <3>3, <4>1
      <4> QED BY <1>4, <4>1, <4>2
    <3>5. build'.number = build.number
      BY <1>1, <1>2
    <3>6. Written(p, a)'
      BY <3>3, <3>4, <3>5 DEF Written
    <3> QED BY <3>1, <3>2, <3>6
  <2> QED BY <1>1, <1>2, <2>1 DEF TopicFiles, Topic!Building
<1>9. TopicBuild'
  BY <1>1, <1>2 DEF TopicBuild, Topic!Building
<1> QED BY <1>5, <1>6, <1>7, <1>8, <1>9

LEMMA TopicStep == ASSUME PackAssumption, TopicInv, [Topic!Next]_(Topic!vars) PROVE TopicInv'
<1>1. CASE \E r \in Requests, v \in Videos, choice \in Topic!Decisions : Topic!Pin(r, v, choice)
  BY <1>1, TopicPin
<1>2. CASE \E r \in Requests : Topic!BeginPin(r) \/ Topic!EndPin(r)
  BY <1>2, TopicWrite
<1>3. CASE \E v \in Videos \ blocked : Topic!Exclude(v)
  BY <1>3, TopicExclude
<1>4. CASE \E routed \in SUBSET Videos : Topic!Start(routed)
  BY <1>4, TopicStart
<1>5. CASE Topic!BuildStep
  BY <1>5, TopicCall, TopicSave, TopicManifest DEF Topic!BuildStep
<1>6. CASE Topic!Kill
  BY <1>6, TopicKill
<1>7. CASE UNCHANGED Topic!vars
  <2>1. UNCHANGED <<blocked, packManifest, arms, cache, build, faults, request, wish, raced>>
    BY <1>7 DEF Topic!vars
  <2>2. Topic!TypeOK'
    BY <2>1 DEF TopicInv, Topic!TypeOK
  <2>3. TopicPins'
    BY <2>1 DEF TopicInv, TopicPins, Topic!Building, Topic!Holding
  <2>4. TopicOrder'
    BY <2>1 DEF TopicInv, TopicOrder, Backed, Saved
  <2>5. TopicFiles'
    BY <2>1 DEF TopicInv, TopicFiles, Written, OnDisk, Topic!Building
  <2>6. TopicBuild'
    BY <2>1 DEF TopicInv, TopicBuild, Remembered, Topic!Building
  <2> QED BY <2>2, <2>3, <2>4, <2>5, <2>6 DEF TopicInv
<1> QED BY <1>1, <1>2, <1>3, <1>4, <1>5, <1>6, <1>7 DEF Topic!Next

-----------------------------------------------------------------------------
(* The theorems about a topic's packs.                                        *)

(* ExpertPacks is instantiated over the state of TopicPacks, so that its       *)
(* assumptions are the ones made there, and its properties the ones stated.   *)
LEMMA PacksAssumed == PackAssumption
<1>1. Topic!BoundsAssumption
  BY BoundsAssumption DEF Topic!BoundsAssumption
<1>2. Topic!PoolAssumption
  BY PoolAssumption DEF Topic!PoolAssumption, Range, Topic!Range, IsInjective, Topic!IsInjective
<1>3. Topic!AbsentAssumption
  BY AbsentAssumption DEF Topic!AbsentAssumption, Topic!PackFiles, PackFiles
<1> QED BY <1>1, <1>2, <1>3 DEF PackAssumption

LEMMA SamePacks ==
  /\ Topic!BlockedStayOut => BlockedStayOut
  /\ Topic!PinsKept => PinsKept
  /\ Topic!ManifestNotAhead => ManifestNotAhead
  /\ Topic!ArmsSpendAlike => ArmsSpendAlike
  /\ Topic!OneCallOneRule => OneCallOneRule
<1>1. Topic!Packs = Packs /\ Topic!ArmNames = ArmNames
  BY DEF Topic!Packs, Packs, Topic!ArmNames, ArmNames
<1>2. Topic!BlockedStayOut => BlockedStayOut
  BY <1>1 DEF Topic!BlockedStayOut, BlockedStayOut
<1>3. Topic!PinsKept => PinsKept
  BY DEF Topic!PinsKept, PinsKept
<1>4. Topic!ManifestNotAhead => ManifestNotAhead
  BY <1>1 DEF Topic!ManifestNotAhead, ManifestNotAhead
<1>5. Topic!ArmsSpendAlike => ArmsSpendAlike
  BY <1>1 DEF Topic!ArmsSpendAlike, ArmsSpendAlike
<1>6. Topic!OneCallOneRule => OneCallOneRule
  BY <1>1 DEF Topic!OneCallOneRule, OneCallOneRule
<1> QED BY <1>2, <1>3, <1>4, <1>5, <1>6

(* The inductive invariant of a topic's packs: who holds the pins, which arms  *)
(* are saved, and that packs and calls agree.                                 *)
THEOREM TopicInvariance == Topic!Spec => []TopicInv
<1>1. Topic!Init => TopicInv
  BY TopicInit, PacksAssumed
<1>2. TopicInv /\ [Topic!Next]_(Topic!vars) => TopicInv'
  BY TopicStep, PacksAssumed
<1> QED BY <1>1, <1>2, PTL DEF Topic!Spec

(* What is on disk and in memory of a topic has its type: in particular no    *)
(* arm has more units than the budget.                                        *)
THEOREM PacksTyped == Topic!Spec => []Topic!TypeOK
<1>1. TopicInv => Topic!TypeOK
  BY DEF TopicInv
<1> QED BY <1>1, TopicInvariance, PTL

(* No pack holds a video its build found blocked (route_members).             *)
THEOREM PacksExcludeBlocked == Topic!Spec => []BlockedStayOut
<1>1. TopicInv => Topic!BlockedStayOut
  BY DEF TopicInv, TopicFiles, Written, OnDisk, Topic!BlockedStayOut, Topic!Packs
<1>2. TopicInv => BlockedStayOut
  BY <1>1, SamePacks
<1> QED BY <1>2, TopicInvariance, PTL

(* Pins outlive rebuilds and other pins that do not overlap them.             *)
THEOREM PinsOutliveBuilds == Topic!Spec => []PinsKept
<1>1. TopicInv => Topic!PinsKept
  BY DEF TopicInv, TopicPins, Topic!PinsKept
<1>2. TopicInv => PinsKept
  BY <1>1, SamePacks
<1> QED BY <1>2, TopicInvariance, PTL

(* The manifest is never ahead of the arms it speaks of (build_topic).        *)
THEOREM ManifestIsLast == Topic!Spec => []ManifestNotAhead
<1>1. TopicInv => Topic!ManifestNotAhead
  BY DEF TopicInv, TopicOrder, Backed, Topic!ManifestNotAhead
<1>2. TopicInv => ManifestNotAhead
  BY <1>1, SamePacks
<1> QED BY <1>2, TopicInvariance, PTL

(* The arms of one build that have a pool at all have as many units           *)
(* (shared_budget), whatever the pools are.                                   *)
THEOREM ArmsCompareAlike == Topic!Spec => []ArmsSpendAlike
<1>1. ASSUME TopicInv, PackAssumption PROVE Topic!ArmsSpendAlike
  <2>1. ASSUME NEW a \in Topic!ArmNames, NEW b \in Topic!ArmNames, OnDisk(a), OnDisk(b),
               arms[a].build = arms[b].build
        PROVE  \/ Len(arms[a].units) = Len(arms[b].units)
               \/ arms[a].units = <<>> \/ arms[b].units = <<>>
    <3>1. /\ arms[a].members \in SUBSET Videos /\ arms[b].members = arms[a].members
          /\ arms[a].units = Topic!SelectUnits(a, arms[a].members)
          /\ arms[b].units = Topic!SelectUnits(b, arms[a].members)
      BY <1>1, <2>1 DEF TopicInv, TopicFiles, Written, OnDisk, Topic!TypeOK, Topic!PackFiles
    <3>2. /\ arms[a].units \in Seq(Units) /\ arms[b].units \in Seq(Units)
          /\ \/ Len(arms[a].units) = 0 \/ Len(arms[b].units) = 0
             \/ Len(arms[a].units) = Len(arms[b].units)
      BY <1>1, <3>1, ArmsOfOneLength
    <3> QED BY <3>2, EmptySeq
  <2> QED BY <2>1 DEF Topic!ArmsSpendAlike, Topic!Packs, OnDisk
<1>2. TopicInv => ArmsSpendAlike
  BY <1>1, PacksAssumed, SamePacks
<1> QED BY <1>2, TopicInvariance, PTL

(* One unit over the same videos states one rule wherever a pack keeps one of *)
(* it (rubrics_for_unit).                                                     *)
THEOREM CallsAreRemembered == Topic!Spec => []OneCallOneRule
<1>1. TopicInv => Topic!OneCallOneRule
  <2> SUFFICES ASSUME TopicInv PROVE Topic!OneCallOneRule
    OBVIOUS
  <2>1. ASSUME NEW p \in Topic!Packs, NEW i \in DOMAIN p.rules
        PROVE  p.rules[i] = cache[p.units[i]][UnitVideos[p.units[i]] \cap p.members]
    <3>1. PICK a \in Topic!ArmNames : OnDisk(a) /\ p = arms[a]
      BY <2>1 DEF OnDisk, Topic!Packs
    <3>2. Written(p, a)
      BY <3>1 DEF TopicInv, TopicFiles
    <3> QED BY <2>1, <3>2 DEF Written
  <2>2. ASSUME NEW p \in Topic!Packs, NEW q \in Topic!Packs,
               NEW i \in DOMAIN p.rules, NEW j \in DOMAIN q.rules, p.units[i] = q.units[j],
               UnitVideos[p.units[i]] \cap p.members = UnitVideos[q.units[j]] \cap q.members
        PROVE  p.rules[i] = q.rules[j]
    <3>1. p.rules[i] = cache[p.units[i]][UnitVideos[p.units[i]] \cap p.members]
      BY <2>1
    <3>2. q.rules[j] = cache[q.units[j]][UnitVideos[q.units[j]] \cap q.members]
      BY <2>1
    <3> QED BY <2>2, <3>1, <3>2
  <2> QED BY <2>2 DEF Topic!OneCallOneRule
<1>2. TopicInv => OneCallOneRule
  BY <1>1, SamePacks
<1> QED BY <1>2, TopicInvariance, PTL
=============================================================================
