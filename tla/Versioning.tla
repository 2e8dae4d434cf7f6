------------------------------ MODULE Versioning ------------------------------
(***************************************************************************)
(* The build script that gives a firmware its version (versioning.py), as  *)
(* the build runs it for development builds: a build of what is in the     *)
(* workspace gets the number of the last tracked build, if that is the     *)
(* same, or the next one; the compiler takes the number from version.h,    *)
(* which all variants share; and what was compiled is kept in the          *)
(* directory of its number.                                                *)
(*                                                                         *)
(* A tag is its place in the order of tags, and stands for its base        *)
(* version.  A development version is a base version and a counter.        *)
(***************************************************************************)
EXTENDS Naturals, FiniteSets

CONSTANTS
  Workspaces,       \* what can be built: last tag; branch, commit, changes
  GitSees,          \* external: what git tells of a source (GitInfo.from_ws).
                    \* `git diff` leaves staged changes and new files out.
  Prefixes,         \* pairs of tags: the first, as a string, begins the second
  Variants,
  CounterReset,     \* 255 in the code: the counter that is set to 1 instead
  MaxTracked        \* bound: the tracked builds

\* The tags, in the order of their versions
Tags == {w.tag : w \in Workspaces}

ASSUME VersioningAssumption ==
  /\ Tags \subseteq Nat /\ Tags # {} /\ CounterReset \in Nat \ {0, 1}
  /\ MaxTracked \in Nat
  /\ \A w \in Workspaces : w.source \in DOMAIN GitSees
  /\ Prefixes \subseteq Tags \X Tags /\ \A p \in Prefixes : p[1] < p[2]

VARIABLES
  lastTag, source,  \* the workspace: git describe, and all else in it
  tracked,          \* dev_tracking: the record and the binary of each version
  header,           \* version.h
  compiled,         \* the build directory: each variant's binary, by the
                    \* version it reports and the source it was compiled from
  workflow          \* how far a variant came without anything in between

versioningVars == <<lastTag, source, tracked, header, compiled, workflow>>

Versions == [tag : Tags, counter : 0 .. CounterReset - 1]
NoBinary == [version |-> [tag |-> 0, counter |-> 0], source |-> "none"]

VersioningInit ==
  /\ \E w \in Workspaces : lastTag = w.tag /\ source = w.source
  /\ tracked = [v \in {} |-> 0]
  /\ header = [tag |-> lastTag, counter |-> 0]
  /\ compiled = [b \in Variants |-> NoBinary]
  /\ workflow = <<>>

-----------------------------------------------------------------------------
(***************************************************************************)
(* track_dev_build                                                         *)
(***************************************************************************)
Precedes(v, w) == v.tag < w.tag \/ (v.tag = w.tag /\ v.counter < w.counter)

\* latest: the greatest of the directories whose name begins with the tag's
OfTag == {v \in DOMAIN tracked : v.tag = lastTag \/ <<lastTag, v.tag>> \in Prefixes}
Latest == {v \in OfTag : \A w \in OfTag : ~Precedes(v, w)}

CounterInc(v) ==
  [v EXCEPT !.counter = IF v.counter + 1 = CounterReset THEN 1 ELSE v.counter + 1]

\* TrackedDevBuild: the variant and GitInfo
Record(variant) == [variant |-> variant, tag |-> lastTag, source |-> GitSees[source]]

\* TrackedDevBuild.__eq__ leaves the time of the build out.
SameBuildAndTime(v, variant) == FALSE
SameBuild(v, variant) == tracked[v].build = Record(variant)

SameAsLatest(variant) == \E v \in Latest : SameBuild(v, variant)

\* The number of the build, the last one or the next
VersionOf(variant) ==
  IF Latest = {} THEN CounterInc([tag |-> lastTag, counter |-> 0])
  ELSE LET last == CHOOSE v \in Latest : TRUE
       IN IF SameBuild(last, variant) THEN last ELSE CounterInc(last)

\* store: the script ends when the directory of the next number is there.
CanTrackOverwriting(variant) == VersionOf(variant) \in Versions
CanTrack(variant) == SameAsLatest(variant) \/ VersionOf(variant) \notin DOMAIN tracked
Bounded == Cardinality(DOMAIN tracked') <= MaxTracked

TrackDevBuild(variant) ==
  IF SameAsLatest(variant) THEN tracked
  ELSE [v \in DOMAIN tracked \cup {VersionOf(variant)} |->
          IF v # VersionOf(variant) THEN tracked[v]
          ELSE [build |-> Record(variant), binary |-> NoBinary]]

-----------------------------------------------------------------------------
\* set_firmware_version with --track, which comes before the compilation
Build(variant) ==
  /\ CanTrack(variant)
  /\ tracked' = TrackDevBuild(variant) /\ Bounded
  /\ header' = VersionOf(variant)
  /\ workflow' = <<"built", variant>>
  /\ UNCHANGED <<lastTag, source, compiled>>

\* Without --track the counter stays 0.
BuildUntracked ==
  /\ header' = [tag |-> lastTag, counter |-> 0]
  /\ workflow' = <<>>
  /\ UNCHANGED <<lastTag, source, tracked, compiled>>

Compile(variant) ==
  /\ compiled' = [compiled EXCEPT ![variant] = [version |-> header, source |-> source]]
  /\ workflow' = IF workflow = <<"built", variant>> THEN <<"compiled", variant>> ELSE workflow
  /\ UNCHANGED <<lastTag, source, tracked, header>>

\* install_targets: the number is looked up again, and the binaries in the
\* build directory are copied there, if there are any, whatever they report.
Track(variant) ==
  /\ CanTrack(variant)
  /\ tracked' = [TrackDevBuild(variant) EXCEPT ![VersionOf(variant)].binary =
                   IF compiled[variant] = NoBinary THEN @ ELSE compiled[variant]]
  /\ Bounded
  /\ workflow' = IF workflow = <<"compiled", variant>> THEN workflow ELSE <<>>
  /\ UNCHANGED <<lastTag, source, header, compiled>>

\* The workspace changes, or another tag becomes the last one.
Edit ==
  /\ \E w \in Workspaces :
       /\ w # [tag |-> lastTag, source |-> source]
       /\ lastTag' = w.tag /\ source' = w.source
  /\ workflow' = <<>>
  /\ UNCHANGED <<tracked, header, compiled>>

VersioningNext ==
  \/ \E b \in Variants : Build(b) \/ Compile(b) \/ Track(b)
  \/ BuildUntracked \/ Edit

VersioningSpec == VersioningInit /\ [][VersioningNext]_versioningVars

-----------------------------------------------------------------------------
\* The record of a number stays: no step takes it away or stores another one
\* in its place, when the counter starts again and when the tags of two base
\* versions are mistaken for each other.  A record is the variant and what git
\* tells of the workspace; the binary beside it is not kept, since a
\* workspace that git does not tell apart from it has the same record.
VersionStaysWithBuild ==
  [][\A v \in DOMAIN tracked :
       v \in DOMAIN tracked' /\ tracked'[v].build = tracked[v].build]_versioningVars

\* A binary that is built, compiled and tracked in this order, with nothing
\* else in between, is kept under the number that it reports, with the source
\* it was compiled from: the second look-up finds the number of the first.
TrackedUnderItsVersion ==
  [][\A b \in Variants : workflow = <<"compiled", b>> /\ Track(b) =>
       tracked'[VersionOf(b)].binary
         = [version |-> VersionOf(b), source |-> source]]_versioningVars
=============================================================================
