-------------------------- MODULE Versioning_proofs --------------------------
(***************************************************************************)
(* Proofs about Versioning, for every set of workspaces, tags, prefixes    *)
(* and variants, and whatever the counter is reset at.  The key is that    *)
(* tracking a build does not change the number it gets: the second look-up *)
(* of a workflow finds what the first one stored, or fails.                *)
(***************************************************************************)
EXTENDS Versioning, TLAPS

Numbers == [tag : Tags, counter : Nat \ {0}]
Stored(r) == r = [build |-> r.build, binary |-> r.binary]

VersioningTypes ==
  /\ lastTag \in Tags
  /\ DOMAIN tracked \subseteq Numbers
  /\ tracked = [v \in DOMAIN tracked |-> tracked[v]]
  /\ \A v \in DOMAIN tracked : Stored(tracked[v])
  /\ DOMAIN compiled = Variants /\ compiled = [b \in Variants |-> compiled[b]]

\* What a workflow has arrived at: version.h holds the number that the build
\* still has, and what was compiled has it too.
OnItsWay(b) ==
  b \in Variants /\ header = VersionOf(b) /\ VersionOf(b) \in DOMAIN tracked

VersioningInv ==
  /\ VersioningTypes
  /\ \A b : workflow = <<"built", b>> => OnItsWay(b)
  /\ \A b : workflow = <<"compiled", b>> =>
       OnItsWay(b) /\ compiled[b] = [version |-> VersionOf(b), source |-> source]

-----------------------------------------------------------------------------
(***************************************************************************)
(* The numbers                                                             *)
(***************************************************************************)
LEMMA LatestIsOne ==
  ASSUME VersioningTypes, NEW u \in Latest, NEW v \in Latest
  PROVE  u = v
<1>1. u \in Numbers /\ v \in Numbers /\ u \in OfTag /\ v \in OfTag
  BY DEF VersioningTypes, Latest, OfTag
<1>2. u.tag \in Nat /\ v.tag \in Nat /\ u.counter \in Nat /\ v.counter \in Nat
  BY <1>1, VersioningAssumption DEF Numbers
<1>3. ~Precedes(u, v) /\ ~Precedes(v, u)
  BY <1>1 DEF Latest
<1>4. u.tag = v.tag /\ u.counter = v.counter
  BY <1>2, <1>3 DEF Precedes
<1>5. QED BY <1>1, <1>4 DEF Numbers

LEMMA IncIsNumber ==
  ASSUME NEW t \in Tags, NEW c \in Nat
  PROVE  /\ CounterInc([tag |-> t, counter |-> c]) \in Numbers
         /\ CounterInc([tag |-> t, counter |-> c]).tag = t
  BY DEF CounterInc, Numbers

\* The number of a build, case by case
NumberLaw ==
  \A b :
    /\ Latest = {} => VersionOf(b) = CounterInc([tag |-> lastTag, counter |-> 0])
    /\ \A v \in Latest : VersionOf(b) = IF SameBuild(v, b) THEN v ELSE CounterInc(v)

LEMMA NumberIs == VersioningTypes => NumberLaw
<1> SUFFICES ASSUME VersioningTypes PROVE NumberLaw
  OBVIOUS
<1>1. ASSUME NEW b, NEW v \in Latest
      PROVE  VersionOf(b) = IF SameBuild(v, b) THEN v ELSE CounterInc(v)
  <2>1. (CHOOSE u \in Latest : TRUE) \in Latest
    BY <1>1
  <2>2. (CHOOSE u \in Latest : TRUE) = v
    BY <1>1, <2>1, LatestIsOne
  <2>3. Latest # {}
    BY <1>1
  <2>4. QED BY <2>2, <2>3 DEF VersionOf
<1>2. QED BY <1>1 DEF NumberLaw, VersionOf

LEMMA NumberIsNext == VersioningTypes' => NumberLaw'
  BY NumberIs, PTL

LEMMA VersionOfIsNumber ==
  ASSUME VersioningTypes, NEW b
  PROVE  VersionOf(b) \in Numbers
<1>1. CASE Latest = {}
  BY <1>1, NumberIs, IncIsNumber DEF VersioningTypes, NumberLaw
<1>2. CASE Latest # {}
  <2>1. PICK v \in Latest : TRUE
    BY <1>2
  <2>2. v \in Numbers
    BY DEF VersioningTypes, Latest, OfTag
  <2>3. v = [tag |-> v.tag, counter |-> v.counter] /\ v.tag \in Tags /\ v.counter \in Nat
    BY <2>2 DEF Numbers
  <2>4. CounterInc(v) \in Numbers
    BY <2>3, IncIsNumber
  <2>5. QED BY <2>1, <2>2, <2>4, NumberIs DEF NumberLaw
<1>3. QED BY <1>1, <1>2

LEMMA SameIsTracked ==
  ASSUME VersioningTypes, NEW b, SameAsLatest(b)
  PROVE  VersionOf(b) \in DOMAIN tracked
<1>1. PICK v \in Latest : SameBuild(v, b)
  BY DEF SameAsLatest
<1>2. QED BY <1>1, NumberIs DEF NumberLaw, Latest, OfTag

\* What track_dev_build leaves: the old builds, and the one it was called for
LEMMA TrackedNow ==
  ASSUME VersioningTypes, NEW b, CanTrack(b)
  PROVE  LET t == TrackDevBuild(b) IN
         /\ DOMAIN t = DOMAIN tracked \cup {VersionOf(b)}
         /\ t = [v \in DOMAIN t |-> t[v]]
         /\ \A v \in DOMAIN tracked : t[v] = tracked[v]
         /\ ~SameAsLatest(b) =>
              /\ VersionOf(b) \notin DOMAIN tracked
              /\ t[VersionOf(b)] = [build |-> Record(b), binary |-> NoBinary]
         /\ \A v \in DOMAIN t : Stored(t[v])
<1>1. CASE SameAsLatest(b)
  BY <1>1, SameIsTracked DEF TrackDevBuild, VersioningTypes
<1>2. CASE ~SameAsLatest(b)
  BY <1>2 DEF TrackDevBuild, VersioningTypes, CanTrack, Stored
<1>3. QED BY <1>1, <1>2


-----------------------------------------------------------------------------
(***************************************************************************)
(* Tracking a build, or its binary, does not change its number.  When the  *)
(* counter starts again the new build is not the latest one, and its       *)
(* number is computed from the same build as before.                       *)
(***************************************************************************)
Tracks(b) ==
  /\ CanTrack(b) /\ UNCHANGED <<lastTag, source>>
  /\ DOMAIN tracked' = DOMAIN TrackDevBuild(b)
  /\ \A v \in DOMAIN tracked' : tracked'[v].build = TrackDevBuild(b)[v].build

LEMMA NumberStays ==
  ASSUME VersioningTypes, VersioningTypes', NEW b, Tracks(b)
  PROVE  VersionOf(b)' = VersionOf(b) /\ VersionOf(b) \in DOMAIN tracked'
<1>n. PICK n : n = VersionOf(b)
  OBVIOUS
<1>1. /\ DOMAIN tracked' = DOMAIN tracked \cup {n}
      /\ \A v \in DOMAIN tracked : tracked'[v].build = tracked[v].build
      /\ UNCHANGED <<lastTag, source>>
  BY <1>n, TrackedNow DEF Tracks
<1>2. \A v \in DOMAIN tracked : SameBuild(v, b)' <=> SameBuild(v, b)
  BY <1>1 DEF SameBuild, Record
<1>3. CASE SameAsLatest(b)
  <2>1. DOMAIN tracked' = DOMAIN tracked
    BY <1>n, <1>1, <1>3, SameIsTracked
  <2>2. OfTag' = OfTag
    BY <1>1, <2>1 DEF OfTag
  <2>3. Latest' = Latest
    BY <2>2 DEF Latest, Precedes
  <2>4. PICK v \in Latest : SameBuild(v, b)
    BY <1>3 DEF SameAsLatest
  <2>5. v \in Latest' /\ SameBuild(v, b)'
    BY <1>2, <2>3, <2>4 DEF Latest, OfTag
  <2>6. VersionOf(b) = v
    BY <2>4, NumberIs DEF NumberLaw
  <2>7. VersionOf(b)' = v
    BY <2>5, NumberIsNext DEF NumberLaw
  <2>8. QED BY <1>n, <1>1, <2>6, <2>7
<1>4. CASE ~SameAsLatest(b)
  <2>1. n \notin DOMAIN tracked /\ SameBuild(n, b)'
    <3>1. /\ n \notin DOMAIN tracked
          /\ TrackDevBuild(b)[n].build = Record(b)
      <4>1. /\ n \notin DOMAIN tracked
            /\ TrackDevBuild(b)[n] = [build |-> Record(b), binary |-> NoBinary]
        BY <1>n, <1>4, TrackedNow DEF Tracks
      <4>2. QED BY <4>1
    <3>2. tracked'[n].build = Record(b)
      BY <1>1, <3>1 DEF Tracks
    <3>3. QED BY <1>1, <3>1, <3>2 DEF SameBuild, Record
  <2>2. n.tag = lastTag \/ <<lastTag, n.tag>> \in Prefixes
    <3>1. CASE Latest = {}
      BY <1>n, <3>1, NumberIs, IncIsNumber DEF NumberLaw, VersioningTypes
    <3>2. CASE Latest # {}
      <4>1. PICK v \in Latest : TRUE
        BY <3>2
      <4>2. ~SameBuild(v, b)
        BY <1>4 DEF SameAsLatest
      <4>3. n = CounterInc(v)
        BY <1>n, <4>1, <4>2, NumberIs DEF NumberLaw
      <4>4. v \in Numbers /\ v \in OfTag
        BY DEF VersioningTypes, Latest, OfTag
      <4>5. n.tag = v.tag
        BY <4>3, <4>4 DEF CounterInc, Numbers
      <4>6. QED BY <4>4, <4>5 DEF OfTag
    <3>3. QED BY <3>1, <3>2
  <2>3. OfTag' = OfTag \cup {n}
    BY <1>1, <2>2 DEF OfTag
  <2>4. Latest' = {v \in OfTag \cup {n} : \A w \in OfTag \cup {n} : ~Precedes(v, w)}
    BY <2>3 DEF Latest, Precedes
  <2>5. n \in Latest' => VersionOf(b)' = n
    BY <2>1, NumberIsNext DEF NumberLaw
  <2>6. CASE Latest = {}
    <3>1. Latest' \subseteq {n}
      BY <2>4, <2>6 DEF Latest
    <3>2. CASE Latest' = {}
      BY <1>n, <1>1, <2>6, <3>2, NumberIs, NumberIsNext DEF NumberLaw, CounterInc
    <3>3. QED BY <1>n, <1>1, <2>5, <3>1, <3>2
  <2>7. CASE Latest # {}
    <3>1. PICK last \in Latest : TRUE
      BY <2>7
    <3>2. ~SameBuild(last, b) /\ last \in OfTag /\ last \in DOMAIN tracked
      BY <1>4 DEF SameAsLatest, Latest, OfTag
    <3>3. n = CounterInc(last)
      BY <1>n, <3>1, <3>2, NumberIs DEF NumberLaw
    <3>4. CASE Precedes(last, n)
      <4>1. ASSUME NEW w \in OfTag \cup {n} PROVE ~Precedes(n, w)
        <5>1. w \in Numbers /\ n \in Numbers /\ last \in Numbers
          BY <1>n, <3>2, VersionOfIsNumber DEF VersioningTypes, OfTag
        <5>2. w = n \/ ~Precedes(last, w)
          BY DEF Latest
        <5>3. /\ w.tag \in Nat /\ n.tag \in Nat /\ last.tag \in Nat
              /\ w.counter \in Nat /\ n.counter \in Nat /\ last.counter \in Nat
          BY <5>1, VersioningAssumption DEF Numbers
        <5>4. CASE w = n
          BY <5>3, <5>4 DEF Precedes
        <5>5. CASE ~Precedes(last, w)
          BY <3>4, <5>3, <5>5 DEF Precedes
        <5>6. QED BY <5>2, <5>4, <5>5
      <4>2. n \in Latest'
        BY <2>4, <4>1
      <4>3. QED BY <1>n, <1>1, <2>5, <4>2
    <3>5. CASE ~Precedes(last, n)
      <4>1. last \in Latest'
        BY <2>4, <3>2, <3>5 DEF Latest
      <4>2. ~SameBuild(last, b)'
        BY <1>2, <3>2
      <4>3. VersionOf(b)' = CounterInc(last)'
        BY <4>1, <4>2, NumberIsNext DEF NumberLaw, CounterInc
      <4>4. QED BY <1>n, <1>1, <3>3, <4>3 DEF CounterInc
    <3>6. QED BY <3>4, <3>5
  <2>8. QED BY <2>6, <2>7
<1>5. QED BY <1>3, <1>4


LEMMA NumberUnchanged ==
  ASSUME UNCHANGED <<lastTag, source, tracked>>, NEW b
  PROVE  VersionOf(b)' = VersionOf(b)
  BY DEF VersionOf, Latest, OfTag, SameBuild, Record, Precedes, CounterInc

\* What both actions that track do to dev_tracking
LEMMA BuildTracks ==
  ASSUME VersioningTypes, NEW b, Build(b)
  PROVE  VersioningTypes' /\ Tracks(b)
<1>1. CanTrack(b) /\ tracked' = TrackDevBuild(b) /\ UNCHANGED <<lastTag, source, compiled>>
  BY DEF Build
<1>2. DOMAIN tracked' \subseteq Numbers
  <2>1. DOMAIN TrackDevBuild(b) = DOMAIN tracked \cup {VersionOf(b)}
    BY <1>1, TrackedNow
  <2>2. VersionOf(b) \in Numbers
    BY VersionOfIsNumber
  <2>3. QED BY <1>1, <2>1, <2>2 DEF VersioningTypes
<1>3. tracked' = [v \in DOMAIN tracked' |-> tracked'[v]]
  BY <1>1, TrackedNow
<1>4. \A v \in DOMAIN tracked' : Stored(tracked'[v])
  BY <1>1, TrackedNow
<1>5. VersioningTypes'
  BY <1>1, <1>2, <1>3, <1>4 DEF VersioningTypes, Stored
<1>6. QED BY <1>1, <1>5 DEF Tracks

LEMMA TrackTracks ==
  ASSUME VersioningTypes, NEW b, Track(b)
  PROVE  VersioningTypes' /\ Tracks(b)
<1>1. PICK n, t, r : /\ n = VersionOf(b) /\ t = TrackDevBuild(b)
                     /\ r = IF compiled[b] = NoBinary THEN t[n].binary
                             ELSE compiled[b]
  OBVIOUS
<1>2. /\ CanTrack(b) /\ UNCHANGED <<lastTag, source, compiled>>
      /\ tracked' = [t EXCEPT ![n].binary = r]
  BY <1>1 DEF Track
<1>3. /\ DOMAIN t = DOMAIN tracked \cup {n}
      /\ t = [v \in DOMAIN t |-> t[v]]
      /\ \A v \in DOMAIN t : Stored(t[v])
  BY <1>1, <1>2, TrackedNow
<1>4. /\ DOMAIN tracked' = DOMAIN t
      /\ tracked' = [v \in DOMAIN tracked' |-> tracked'[v]]
      /\ tracked'[n] = [t[n] EXCEPT !.binary = r]
      /\ \A v \in DOMAIN t : v # n => tracked'[v] = t[v]
  BY <1>2, <1>3
<1>5. tracked'[n] = [build |-> t[n].build, binary |-> r]
  <2>1. PICK x, y : t[n] = [build |-> x, binary |-> y]
    BY <1>3 DEF Stored
  <2>2. QED BY <1>4, <2>1
<1>6. \A v \in DOMAIN t : Stored(tracked'[v]) /\ tracked'[v].build = t[v].build
  BY <1>3, <1>4, <1>5 DEF Stored
<1>7. DOMAIN tracked' \subseteq Numbers
  BY <1>1, <1>3, <1>4, VersionOfIsNumber DEF VersioningTypes
<1>8. VersioningTypes'
  BY <1>2, <1>4, <1>6, <1>7 DEF VersioningTypes, Stored
<1>9. QED BY <1>1, <1>2, <1>4, <1>6, <1>8 DEF Tracks

-----------------------------------------------------------------------------
(***************************************************************************)
(* The invariant                                                           *)
(***************************************************************************)
LEMMA VersioningStarts == VersioningInit => VersioningInv
  BY DEF VersioningInit, VersioningInv, VersioningTypes, Tags, OnItsWay

LEMMA VersioningKept ==
  VersioningInv /\ [VersioningNext]_versioningVars => VersioningInv'
<1> SUFFICES ASSUME VersioningInv, [VersioningNext]_versioningVars
             PROVE  VersioningInv'
  OBVIOUS
<1>0. VersioningTypes
  BY DEF VersioningInv
<1>1. ASSUME NEW c \in Variants, Build(c) PROVE VersioningInv'
  <2>1. VersioningTypes' /\ Tracks(c)
    BY <1>0, <1>1, BuildTracks
  <2>2. VersionOf(c)' = VersionOf(c) /\ VersionOf(c) \in DOMAIN tracked'
    BY <1>0, <2>1, NumberStays
  <2>3. header' = VersionOf(c) /\ workflow' = <<"built", c>>
    BY <1>1 DEF Build
  <2>4. OnItsWay(c)'
    BY <2>2, <2>3 DEF OnItsWay
  <2>5. QED BY <2>1, <2>3, <2>4 DEF VersioningInv
<1>2. ASSUME NEW c \in Variants, Compile(c) PROVE VersioningInv'
  <2>1. UNCHANGED <<lastTag, source, tracked, header>>
    BY <1>2 DEF Compile
  <2>2. \A b : VersionOf(b)' = VersionOf(b)
    BY <2>1, NumberUnchanged
  <2>3. \A b : OnItsWay(b) => OnItsWay(b)'
    BY <2>1, <2>2 DEF OnItsWay
  <2>4. VersioningTypes'
    BY <1>0, <1>2 DEF VersioningTypes, Compile, Stored
  <2>5. /\ compiled'[c] = [version |-> header, source |-> source]
        /\ \A b \in Variants : b # c => compiled'[b] = compiled[b]
    BY <1>0, <1>2 DEF Compile, VersioningTypes
  <2>6. ASSUME NEW b, workflow' = <<"built", b>> PROVE OnItsWay(b)'
    <3>1. workflow = <<"built", b>>
      BY <1>2, <2>6 DEF Compile
    <3>2. QED BY <2>3, <3>1 DEF VersioningInv
  <2>7. ASSUME NEW b, workflow' = <<"compiled", b>>
        PROVE  OnItsWay(b)' /\ compiled'[b] = [version |-> VersionOf(b)', source |-> source']
    <3>1. OnItsWay(b)
      <4>1. CASE workflow = <<"built", c>>
        BY <1>2, <2>7, <4>1 DEF Compile, VersioningInv
      <4>2. CASE workflow # <<"built", c>>
        BY <1>2, <2>7, <4>2 DEF Compile, VersioningInv
      <4>3. QED BY <4>1, <4>2
    <3>2. CASE b = c
      BY <2>1, <2>2, <2>3, <2>5, <3>1, <3>2 DEF OnItsWay
    <3>3. CASE b # c
      <4>1. workflow = <<"compiled", b>>
        BY <1>2, <2>7, <3>3 DEF Compile
      <4>2. QED BY <2>1, <2>2, <2>3, <2>5, <3>1, <3>3, <4>1 DEF VersioningInv, OnItsWay
    <3>4. QED BY <3>2, <3>3
  <2>8. QED BY <2>4, <2>6, <2>7 DEF VersioningInv
<1>3. ASSUME NEW c \in Variants, Track(c) PROVE VersioningInv'
  <2>1. VersioningTypes' /\ Tracks(c)
    BY <1>0, <1>3, TrackTracks
  <2>2. VersionOf(c)' = VersionOf(c) /\ VersionOf(c) \in DOMAIN tracked'
    BY <1>0, <2>1, NumberStays
  <2>3. CASE workflow = <<"compiled", c>>
    <3>1. workflow' = workflow /\ UNCHANGED <<source, header, compiled>>
      BY <1>3, <2>3 DEF Track
    <3>2. OnItsWay(c)' /\ compiled'[c] = [version |-> VersionOf(c)', source |-> source']
      BY <2>2, <2>3, <3>1 DEF VersioningInv, OnItsWay
    <3>3. QED BY <2>1, <2>3, <3>1, <3>2 DEF VersioningInv
  <2>4. CASE workflow # <<"compiled", c>>
    BY <1>3, <2>1, <2>4 DEF VersioningInv, Track
  <2>5. QED BY <2>3, <2>4
<1>4. CASE BuildUntracked
  BY <1>0, <1>4 DEF BuildUntracked, VersioningInv, VersioningTypes, Stored
<1>5. CASE Edit
  BY <1>0, <1>5 DEF Edit, VersioningInv, VersioningTypes, Stored, Tags
<1>6. CASE UNCHANGED versioningVars
  <2>1. \A b : VersionOf(b)' = VersionOf(b)
    BY <1>6, NumberUnchanged DEF versioningVars
  <2>2. \A b : OnItsWay(b) => OnItsWay(b)'
    BY <1>6, <2>1 DEF OnItsWay, versioningVars
  <2>3. VersioningTypes'
    BY <1>0, <1>6 DEF VersioningTypes, versioningVars, Stored
  <2>4. QED BY <1>6, <2>1, <2>2, <2>3 DEF VersioningInv, versioningVars
<1>7. QED BY <1>1, <1>2, <1>3, <1>4, <1>5, <1>6 DEF VersioningNext

LEMMA VersioningInvariant == VersioningSpec => []VersioningInv
<1>1. QED BY VersioningStarts, VersioningKept, PTL DEF VersioningSpec

-----------------------------------------------------------------------------
\* The record of a number stays for ever: no step of versioning.py takes a
\* version directory away or stores another record in it, with any tags and
\* prefixes, whatever git sees of the sources, and when the counter starts again.
THEOREM VersionKept == VersioningSpec => VersionStaysWithBuild
<1> DEFINE Stays == \A v \in DOMAIN tracked :
                      v \in DOMAIN tracked' /\ tracked'[v].build = tracked[v].build
<1>1. ASSUME VersioningInv, [VersioningNext]_versioningVars PROVE Stays
  <2>1. ASSUME NEW b \in Variants, Build(b) \/ Track(b) PROVE Stays
    <3>1. VersioningTypes /\ Tracks(b)
      BY <1>1, <2>1, BuildTracks, TrackTracks DEF VersioningInv
    <3>2. QED BY <3>1, TrackedNow DEF Tracks
  <2>2. CASE UNCHANGED tracked
    BY <2>2
  <2>3. ASSUME NEW b \in Variants, Compile(b) PROVE Stays
    BY <2>2, <2>3 DEF Compile
  <2>4. CASE BuildUntracked \/ Edit \/ UNCHANGED versioningVars
    BY <2>2, <2>4 DEF BuildUntracked, Edit, versioningVars
  <2>5. QED BY <1>1, <2>1, <2>3, <2>4 DEF VersioningNext
<1>2. QED BY <1>1, VersioningInvariant, PTL DEF VersioningSpec, VersionStaysWithBuild

\* What was built, compiled and tracked without anything in between is kept
\* under the number that the binary reports, with the source it was compiled
\* from: the second look-up of install_targets gives the same number.
THEOREM OwnBinaryTracked == VersioningSpec => TrackedUnderItsVersion
<1> DEFINE Own == \A b \in Variants : workflow = <<"compiled", b>> /\ Track(b) =>
                    tracked'[VersionOf(b)].binary
                      = [version |-> VersionOf(b), source |-> source]
<1>1. ASSUME VersioningInv PROVE Own
  <2> SUFFICES ASSUME NEW b \in Variants, workflow = <<"compiled", b>>, Track(b)
               PROVE  tracked'[VersionOf(b)].binary
                        = [version |-> VersionOf(b), source |-> source]
    OBVIOUS
  <2>1. PICK n, t : n = VersionOf(b) /\ t = TrackDevBuild(b)
    OBVIOUS
  <2>2. compiled[b] = [version |-> n, source |-> source] /\ n \in Numbers
    BY <1>1, <2>1, VersionOfIsNumber DEF VersioningInv
  <2>3. n.counter # 0
    BY <2>2 DEF Numbers
  <2>4. compiled[b] # NoBinary
    BY <2>2, <2>3 DEF NoBinary
  <2>5. CanTrack(b) /\ tracked' = [t EXCEPT ![n].binary = compiled[b]]
    BY <2>1, <2>4 DEF Track
  <2>6. n \in DOMAIN t /\ Stored(t[n])
    BY <1>1, <2>1, <2>5, TrackedNow DEF VersioningInv
  <2>7. tracked'[n] = [t[n] EXCEPT !.binary = compiled[b]]
    BY <2>5, <2>6
  <2>8. tracked'[n] = [build |-> t[n].build, binary |-> compiled[b]]
    BY <2>6, <2>7 DEF Stored
  <2>9. QED BY <2>1, <2>2, <2>8
<1>2. QED BY <1>1, VersioningInvariant, PTL DEF TrackedUnderItsVersion
=============================================================================
