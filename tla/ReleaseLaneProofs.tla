------------------------- MODULE ReleaseLaneProofs -------------------------
(***************************************************************************)
(* For any packages, releases, versions and builds: what the journals      *)
(* record is on the registry, latest moves only to a whole release,        *)
(* nothing is published twice, and a dispatch that ends has done all.      *)
(* And for any budget, pauses and attempts, what the lane asks npm: an     *)
(* absence is proven, and an operation stays within its budget.            *)
(***************************************************************************)
EXTENDS MCReleaseLane, TLAPS, FiniteSetTheorems

\* The read path never answers bytes that are not there.
ServedIsThere ==
  \A p \in Packages, v \in Versions :
    served[p].bytes[v] # None => now[p].bytes[v] = served[p].bytes[v]

\* After pack every package has its tarball.
AllPacked ==
  phase \notin {"idle", "pack"} => journal.packed \in [Packages -> Bytes]

\* The steps behind the verification of finalize.
Late == {"promote", "waiting", "drop", "removing", "removed", "tag", "releases"}

WholeRelease ==
  phase \in Late =>
    \A q \in Packages : now[q].bytes[Own(q)] = journal.packed[q]

LaneInv == TypeOK /\ ServedIsThere /\ RecordedIsThere /\ AllPacked /\ WholeRelease

\* What an action says of the registry and the marks, journal apart: types
\* kept, no bytes lost or replaced.
Kept ==
  /\ now' \in [Packages -> Entry] /\ served' \in [Packages -> Entry]
  /\ gitTag' \in Marks /\ gh' \in Marks /\ faults' \in 0..MaxFaults
  /\ ServedIsThere'
  /\ \A p \in Packages, v \in Versions :
       now[p].bytes[v] # None => now'[p].bytes[v] = now[p].bytes[v]

\* A journal that told the truth still does.
LEMMA TellsKept ==
  ASSUME TypeOK, Kept, NEW j \in Journals \cup {None}, Tells(j)
  PROVE  Tells(j)'
<1>1. CASE j = None
  BY <1>1 DEF Tells
<1>2. CASE j # None
  <2>1. SUFFICES ASSUME NEW p \in Packages, IsPublished(j.state[p])
                 PROVE  /\ j.packed[p] # None
                        /\ now'[p].bytes[VersionOf[j.sha][p]] = j.packed[p]
    BY <1>2 DEF Tells
  <2>2. /\ j.packed[p] # None
        /\ now[p].bytes[VersionOf[j.sha][p]] = j.packed[p]
    BY <1>2, <2>1 DEF Tells
  <2>3. j.sha \in Releases
    BY <1>2 DEF Journals
  <2>4. VersionOf[j.sha][p] \in Versions
    BY <2>3, LaneAssumption
  <2>. QED BY <2>2, <2>4 DEF Kept
<1>. QED BY <1>1, <1>2

\* A step inside the dispatch, or none.
LEMMA StayInv ==
  ASSUME LaneInv, Kept, uploaded' = uploaded,
         phase' \in Phases, at' \in Packages, prior' \in SUBSET Packages,
         journal' \in Journals \cup {None}, (journal' = None) = (phase' = "idle"),
         Tells(journal)', AllPacked', WholeRelease'
  PROVE  LaneInv'
<1>1. TypeOK'
  BY DEF LaneInv, TypeOK, Kept
<1>2. \A r \in Releases, d \in BOOLEAN : Tells(uploaded[r][d])'
  <2>1. SUFFICES ASSUME NEW r \in Releases, NEW d \in BOOLEAN
                 PROVE  Tells(uploaded[r][d])'
    OBVIOUS
  <2>2. uploaded[r][d] \in Journals \cup {None} /\ Tells(uploaded[r][d])
    BY DEF LaneInv, TypeOK, RecordedIsThere
  <2>3. ASSUME NEW j \in Journals \cup {None}, Tells(j) PROVE Tells(j)'
    BY <2>3, TellsKept DEF LaneInv
  <2>4. uploaded'[r][d] = uploaded[r][d]
    OBVIOUS
  <2>. QED BY <2>2, <2>3, <2>4 DEF Tells
<1>3. RecordedIsThere'
  BY <1>2 DEF RecordedIsThere
<1>. QED BY <1>1, <1>3 DEF LaneInv, Kept

LEMMA FinalTold ==
  ASSUME NEW j \in Journals, Tells(j)
  PROVE  Final(j) \in Journals /\ Tells(Final(j))
<1>. DEFINE packed == [p \in Packages |-> IF IsPublished(j.state[p]) THEN j.packed[p] ELSE None]
<1>1. packed \in [Packages -> Bytes \cup {None}]
  BY DEF Journals
<1>2. Final(j) = [j EXCEPT !.packed = packed]
  BY DEF Final
<1>3. /\ Final(j) \in Journals /\ Final(j).packed = packed
      /\ Final(j).state = j.state /\ Final(j).sha = j.sha /\ Final(j) # None
  <2>. HIDE DEF packed
  <2>1. /\ Final(j) \in Journals /\ Final(j).packed = packed
        /\ Final(j).state = j.state /\ Final(j).sha = j.sha
    BY <1>1, <1>2 DEF Journals
  <2>2. j # None
    BY NoJournalAssumption
  <2>. QED BY <2>1, NoJournalAssumption
<1>4. \A p \in Packages : IsPublished(j.state[p]) => packed[p] = j.packed[p]
  OBVIOUS
<1>. QED BY <1>3, <1>4, NoJournalAssumption DEF Tells

\* The job ended and its final journal was uploaded.
LEMMA EndInv ==
  ASSUME LaneInv, Kept, phase # "idle", End
  PROVE  LaneInv'
<1>. DEFINE J == Final(journal)
            row == [uploaded[journal.sha] EXCEPT ![journal.dry] = J]
<1>1. journal \in Journals /\ Tells(journal)
  BY DEF LaneInv, TypeOK, RecordedIsThere
<1>2. J \in Journals /\ Tells(J)
  BY <1>1, FinalTold
<1>3. journal.sha \in Releases /\ journal.dry \in BOOLEAN
  BY <1>1 DEF Journals
<1>4. uploaded \in [Releases -> [BOOLEAN -> Journals \cup {None}]]
  BY DEF LaneInv, TypeOK
<1>5. uploaded' = [uploaded EXCEPT ![journal.sha] = row]
  BY DEF End
<1>6. \A r \in Releases, d \in BOOLEAN :
        /\ uploaded'[r][d] \in {uploaded[r][d], J}
        /\ uploaded'[r][d] \in Journals \cup {None}
  <2>. HIDE DEF J
  <2>. QED BY <1>2, <1>3, <1>4, <1>5
<1>7. uploaded' \in [Releases -> [BOOLEAN -> Journals \cup {None}]]
  <2>. HIDE DEF J
  <2>1. row \in [BOOLEAN -> Journals \cup {None}]
    BY <1>2, <1>3, <1>4
  <2>. QED BY <2>1, <1>3, <1>4, <1>5
<1>8. /\ phase' = "idle" /\ at' = 1 /\ journal' = None /\ prior' = {}
  BY DEF End
<1>9. TypeOK'
  BY <1>7, <1>8, LaneAssumption DEF TypeOK, Kept, Phases, Packages
<1>10. \A r \in Releases, d \in BOOLEAN : Tells(uploaded[r][d])'
  <2>. HIDE DEF J
  <2>1. SUFFICES ASSUME NEW r \in Releases, NEW d \in BOOLEAN
                 PROVE  Tells(uploaded[r][d])'
    OBVIOUS
  <2>2. ASSUME NEW j \in Journals \cup {None}, Tells(j) PROVE Tells(j)'
    BY <2>2, TellsKept DEF LaneInv
  <2>3. Tells(uploaded[r][d]) /\ uploaded[r][d] \in Journals \cup {None}
    BY DEF LaneInv, RecordedIsThere, TypeOK
  <2>4. PICK j \in Journals \cup {None} : j = uploaded'[r][d] /\ Tells(j)
    BY <1>2, <1>6, <2>3
  <2>5. Tells(j)'
    BY <2>2, <2>4
  <2>. QED BY <2>4, <2>5 DEF Tells
<1>11. RecordedIsThere'
  BY <1>8, <1>10 DEF RecordedIsThere, Tells
<1>. QED BY <1>8, <1>9, <1>11 DEF LaneInv, Kept, AllPacked, WholeRelease, Late

\* Nothing outside the dispatch changed.
LEMMA KeptSame ==
  ASSUME LaneInv, UNCHANGED <<registry, gitTag, gh>>, faults' \in 0..MaxFaults
  PROVE  Kept
BY DEF LaneInv, TypeOK, Kept, registry, ServedIsThere

LEMMA ThrowInv == ASSUME LaneInv, phase # "idle", Throw PROVE LaneInv'
<1>1. Kept
  BY KeptSame DEF Throw, LaneInv, TypeOK
<1>. QED BY <1>1, EndInv DEF Throw

LEMMA FaultType == ASSUME LaneInv, Fault PROVE faults' \in 0..MaxFaults
BY LaneAssumption DEF LaneInv, TypeOK, Fault

LEMMA AdvanceAt ==
  ASSUME LaneInv, NEW ph, NEW after, Advance(ph, after)
  PROVE  at' \in Packages /\ phase' \in {ph, after}
BY LaneAssumption DEF LaneInv, TypeOK, Advance, Packages

\* What the registry held of a whole release it still holds.
LEMMA WholeKept ==
  ASSUME LaneInv, Kept, phase \notin {"idle", "pack"}, journal' = journal,
         \A q \in Packages : now[q].bytes[Own(q)] = journal.packed[q]
  PROVE  (\A q \in Packages : now[q].bytes[Own(q)] = journal.packed[q])'
<1>1. SUFFICES ASSUME NEW q \in Packages
               PROVE  now'[q].bytes[Own(q)'] = journal'.packed[q]
  OBVIOUS
<1>2. journal \in Journals /\ journal.packed[q] \in Bytes
  BY DEF LaneInv, TypeOK, AllPacked
<1>3. Own(q) \in Versions /\ Own(q)' = Own(q)
  BY <1>2, LaneAssumption DEF Own, Journals
<1>4. now[q].bytes[Own(q)] = journal.packed[q] /\ journal.packed[q] # None
  BY <1>2, LaneAssumption
<1>. QED BY <1>3, <1>4 DEF Kept

\* A step of the dispatch that leaves its journal alone.
LEMMA GoOn ==
  ASSUME LaneInv, Kept, UNCHANGED <<uploaded, prior, journal>>,
         phase \notin {"idle", "pack"}, phase' \in Phases \ {"idle"},
         at' \in Packages,
         phase' \in Late =>
           \/ phase \in Late
           \/ \A q \in Packages : now[q].bytes[Own(q)] = journal.packed[q]
  PROVE  LaneInv'
<1>1. journal \in Journals /\ Tells(journal) /\ journal.packed \in [Packages -> Bytes]
  BY DEF LaneInv, TypeOK, RecordedIsThere, AllPacked
<1>2. Tells(journal)'
  <2>1. ASSUME NEW j \in Journals \cup {None}, Tells(j) PROVE Tells(j)'
    BY <2>1, TellsKept DEF LaneInv
  <2>2. PICK j \in Journals \cup {None} : j = journal /\ Tells(j)
    BY <1>1
  <2>. QED BY <2>1, <2>2 DEF Tells
<1>3. WholeRelease'
  BY WholeKept DEF LaneInv, WholeRelease
<1>4. AllPacked'
  BY <1>1 DEF AllPacked
<1>. QED BY <1>1, <1>2, <1>3, <1>4, StayInv DEF LaneInv, TypeOK

LEMMA PreflightInv ==
  ASSUME LaneInv, NEW r \in Releases, NEW dry \in BOOLEAN,
         NEW j \in {None} \cup {uploaded[s][d] : s \in Releases, d \in BOOLEAN},
         Preflight(r, dry, j)
  PROVE  LaneInv'
<1>1. Kept
  BY KeptSame DEF Preflight, LaneInv, TypeOK
<1>2. j \in Journals \cup {None} /\ Tells(j)
  BY DEF LaneInv, TypeOK, RecordedIsThere, Tells
<1>3. CreateJournal(r, dry) \in Journals /\ \A p \in Packages : CreateJournal(r, dry).state[p] = "planned"
  BY DEF CreateJournal, Journals, States
<1>4. journal' \in Journals /\ prior' \in SUBSET Packages
  BY <1>2, <1>3 DEF Preflight
<1>5. PICK i \in Journals : i = journal' /\ Tells(i)
  BY <1>2, <1>3, <1>4 DEF Preflight, Tells, IsPublished
<1>6. Tells(journal)'
  <2>1. Tells(i)'
    BY <1>1, <1>5, TellsKept DEF LaneInv
  <2>. QED BY <1>5, <2>1 DEF Tells
<1>7. phase' = "pack" /\ at' = at /\ uploaded' = uploaded
  BY DEF Preflight
<1>8. AllPacked' /\ WholeRelease'
  BY <1>7 DEF AllPacked, WholeRelease, Late
<1>. QED BY <1>1, <1>4, <1>6, <1>7, <1>8, NoJournalAssumption, StayInv DEF LaneInv, TypeOK, Phases

LEMMA PackInv ==
  ASSUME LaneInv, NEW built \in [Packages -> Bytes], Pack(built)
  PROVE  LaneInv'
<1>. DEFINE state == [p \in Packages |-> Packed(p, built[p])]
<1>1. Kept
  BY KeptSame DEF Pack, LaneInv, TypeOK
<1>2. journal \in Journals
  BY DEF LaneInv, TypeOK, Pack
<1>3. state \in [Packages -> States]
  BY DEF Packed, States
<1>4. /\ journal' \in Journals /\ journal'.state = state /\ journal'.packed = built
      /\ journal'.sha = journal.sha
  <2>. HIDE DEF state
  <2>1. journal' = [journal EXCEPT !.state = state, !.packed = built]
    BY DEF Pack, state
  <2>. QED BY <1>2, <1>3, <2>1 DEF Journals
<1>5. ASSUME NEW p \in Packages, IsPublished(journal'.state[p])
      PROVE  /\ built[p] # None
             /\ now'[p].bytes[VersionOf[journal'.sha][p]] = built[p]
  <2>1. served[p].bytes[Own(p)] = built[p]
    BY <1>4, <1>5 DEF Packed, ClassifyPublishedVersion, IsPublished
  <2>2. Own(p) \in Versions /\ built[p] \in Bytes
    BY <1>2, LaneAssumption DEF Own, Journals
  <2>3. now[p].bytes[Own(p)] = built[p] /\ built[p] # None
    BY <2>1, <2>2, LaneAssumption DEF LaneInv, ServedIsThere
  <2>. QED BY <1>4, <2>3 DEF Pack, Own, registry
<1>6. Tells(journal)'
  BY <1>4, <1>5 DEF Tells
<1>7. phase' = "publish" /\ at' = at /\ uploaded' = uploaded /\ prior' = prior
  BY DEF Pack
<1>8. AllPacked' /\ WholeRelease'
  BY <1>4, <1>7 DEF AllPacked, WholeRelease, Late
<1>. QED BY <1>1, <1>4, <1>6, <1>7, <1>8, NoJournalAssumption, StayInv DEF LaneInv, TypeOK, Phases

LEMMA SkipPublishedInv == ASSUME LaneInv, SkipPublished PROVE LaneInv'
<1>1. Kept
  BY KeptSame DEF SkipPublished, Advance, LaneInv, TypeOK
<1>2. at' \in Packages /\ phase' \in {"publish", "verify"}
  BY AdvanceAt DEF SkipPublished
<1>. QED BY <1>1, <1>2, GoOn DEF SkipPublished, Advance, Phases, Late

\* One entry of the registry changes and loses no bytes.
LEMMA KeptEntry ==
  ASSUME LaneInv, UNCHANGED <<served, gitTag, gh>>, faults' \in 0..MaxFaults,
         NEW p \in Packages, NEW e \in Entry, now' = [now EXCEPT ![p] = e],
         \A v \in Versions : now[p].bytes[v] # None => e.bytes[v] = now[p].bytes[v]
  PROVE  Kept
<1>1. now' \in [Packages -> Entry]
  BY DEF LaneInv, TypeOK
<1>2. \A q \in Packages, v \in Versions :
        now[q].bytes[v] # None => now'[q].bytes[v] = now[q].bytes[v]
  BY DEF LaneInv, TypeOK
<1>3. ServedIsThere'
  BY <1>2 DEF LaneInv, ServedIsThere
<1>. QED BY <1>1, <1>2, <1>3 DEF LaneInv, TypeOK, Kept

\* Only a tag of one package changes.
LEMMA KeptTags ==
  ASSUME LaneInv, UNCHANGED <<served, gitTag, gh>>, faults' \in 0..MaxFaults,
         NEW p \in Packages, NEW l \in Versions \cup {None}, NEW n \in Versions \cup {None},
         \/ now' = [now EXCEPT ![p] = [now[p] EXCEPT !.latest = l]]
         \/ now' = [now EXCEPT ![p] = [now[p] EXCEPT !.next = n]]
  PROVE  Kept
<1>. DEFINE e == [now[p] EXCEPT !.latest = l]
            f == [now[p] EXCEPT !.next = n]
<1>1. now[p] \in Entry
  BY DEF LaneInv, TypeOK
<1>2. e \in Entry /\ f \in Entry /\ e.bytes = now[p].bytes /\ f.bytes = now[p].bytes
  BY <1>1 DEF Entry
<1>3. now' = [now EXCEPT ![p] = e] \/ now' = [now EXCEPT ![p] = f]
  OBVIOUS
<1>. HIDE DEF e, f
<1>4. CASE now' = [now EXCEPT ![p] = e]
  BY <1>2, <1>4, KeptEntry
<1>5. CASE now' = [now EXCEPT ![p] = f]
  BY <1>2, <1>5, KeptEntry
<1>. QED BY <1>3, <1>4, <1>5

LEMMA OwnVersion ==
  ASSUME LaneInv, phase # "idle"
  PROVE  journal \in Journals /\ \A p \in Packages : Own(p) \in Versions
BY LaneAssumption DEF LaneInv, TypeOK, Own, Journals

LEMMA NpmPublishInv == ASSUME LaneInv, NpmPublish PROVE LaneInv'
<1>. DEFINE v == Own(at)
            bytes == [now[at].bytes EXCEPT ![v] = journal.packed[at]]
            e == Tagged([now[at] EXCEPT !.bytes = bytes], v)
<1>1. CASE now[at].bytes[v] # None
  <2>1. Throw
    BY <1>1 DEF NpmPublish
  <2>. QED BY <2>1, ThrowInv DEF NpmPublish
<1>2. CASE now[at].bytes[v] = None
  <2>1. at \in Packages /\ v \in Versions /\ now[at] \in Entry /\ phase = "publish"
    BY OwnVersion DEF LaneInv, TypeOK, NpmPublish
  <2>2. journal.packed[at] \in Bytes
    BY <2>1 DEF LaneInv, AllPacked
  <2>3. bytes \in [Versions -> Bytes \cup {None}]
    BY <2>1, <2>2 DEF Entry
  <2>4. \A w \in Versions : now[at].bytes[w] # None => bytes[w] = now[at].bytes[w]
    BY <1>2, <2>1 DEF Entry
  <2>5. e \in Entry /\ e.bytes = bytes
    <3>. HIDE DEF bytes, v
    <3>. QED BY <2>1, <2>3 DEF Entry, Tagged
  <2>6. /\ now' = [now EXCEPT ![at] = e] /\ Goto("readback")
        /\ UNCHANGED <<served, journal>>
    BY <1>2 DEF NpmPublish
  <2>7. Kept
    <3>. HIDE DEF bytes, v, e
    <3>1. UNCHANGED <<served, gitTag, gh>> /\ faults' \in 0..MaxFaults
      BY <2>6 DEF Goto, LaneInv, TypeOK
    <3>2. \A w \in Versions : now[at].bytes[w] # None => e.bytes[w] = now[at].bytes[w]
      BY <2>4, <2>5
    <3>. QED BY <2>1, <2>5, <2>6, <3>1, <3>2, KeptEntry
  <2>. QED BY <2>1, <2>6, <2>7, GoOn DEF Goto, Phases, Late
<1>. QED BY <1>1, <1>2

\* An entry changes its state; what it now tells is known to be true.
LEMMA RecordInv ==
  ASSUME LaneInv, Kept, UNCHANGED <<registry, uploaded, prior>>,
         NEW st \in States, Record(st),
         phase \notin {"idle", "pack"}, phase' \in Phases \ {"idle"},
         at \in Packages, at' \in Packages,
         now[at].bytes[Own(at)] = journal.packed[at],
         phase' \in Late => phase \in Late
  PROVE  LaneInv'
<1>. DEFINE state == [journal.state EXCEPT ![at] = st]
<1>1. journal \in Journals /\ Tells(journal) /\ journal.packed \in [Packages -> Bytes]
  BY DEF LaneInv, TypeOK, RecordedIsThere, AllPacked
<1>2. state \in [Packages -> States] /\ \A p \in Packages : p # at => state[p] = journal.state[p]
  BY <1>1 DEF Journals
<1>3. /\ journal' \in Journals /\ journal'.state = state
      /\ journal'.packed = journal.packed /\ journal'.sha = journal.sha
  <2>. HIDE DEF state
  <2>1. journal' = [journal EXCEPT !.state = state]
    BY DEF Record, state
  <2>. QED BY <1>1, <1>2, <2>1 DEF Journals
<1>4. now' = now /\ \A p \in Packages : Own(p)' = Own(p)
  BY <1>3 DEF registry, Own
<1>5. ASSUME NEW p \in Packages, IsPublished(state[p])
      PROVE  journal.packed[p] # None /\ now[p].bytes[Own(p)] = journal.packed[p]
  <2>1. journal.packed[p] \in Bytes
    BY <1>1
  <2>2. CASE p = at
    BY <2>1, <2>2, LaneAssumption
  <2>3. CASE p # at
    BY <1>1, <1>2, <1>5, <2>3, NoJournalAssumption DEF Tells, Own
  <2>. QED BY <2>2, <2>3
<1>6. Tells(journal)'
  <2>. HIDE DEF state
  <2>. QED BY <1>3, <1>4, <1>5 DEF Tells, Own
<1>7. AllPacked'
  BY <1>1, <1>3 DEF AllPacked
<1>8. WholeRelease'
  BY <1>3, <1>4 DEF LaneInv, WholeRelease
<1>. QED BY <1>3, <1>6, <1>7, <1>8, NoJournalAssumption, StayInv DEF LaneInv, TypeOK

LEMMA AssertRegistryIntegrityInv ==
  ASSUME LaneInv, AssertRegistryIntegrity PROVE LaneInv'
<1>1. Kept
  BY KeptSame DEF AssertRegistryIntegrity, Advance, LaneInv, TypeOK
<1>2. at' \in Packages /\ phase' \in {"publish", "verify"} /\ at \in Packages
  BY AdvanceAt DEF AssertRegistryIntegrity, LaneInv, TypeOK
<1>3. phase = "readback" /\ Own(at) \in Versions /\ journal.packed[at] \in Bytes
  BY <1>2, OwnVersion DEF AssertRegistryIntegrity, LaneInv, AllPacked
<1>4. now[at].bytes[Own(at)] = journal.packed[at]
  BY <1>2, <1>3, LaneAssumption DEF AssertRegistryIntegrity, LaneInv, ServedIsThere
<1>. QED BY <1>1, <1>2, <1>3, <1>4, RecordInv DEF AssertRegistryIntegrity, Advance, Phases, States, Late

LEMMA VerifyInv == ASSUME LaneInv, Verify PROVE LaneInv'
<1>1. CASE Throw
  BY <1>1, ThrowInv DEF Verify
<1>2. CASE /\ \A p \in Packages : IsPublished(journal.state[p]) /\ Verified(p)
           /\ Goto("promote") /\ UNCHANGED <<registry, journal>>
  <2>1. Kept
    BY <1>2, KeptSame DEF Goto, LaneInv, TypeOK
  <2>2. journal \in Journals /\ Tells(journal)
    BY DEF LaneInv, TypeOK, RecordedIsThere, Verify
  <2>3. \A q \in Packages : now[q].bytes[Own(q)] = journal.packed[q]
    BY <1>2, <2>2, NoJournalAssumption DEF Tells, Own
  <2>. QED BY <1>2, <2>1, <2>3, GoOn DEF Goto, Phases, Late, LaneInv, TypeOK, Verify
<1>. QED BY <1>1, <1>2 DEF Verify

LEMMA PromoteInv == ASSUME LaneInv, Promote PROVE LaneInv'
<1>. phase = "promote" /\ at \in Packages
  BY DEF Promote, LaneInv, TypeOK
<1>1. CASE Throw
  BY <1>1, ThrowInv
<1>2. CASE Advance("promote", "drop") /\ UNCHANGED <<registry, journal>>
  <2>1. Kept
    BY <1>2, KeptSame DEF Advance, LaneInv, TypeOK
  <2>2. at' \in Packages /\ phase' \in {"promote", "drop"}
    BY <1>2, AdvanceAt
  <2>. QED BY <1>2, <2>1, <2>2, GoOn DEF Advance, Phases, Late
<1>3. CASE /\ now' = [now EXCEPT ![at] = [now[at] EXCEPT !.latest = Own(at)]]
           /\ Goto("waiting") /\ UNCHANGED <<served, journal>>
  <2>1. Own(at) \in Versions \cup {None}
    BY OwnVersion
  <2>2. Kept
    BY <1>3, <2>1, KeptTags DEF Goto, LaneInv, TypeOK
  <2>. QED BY <1>3, <2>2, GoOn DEF Goto, Phases, Late
<1>. QED BY <1>1, <1>2, <1>3 DEF Promote

LEMMA WaitForDistTagInv == ASSUME LaneInv, WaitForDistTag PROVE LaneInv'
<1>1. Kept
  BY KeptSame DEF WaitForDistTag, Advance, LaneInv, TypeOK
<1>2. at' \in Packages /\ phase' \in {"promote", "drop"} /\ at \in Packages
  BY AdvanceAt DEF WaitForDistTag, LaneInv, TypeOK
<1>3. phase = "waiting" /\ now[at].bytes[Own(at)] = journal.packed[at]
  BY <1>2 DEF WaitForDistTag, LaneInv, WholeRelease, Late
<1>. QED BY <1>1, <1>2, <1>3, RecordInv DEF WaitForDistTag, Advance, Phases, States, Late

\* The candidate tag of one package is given up.
LEMMA ReadCandidateInv == ASSUME LaneInv, ReadCandidate PROVE LaneInv'
<1>. phase = "drop" /\ at \in Packages
  BY DEF ReadCandidate, LaneInv, TypeOK
<1>1. CASE Throw
  BY <1>1, ThrowInv
<1>2. CASE (Advance("drop", "tag") \/ Goto("removing")) /\ UNCHANGED <<registry, journal>>
  <2>1. Kept
    BY <1>2, KeptSame DEF Advance, Goto, LaneInv, TypeOK
  <2>2. at' \in Packages /\ phase' \in {"drop", "tag", "removing"}
    BY <1>2, AdvanceAt DEF Goto
  <2>. QED BY <1>2, <2>1, <2>2, GoOn DEF Advance, Goto, Phases, Late
<1>. QED BY <1>1, <1>2 DEF ReadCandidate

LEMMA RemoveCandidateInv == ASSUME LaneInv, RemoveCandidate PROVE LaneInv'
<1>1. at \in Packages /\ None \in Versions \cup {None}
  BY DEF LaneInv, TypeOK
<1>2. Kept
  BY <1>1, KeptTags DEF RemoveCandidate, Goto, LaneInv, TypeOK
<1>. QED BY <1>1, <1>2, GoOn DEF RemoveCandidate, Goto, Phases, Late

LEMMA RemovalFailsInv == ASSUME LaneInv, RemovalFails PROVE LaneInv'
<1>1. at \in Packages /\ now[at].next \in Versions \cup {None}
  BY DEF LaneInv, TypeOK, Entry
<1>2. PICK rest \in Versions \cup {None} :
        now' = [now EXCEPT ![at] = [now[at] EXCEPT !.next = rest]]
  BY <1>1 DEF RemovalFails
<1>3. Kept
  BY <1>1, <1>2, FaultType, KeptTags DEF RemovalFails
<1>4. CASE End
  BY <1>3, <1>4, EndInv DEF RemovalFails
<1>5. CASE /\ phase' = IF at = N THEN "tag" ELSE "drop"
           /\ at' = IF at = N THEN 1 ELSE at + 1
           /\ UNCHANGED <<uploaded, prior, journal>>
  <2>1. at' \in Packages /\ phase' \in {"tag", "drop"}
    BY <1>1, <1>5, LaneAssumption DEF Packages
  <2>. QED BY <1>3, <1>5, <2>1, GoOn DEF RemovalFails, Phases, Late
<1>. QED BY <1>4, <1>5 DEF RemovalFails

LEMMA WaitForCandidateTagRemovalInv ==
  ASSUME LaneInv, WaitForCandidateTagRemoval PROVE LaneInv'
<1>. phase = "removed"
  BY DEF WaitForCandidateTagRemoval
<1>1. CASE Throw
  BY <1>1, ThrowInv
<1>2. CASE Advance("drop", "tag") /\ UNCHANGED <<registry, journal>>
  <2>1. Kept
    BY <1>2, KeptSame DEF Advance, LaneInv, TypeOK
  <2>2. at' \in Packages /\ phase' \in {"drop", "tag"}
    BY <1>2, AdvanceAt
  <2>. QED BY <1>2, <2>1, <2>2, GoOn DEF Advance, Phases, Late
<1>. QED BY <1>1, <1>2 DEF WaitForCandidateTagRemoval

LEMMA TagAndPushInv == ASSUME LaneInv, TagAndPush PROVE LaneInv'
<1>. phase = "tag" /\ at \in Packages
  BY DEF TagAndPush, LaneInv, TypeOK
<1>1. CASE Throw
  BY <1>1, ThrowInv
<1>2. CASE /\ gitTag' = [p \in Packages |->
                           IF gitTag[p][Own(p)] = None
                           THEN [gitTag[p] EXCEPT ![Own(p)] = journal.sha] ELSE gitTag[p]]
           /\ phase' = "releases"
           /\ UNCHANGED <<registry, gh, uploaded, at, journal, prior, faults>>
  <2>1. journal.sha \in Releases /\ gitTag \in Marks
    BY OwnVersion DEF Journals, LaneInv, TypeOK
  <2>2. ASSUME NEW p \in Packages
        PROVE  [gitTag[p] EXCEPT ![Own(p)] = journal.sha] \in [Versions -> Releases \cup {None}]
    BY <2>1 DEF Marks
  <2>3. gitTag' \in Marks
    BY <1>2, <2>1, <2>2 DEF Marks
  <2>4. Kept
    BY <1>2, <2>3 DEF LaneInv, TypeOK, Kept, registry, ServedIsThere
  <2>. QED BY <1>2, <2>4, GoOn DEF Phases, Late
<1>. QED BY <1>1, <1>2 DEF TagAndPush

LEMMA ReleaseInv == ASSUME LaneInv, Release PROVE LaneInv'
<1>. phase = "releases" /\ at \in Packages
  BY DEF Release, LaneInv, TypeOK
<1>1. CASE Throw
  BY <1>1, ThrowInv
<1>2. CASE /\ gh' = [gh EXCEPT ![at] = [gh[at] EXCEPT ![Own(at)] = journal.sha]]
           /\ IF at = N THEN End
              ELSE at' = at + 1 /\ UNCHANGED <<uploaded, phase, journal, prior>>
           /\ UNCHANGED <<registry, gitTag, faults>>
  <2>1. journal.sha \in Releases /\ gh \in Marks
    BY OwnVersion DEF Journals, LaneInv, TypeOK
  <2>2. [gh[at] EXCEPT ![Own(at)] = journal.sha] \in [Versions -> Releases \cup {None}]
    BY <2>1 DEF Marks
  <2>3. gh' \in Marks
    BY <1>2, <2>1, <2>2 DEF Marks
  <2>4. Kept
    BY <1>2, <2>3 DEF LaneInv, TypeOK, Kept, registry, ServedIsThere
  <2>5. CASE at = N
    BY <1>2, <2>4, <2>5, EndInv
  <2>6. CASE at # N
    <3>1. at' \in Packages
      BY <1>2, <2>6, LaneAssumption DEF Packages
    <3>. QED BY <1>2, <2>4, <2>6, <3>1, GoOn DEF Phases, Late
  <2>. QED BY <2>5, <2>6
<1>. QED BY <1>1, <1>2 DEF Release

LEMMA CommandFailsInv == ASSUME LaneInv, CommandFails PROVE LaneInv'
<1>1. Kept
  BY FaultType, KeptSame DEF CommandFails
<1>. QED BY <1>1, EndInv DEF CommandFails

LEMMA RunnerLostInv == ASSUME LaneInv, RunnerLost PROVE LaneInv'
<1>1. Kept
  BY FaultType, KeptSame DEF RunnerLost
<1>2. 1 \in Packages
  BY LaneAssumption DEF Packages
<1>. QED BY <1>1, <1>2, StayInv
       DEF RunnerLost, Phases, Tells, AllPacked, WholeRelease, Late

\* Steps outside the dispatch.
LEMMA OutsideInv ==
  ASSUME LaneInv, Kept, UNCHANGED <<uploaded, phase, at, journal, prior>>
  PROVE  LaneInv'
<1>1. CASE phase \notin {"idle", "pack"}
  BY <1>1, GoOn DEF LaneInv, TypeOK
<1>2. CASE phase \in {"idle", "pack"}
  <2>1. PICK j \in Journals \cup {None} : j = journal /\ Tells(j)
    BY DEF LaneInv, TypeOK, RecordedIsThere
  <2>2. Tells(j)'
    BY <2>1, TellsKept DEF LaneInv
  <2>3. Tells(journal)'
    BY <2>1, <2>2 DEF Tells
  <2>. QED BY <1>2, <2>3, StayInv DEF LaneInv, TypeOK, AllPacked, WholeRelease, Late
<1>. QED BY <1>1, <1>2

LEMMA PropagateInv == ASSUME LaneInv, NEW p \in Packages, Propagate(p) PROVE LaneInv'
<1>1. served' \in [Packages -> Entry] /\ now' = now
  BY DEF Propagate, LaneInv, TypeOK
<1>2. ServedIsThere'
  <2>1. ASSUME NEW q \in Packages PROVE served'[q] \in {served[q], now[q]}
    BY DEF Propagate, LaneInv, TypeOK
  <2>. QED BY <1>1, <2>1 DEF LaneInv, ServedIsThere
<1>3. Kept
  BY <1>1, <1>2 DEF Propagate, LaneInv, TypeOK, Kept
<1>. QED BY <1>3, OutsideInv DEF Propagate

LEMMA OthersInv ==
  ASSUME LaneInv, NEW p \in Packages,
         OthersDropNext(p) \/ \E v \in Versions : OthersMoveNext(p, v)
  PROVE  LaneInv'
<1>1. faults' \in 0..MaxFaults
  BY FaultType DEF OthersDropNext, OthersMoveNext, LaneInv, TypeOK
<1>2. PICK n \in Versions \cup {None} : now' = [now EXCEPT ![p] = [now[p] EXCEPT !.next = n]]
  BY DEF OthersDropNext, OthersMoveNext
<1>3. Kept
  BY <1>1, <1>2, KeptTags DEF OthersDropNext, OthersMoveNext
<1>. QED BY <1>3, OutsideInv DEF OthersDropNext, OthersMoveNext

LEMMA StepInv == ASSUME LaneInv, Step PROVE LaneInv'
<1>1. ASSUME NEW built \in [Packages -> Bytes], Pack(built) \/ PackRefuses(built)
      PROVE  LaneInv'
  BY <1>1, PackInv, ThrowInv DEF PackRefuses
<1>2. CASE DryRunEnds
  BY <1>2, ThrowInv DEF DryRunEnds
<1>. QED BY <1>1, <1>2, SkipPublishedInv, NpmPublishInv, AssertRegistryIntegrityInv,
            VerifyInv, PromoteInv, WaitForDistTagInv, ReadCandidateInv,
            RemoveCandidateInv, WaitForCandidateTagRemovalInv, TagAndPushInv,
            ReleaseInv DEF Step

LEMMA InitInv == Init => LaneInv
<1>. SUFFICES ASSUME Init PROVE LaneInv
  OBVIOUS
<1>1. Absent \in Entry
  BY DEF Absent, Entry
<1>2. 1 \in Packages
  BY LaneAssumption DEF Packages
<1>3. TypeOK
  BY <1>1, <1>2, LaneAssumption DEF Init, TypeOK, Marks, Phases
<1>4. ServedIsThere
  BY DEF Init, ServedIsThere
<1>5. RecordedIsThere
  BY DEF Init, RecordedIsThere, Tells
<1>. QED BY <1>3, <1>4, <1>5 DEF Init, LaneInv, AllPacked, WholeRelease, Late

LEMMA NextInv == LaneInv /\ [Next]_vars => LaneInv'
<1>. SUFFICES ASSUME LaneInv, [Next]_vars PROVE LaneInv'
  OBVIOUS
<1>1. CASE Dispatch
  <2>1. PICK r \in Releases, dry \in BOOLEAN,
             j \in {None} \cup {uploaded[s][d] : s \in Releases, d \in BOOLEAN} :
          Preflight(r, dry, j)
    BY <1>1 DEF Dispatch
  <2>. QED BY <2>1, PreflightInv
<1>2. ASSUME NEW p \in Packages,
             Propagate(p) \/ OthersDropNext(p) \/ \E v \in Versions : OthersMoveNext(p, v)
      PROVE  LaneInv'
  BY <1>2, PropagateInv, OthersInv
<1>3. CASE UNCHANGED vars
  <2>1. Kept
    BY <1>3, KeptSame DEF vars, registry, LaneInv, TypeOK
  <2>. QED BY <1>3, <2>1, OutsideInv DEF vars, registry
<1>. QED BY <1>1, <1>2, <1>3, StepInv, CommandFailsInv, RunnerLostInv, RemovalFailsInv DEF Next

-----------------------------------------------------------------------------
\* The registry, the marks, the journals and the dispatch keep their types.
THEOREM TypeCorrect == Spec => []TypeOK
<1>1. LaneInv => TypeOK
  BY DEF LaneInv
<1>. QED BY InitInv, NextInv, <1>1, PTL DEF Spec

\* What any journal records as published is on the registry with the recorded
\* integrity, through crashes, lost runners, stale reads and resumed dispatches.
THEOREM JournalsTell == Spec => []RecordedIsThere
<1>1. LaneInv => RecordedIsThere
  BY DEF LaneInv
<1>. QED BY InitInv, NextInv, <1>1, PTL DEF Spec

\* latest moves only when the whole release is there, with the packed bytes.
THEOREM LatestWhole == Spec => LatestMovesWhole
<1>1. LaneInv /\ [Next]_vars =>
        [\A p \in Packages : Promotes(p) =>
           \A q \in Packages : now[q].bytes[Own(q)] = journal.packed[q]]_vars
  <2>. SUFFICES ASSUME LaneInv, [Next]_vars, NEW p \in Packages, Promotes(p)
                PROVE  \A q \in Packages : now[q].bytes[Own(q)] = journal.packed[q]
    OBVIOUS
  <2>1. CASE Promote
    BY <2>1 DEF Promote, LaneInv, WholeRelease, Late
  <2>2. CASE NpmPublish
    <3>. DEFINE e == now[at]
                bytes == [e.bytes EXCEPT ![Own(at)] = journal.packed[at]]
                f == [e EXCEPT !.bytes = bytes]
    <3>1. at \in Packages /\ e \in Entry
      BY DEF LaneInv, TypeOK
    <3>2. f.latest = e.latest /\ Tagged(f, Own(at)).latest = e.latest
      <4>. HIDE DEF bytes
      <4>. QED BY <3>1 DEF Entry, Tagged
    <3>3. now' = now \/ now' = [now EXCEPT ![at] = Tagged(f, Own(at))]
      BY <2>2 DEF NpmPublish, Throw, registry
    <3>4. now'[p].latest = now[p].latest
      <4>. HIDE DEF f, e
      <4>1. now'[p] = now[p] \/ (p = at /\ now'[p] = Tagged(f, Own(at)))
        BY <3>1, <3>3 DEF LaneInv, TypeOK
      <4>. QED BY <3>2, <4>1 DEF e
    <3>. QED BY <3>4 DEF Promotes
  <2>3. ASSUME ~Promote, ~NpmPublish
        PROVE  now' = now \/ \E q \in Packages, n \in Versions \cup {None} :
                              now' = [now EXCEPT ![q] = [now[q] EXCEPT !.next = n]]
    <3>1. at \in Packages /\ now[at].next \in Versions \cup {None}
      BY DEF LaneInv, TypeOK, Entry
    <3>2. CASE Step
      BY <2>3, <3>1, <3>2
         DEF Step, Pack, PackRefuses, DryRunEnds, SkipPublished, AssertRegistryIntegrity,
             Verify, WaitForDistTag, ReadCandidate, RemoveCandidate,
             WaitForCandidateTagRemoval, TagAndPush, Release, Throw, registry
    <3>3. CASE RemovalFails
      BY <3>1, <3>3 DEF RemovalFails
    <3>4. CASE Dispatch \/ CommandFails \/ RunnerLost \/ UNCHANGED vars
      BY <3>4 DEF Dispatch, Preflight, CommandFails, RunnerLost, vars, registry
    <3>5. ASSUME NEW q \in Packages,
                 Propagate(q) \/ OthersDropNext(q) \/ \E v \in Versions : OthersMoveNext(q, v)
          PROVE  now' = now \/ \E n \in Versions \cup {None} :
                                now' = [now EXCEPT ![q] = [now[q] EXCEPT !.next = n]]
      BY <3>5 DEF Propagate, OthersDropNext, OthersMoveNext
    <3>. QED BY <3>2, <3>3, <3>4, <3>5 DEF Next
  <2>4. CASE now' = now
    BY <2>4 DEF Promotes
  <2>5. ASSUME NEW q \in Packages, NEW n \in Versions \cup {None},
               now' = [now EXCEPT ![q] = [now[q] EXCEPT !.next = n]]
        PROVE  FALSE
    <3>1. now \in [Packages -> Entry] /\ [now[q] EXCEPT !.next = n].latest = now[q].latest
      BY DEF LaneInv, TypeOK, Entry
    <3>2. now'[p].latest = now[p].latest
      BY <2>5, <3>1
    <3>. QED BY <3>2 DEF Promotes
  <2>. QED BY <2>1, <2>2, <2>3, <2>4, <2>5
<1>. QED BY InitInv, NextInv, <1>1, PTL DEF Spec, LatestMovesWhole

-----------------------------------------------------------------------------
(* NoRepublish and CompleteMeansReleased.  The read path never goes back,  *)
(* so what a journal records as published is still answered whenever a     *)
(* later dispatch asks; and each loop leaves its work done behind it.      *)

RecordedServed(j) ==
  j # None =>
    \A p \in Packages : IsPublished(j.state[p]) =>
      served[p].bytes[VersionOf[j.sha][p]] # None

JournalsServed ==
  RecordedServed(journal) /\ \A r \in Releases, d \in BOOLEAN : RecordedServed(uploaded[r][d])

Filed == \A r \in Releases, d \in BOOLEAN : uploaded[r][d] # None => uploaded[r][d].sha = r

\* What pack found absent no journal records as published.
Unrecorded(p) ==
  \A r \in Releases, d \in BOOLEAN :
    uploaded[r][d] # None /\ VersionOf[r][p] = Own(p) => ~IsPublished(uploaded[r][d].state[p])

PackedAnew ==
  phase \notin {"idle", "pack"} =>
    \A p \in Packages : journal.state[p] = "packed" => Unrecorded(p)

MemoryInv == JournalsServed /\ Filed /\ PackedAnew

\* Only its own progress changes what the read path answers.
LEMMA ServedSteps == [Next]_vars => served' = served \/ \E p \in Packages : Propagate(p)
<1>. SUFFICES ASSUME [Next]_vars PROVE served' = served \/ \E p \in Packages : Propagate(p)
  OBVIOUS
<1>1. CASE Step
  BY <1>1 DEF Step, Pack, PackRefuses, DryRunEnds, SkipPublished, NpmPublish,
              AssertRegistryIntegrity, Verify, Promote, WaitForDistTag, ReadCandidate,
              RemoveCandidate, WaitForCandidateTagRemoval, TagAndPush, Release,
              Throw, registry
<1>2. CASE Dispatch \/ CommandFails \/ RunnerLost \/ RemovalFails \/ UNCHANGED vars
  BY <1>2 DEF Dispatch, Preflight, CommandFails, RunnerLost, RemovalFails, vars, registry
<1>. QED BY <1>1, <1>2 DEF Next, OthersDropNext, OthersMoveNext

\* The read path goes on answering the bytes it answered.
LEMMA ServedGrows ==
  ASSUME LaneInv, [Next]_vars, NEW p \in Packages, NEW v \in Versions,
         served[p].bytes[v] # None
  PROVE  served'[p].bytes[v] = served[p].bytes[v]
<1>1. CASE served' = served
  BY <1>1
<1>2. ASSUME NEW q \in Packages, Propagate(q)
      PROVE  served'[p].bytes[v] = served[p].bytes[v]
  BY <1>2 DEF Propagate, LaneInv, TypeOK, ServedIsThere
<1>. QED BY <1>1, <1>2, ServedSteps

LEMMA RecordedStays ==
  ASSUME LaneInv, [Next]_vars, NEW j \in Journals \cup {None}, RecordedServed(j)
  PROVE  RecordedServed(j)'
<1>. SUFFICES ASSUME j # None, NEW p \in Packages, IsPublished(j.state[p])
              PROVE  served'[p].bytes[VersionOf[j.sha][p]] # None
  BY DEF RecordedServed
<1>1. served[p].bytes[VersionOf[j.sha][p]] # None
  BY DEF RecordedServed
<1>2. VersionOf[j.sha][p] \in Versions
  BY LaneAssumption DEF Journals
<1>. QED BY <1>1, <1>2, ServedGrows

\* What a step does to the journal of the dispatch and to the uploaded ones.
Keeps == /\ UNCHANGED <<journal, uploaded>>
         /\ phase \in {"idle", "pack"} => phase' = phase
Loses == phase' = "idle" /\ journal' = None /\ uploaded' = uploaded
Starts ==
  /\ phase' = "pack" /\ uploaded' = uploaded
  /\ \/ \E r \in Releases, d \in BOOLEAN : journal' = uploaded[r][d] /\ journal' # None
     \/ \E r \in Releases, d \in BOOLEAN : journal' = CreateJournal(r, d)
Records(s) ==
  /\ Record(s) /\ uploaded' = uploaded /\ phase \notin {"idle", "pack"}
  /\ served' = served
  /\ IF s = "promoted" THEN phase = "waiting"
     ELSE served[at].bytes[Own(at)] = journal.packed[at]

LEMMA JournalSteps ==
  ASSUME LaneInv, [Next]_vars
  PROVE  \/ Keeps \/ Loses \/ Starts \/ (phase # "idle" /\ End)
         \/ \E built \in [Packages -> Bytes] : Pack(built)
         \/ Records("published") \/ Records("promoted")
<1>1. CASE Step
  <2>1. CASE \E built \in [Packages -> Bytes] : PackRefuses(built)
    BY <2>1 DEF PackRefuses, Throw
  <2>2. CASE AssertRegistryIntegrity \/ WaitForDistTag
    BY <2>2 DEF AssertRegistryIntegrity, WaitForDistTag, Advance, Records, registry
  <2>3. CASE DryRunEnds \/ SkipPublished \/ NpmPublish \/ Verify \/ Promote
    BY <2>3 DEF DryRunEnds, SkipPublished, NpmPublish, Verify, Promote, Advance, Goto,
                Throw, Keeps
  <2>4. CASE ReadCandidate \/ RemoveCandidate \/ WaitForCandidateTagRemoval \/ TagAndPush
    BY <2>4 DEF ReadCandidate, RemoveCandidate, WaitForCandidateTagRemoval, TagAndPush,
                Advance, Goto, Throw, Keeps
  <2>5. CASE Release
    BY <2>5 DEF Release, Throw, Keeps
  <2>. QED BY <1>1, <2>1, <2>2, <2>3, <2>4, <2>5 DEF Step
<1>2. CASE Dispatch
  <2>1. PICK r \in Releases, dry \in BOOLEAN,
             j \in {None} \cup {uploaded[s][d] : s \in Releases, d \in BOOLEAN} :
          Preflight(r, dry, j)
    BY <1>2 DEF Dispatch
  <2>. QED BY <2>1 DEF Preflight, Starts
<1>3. CASE CommandFails \/ RunnerLost \/ RemovalFails \/ UNCHANGED vars
  BY <1>3 DEF CommandFails, RunnerLost, RemovalFails, vars, Keeps, Loses
<1>4. ASSUME NEW p \in Packages,
             Propagate(p) \/ OthersDropNext(p) \/ \E v \in Versions : OthersMoveNext(p, v)
      PROVE  Keeps
  BY <1>4 DEF Propagate, OthersDropNext, OthersMoveNext, Keeps
<1>. QED BY <1>1, <1>2, <1>3, <1>4 DEF Next

\* The journal that ends a dispatch records what its own recorded.
LEMMA FinalRecords ==
  ASSUME NEW j \in Journals
  PROVE  /\ Final(j) \in Journals /\ Final(j) # None
         /\ Final(j).state = j.state /\ Final(j).sha = j.sha
<1>. DEFINE packed == [p \in Packages |-> IF IsPublished(j.state[p]) THEN j.packed[p] ELSE None]
<1>1. packed \in [Packages -> Bytes \cup {None}]
  BY DEF Journals
<1>2. Final(j) = [j EXCEPT !.packed = packed]
  BY DEF Final
<1>. HIDE DEF packed
<1>3. Final(j) \in Journals /\ Final(j).state = j.state /\ Final(j).sha = j.sha
  BY <1>1, <1>2 DEF Journals
<1>. QED BY <1>3, NoJournalAssumption

LEMMA InitMemory == Init => MemoryInv
BY DEF Init, MemoryInv, JournalsServed, RecordedServed, Filed, PackedAnew

LEMMA UploadedServed ==
  ASSUME LaneInv, MemoryInv, [Next]_vars, NEW r \in Releases, NEW d \in BOOLEAN
  PROVE  RecordedServed(uploaded[r][d]) /\ uploaded[r][d] \in Journals \cup {None}
BY DEF LaneInv, TypeOK, MemoryInv, JournalsServed

\* The journals that were uploaded stay served.
LEMMA OldServed ==
  ASSUME LaneInv, MemoryInv, [Next]_vars, uploaded' = uploaded, RecordedServed(journal)'
  PROVE  JournalsServed'
<1>1. ASSUME NEW r \in Releases, NEW d \in BOOLEAN PROVE RecordedServed(uploaded[r][d])'
  <2>1. PICK j \in Journals \cup {None} : j = uploaded[r][d] /\ RecordedServed(j)
    BY UploadedServed
  <2>2. RecordedServed(j)'
    BY <2>1, RecordedStays
  <2>. QED BY <2>1, <2>2 DEF RecordedServed
<1>. QED BY <1>1 DEF JournalsServed

LEMMA KeepsMemory == ASSUME LaneInv, MemoryInv, [Next]_vars, Keeps PROVE MemoryInv'
<1>1. PICK j \in Journals \cup {None} : j = journal /\ RecordedServed(j)
  BY DEF LaneInv, TypeOK, MemoryInv, JournalsServed
<1>2. RecordedServed(j)'
  BY <1>1, RecordedStays
<1>3. RecordedServed(journal)'
  BY <1>1, <1>2 DEF RecordedServed, Keeps
<1>4. JournalsServed'
  BY <1>3, OldServed DEF Keeps
<1>5. Filed'
  BY DEF MemoryInv, Filed, Keeps
<1>6. PackedAnew'
  BY DEF MemoryInv, PackedAnew, Unrecorded, Own, Keeps
<1>. QED BY <1>4, <1>5, <1>6 DEF MemoryInv

LEMMA LosesMemory == ASSUME LaneInv, MemoryInv, [Next]_vars, Loses PROVE MemoryInv'
<1>1. JournalsServed'
  BY OldServed DEF Loses, RecordedServed
<1>. QED BY <1>1 DEF MemoryInv, Filed, PackedAnew, Loses

LEMMA StartsMemory == ASSUME LaneInv, MemoryInv, [Next]_vars, Starts PROVE MemoryInv'
<1>1. RecordedServed(journal)'
  <2>1. CASE \E r \in Releases, d \in BOOLEAN : journal' = uploaded[r][d]
    <3>1. PICK r \in Releases, d \in BOOLEAN : journal' = uploaded[r][d]
      BY <2>1
    <3>2. PICK j \in Journals \cup {None} : j = uploaded[r][d] /\ RecordedServed(j)
      BY UploadedServed
    <3>3. RecordedServed(j)'
      BY <3>2, RecordedStays
    <3>. QED BY <3>1, <3>2, <3>3 DEF RecordedServed
  <2>2. CASE \E r \in Releases, d \in BOOLEAN : journal' = CreateJournal(r, d)
    BY <2>2 DEF RecordedServed, CreateJournal, IsPublished
  <2>. QED BY <2>1, <2>2 DEF Starts
<1>2. JournalsServed'
  BY <1>1, OldServed DEF Starts
<1>. QED BY <1>2 DEF MemoryInv, Filed, PackedAnew, Starts

LEMMA EndMemory ==
  ASSUME LaneInv, MemoryInv, [Next]_vars, phase # "idle", End PROVE MemoryInv'
<1>1. journal \in Journals /\ RecordedServed(journal)
  BY DEF LaneInv, TypeOK, MemoryInv, JournalsServed
<1>. DEFINE J == Final(journal)
<1>2. J \in Journals /\ J # None /\ J.state = journal.state /\ J.sha = journal.sha
  BY <1>1, FinalRecords
<1>3. RecordedServed(J)
  BY <1>1, <1>2, NoJournalAssumption DEF RecordedServed
<1>4. journal.sha \in Releases /\ journal.dry \in BOOLEAN
  BY <1>1 DEF Journals
<1>5. \A r \in Releases, d \in BOOLEAN :
        uploaded'[r][d] = uploaded[r][d] \/ (uploaded'[r][d] = J /\ r = journal.sha)
  <2>. HIDE DEF J
  <2>1. uploaded' = [uploaded EXCEPT ![journal.sha] =
                       [uploaded[journal.sha] EXCEPT ![journal.dry] = J]]
    BY DEF End, J
  <2>. QED BY <1>4, <2>1 DEF LaneInv, TypeOK
<1>. HIDE DEF J
<1>6. ASSUME NEW r \in Releases, NEW d \in BOOLEAN PROVE RecordedServed(uploaded[r][d])'
  <2>1. PICK j \in Journals \cup {None} : j = uploaded'[r][d] /\ RecordedServed(j)
    BY <1>2, <1>3, <1>5, UploadedServed
  <2>2. RecordedServed(j)'
    BY <2>1, RecordedStays
  <2>. QED BY <2>1, <2>2 DEF RecordedServed
<1>7. Filed'
  BY <1>2, <1>5 DEF MemoryInv, Filed
<1>. QED BY <1>6, <1>7 DEF End, MemoryInv, JournalsServed, RecordedServed, PackedAnew

\* Pack asks the registry about every version.
LEMMA PackMemory ==
  ASSUME LaneInv, MemoryInv, [Next]_vars, NEW built \in [Packages -> Bytes], Pack(built)
  PROVE  MemoryInv'
<1>. DEFINE state == [p \in Packages |-> Packed(p, built[p])]
<1>1. journal \in Journals
  BY DEF LaneInv, TypeOK, Pack
<1>2. state \in [Packages -> States]
  BY DEF Packed, States
<1>3. journal'.state = state /\ journal'.sha = journal.sha
  <2>. HIDE DEF state
  <2>1. journal' = [journal EXCEPT !.state = state, !.packed = built]
    BY DEF Pack, state
  <2>. QED BY <1>1, <1>2, <2>1 DEF Journals
<1>4. ASSUME NEW p \in Packages
      PROVE  /\ state[p] \in {"packed", "skipped"}
             /\ state[p] = "skipped" => served[p].bytes[Own(p)] # None
             /\ state[p] = "packed" => served[p].bytes[Own(p)] = None
  <2>1. built[p] # None
    BY LaneAssumption
  <2>. QED BY <2>1 DEF Packed, ClassifyPublishedVersion, Pack
<1>. HIDE DEF state
<1>5. served' = served /\ uploaded' = uploaded /\ \A p \in Packages : Own(p)' = Own(p)
  BY <1>3 DEF Pack, registry, Own
<1>6. RecordedServed(journal)'
  BY <1>3, <1>4, <1>5 DEF RecordedServed, IsPublished, Own
<1>7. JournalsServed'
  BY <1>5, <1>6, OldServed
<1>8. ASSUME NEW p \in Packages, state[p] = "packed" PROVE Unrecorded(p)'
  <2>. SUFFICES ASSUME NEW r \in Releases, NEW d \in BOOLEAN, uploaded[r][d] # None,
                       VersionOf[r][p] = Own(p), IsPublished(uploaded[r][d].state[p])
                PROVE  FALSE
    BY <1>5 DEF Unrecorded
  <2>1. served[p].bytes[VersionOf[r][p]] # None
    BY UploadedServed DEF MemoryInv, Filed, RecordedServed
  <2>. QED BY <1>4, <1>8, <2>1
<1>. QED BY <1>3, <1>5, <1>7, <1>8 DEF MemoryInv, Filed, PackedAnew

LEMMA RecordsMemory ==
  ASSUME LaneInv, MemoryInv, [Next]_vars, NEW s \in {"published", "promoted"}, Records(s),
         s = "promoted" => served[at].bytes[Own(at)] # None
  PROVE  MemoryInv'
<1>. DEFINE state == [journal.state EXCEPT ![at] = s]
<1>1. journal \in Journals /\ at \in Packages /\ journal.packed[at] # None
  BY LaneAssumption DEF LaneInv, TypeOK, AllPacked, Records
<1>2. state \in [Packages -> States]
      /\ \A p \in Packages : state[p] = IF p = at THEN s ELSE journal.state[p]
  BY <1>1 DEF Journals, States
<1>3. journal'.state = state /\ journal'.sha = journal.sha
  <2>. HIDE DEF state
  <2>1. journal' = [journal EXCEPT !.state = state]
    BY DEF Records, Record, state
  <2>. QED BY <1>1, <1>2, <2>1 DEF Journals
<1>. HIDE DEF state
<1>4. served[at].bytes[Own(at)] # None
  BY <1>1 DEF Records
<1>5. journal # None /\ served' = served /\ \A p \in Packages : Own(p)' = Own(p)
  BY <1>1, <1>3, NoJournalAssumption DEF Records, Own
<1>6. RecordedServed(journal)'
  BY <1>2, <1>3, <1>4, <1>5 DEF MemoryInv, JournalsServed, RecordedServed, Own
<1>7. JournalsServed'
  BY <1>6, OldServed DEF Records
<1>8. PackedAnew'
  BY <1>2, <1>3, <1>5 DEF MemoryInv, PackedAnew, Unrecorded, Records
<1>. QED BY <1>7, <1>8 DEF MemoryInv, Filed, Records

-----------------------------------------------------------------------------
(* What the loops of finalize leave behind them.                           *)

\* The packages a loop is done with: all of them in a later phase, and while
\* it runs those before the one it has reached.
Behind(loop, later) ==
  {p \in Packages : phase \in later \/ (phase \in loop /\ p < at)}

LatestDone == Behind({"promote", "waiting"}, {"drop", "removing", "removed", "tag", "releases"})
NextDone == Behind({"drop", "removing", "removed"}, {"tag", "releases"})
ReleasesDone == Behind({"releases"}, {})

\* The candidate tag of a version is readable with the version.
NextServed ==
  \A p \in Packages, r \in Releases :
    LET v == VersionOf[r][p] IN
    now[p].next = v /\ served[p].bytes[v] # None => served[p].next = v

LatePublished == phase \in Late => \A p \in Packages : IsPublished(journal.state[p])

\* Pack forgets which packages an earlier dispatch promoted.
Unpromoted ==
  phase \in {"publish", "readback", "verify", "promote", "waiting"} =>
    \A p \in Packages \ LatestDone : journal.state[p] # "promoted"

IsLatest(p) == now[p].latest = Own(p)
OffNext(p) == now[p].next # Own(p)
IsTagged(p) == gitTag[p][Own(p)] = journal.sha
IsReleased(p) == gh[p][Own(p)] = journal.sha

LoopsDone ==
  /\ phase = "waiting" => IsLatest(at)
  /\ \A p \in LatestDone : IsLatest(p)
  /\ \A p \in NextDone : OffNext(p)
  /\ phase = "releases" => \A p \in Packages : IsTagged(p)
  /\ \A p \in ReleasesDone : IsReleased(p)

\* Two loops begin with the first package because the one before has ended.
LoopStart == phase \in {"verify", "tag"} => at = 1

LoopRest == LatePublished /\ Unpromoted /\ LoopsDone /\ LoopStart

LoopInv == NextServed /\ LoopRest

\* What a step does to the tags of the registry.
LEMMA NowSteps ==
  ASSUME LaneInv, [Next]_vars, NEW p \in Packages
  PROVE  /\ \/ now'[p].latest = now[p].latest
            \/ Promote /\ p = at /\ now'[p].latest = Own(p)
         /\ \/ now'[p].next \in {now[p].next, None}
            \/ now'[p].next \in Versions \ {VersionOf[r][p] : r \in Releases}
            \/ /\ phase = "publish" /\ p = at /\ now'[p].next = Own(p)
               /\ now[p].bytes[Own(p)] = None /\ served' = served
<1>. DEFINE NextTo(q, n) == now' = [now EXCEPT ![q] = [now[q] EXCEPT !.next = n]]
            Others(q) == Versions \ {VersionOf[r][q] : r \in Releases}
<1>1. now \in [Packages -> Entry] /\ at \in Packages
  BY DEF LaneInv, TypeOK
<1>2. CASE now' = now
  BY <1>2
<1>3. CASE Promote
  <2>1. now' = now \/ now' = [now EXCEPT ![at] = [now[at] EXCEPT !.latest = Own(at)]]
    BY <1>3 DEF Promote, Throw, registry
  <2>. QED BY <1>1, <1>3, <2>1 DEF Entry
<1>4. CASE NpmPublish
  <2>. DEFINE e == now[at]
              f == [e EXCEPT !.bytes = [e.bytes EXCEPT ![Own(at)] = journal.packed[at]]]
  <2>1. now' = now \/ (/\ now' = [now EXCEPT ![at] = Tagged(f, Own(at))]
                       /\ e.bytes[Own(at)] = None /\ phase = "publish" /\ served' = served)
    BY <1>4 DEF NpmPublish, Throw, registry
  <2>2. /\ Tagged(f, Own(at)).latest = e.latest /\ Tagged(f, Own(at)).next = Own(at)
    BY <1>1 DEF Entry, Tagged
  <2>. HIDE DEF f
  <2>. QED BY <1>1, <2>1, <2>2
<1>5. ASSUME NEW q \in Packages, NEW n, NextTo(q, n), n \in {now[q].next, None} \cup Others(q)
      PROVE  now'[p].latest = now[p].latest /\ now'[p].next \in {now[p].next, None} \cup Others(p)
  BY <1>1, <1>5 DEF Entry
<1>6. CASE RemoveCandidate \/ RemovalFails
  BY <1>1, <1>5, <1>6 DEF RemoveCandidate, RemovalFails
<1>7. ASSUME NEW q \in Packages, OthersDropNext(q) \/ \E v \in Versions : OthersMoveNext(q, v)
      PROVE  \E n : NextTo(q, n) /\ n \in {None} \cup Others(q)
  BY <1>7 DEF OthersDropNext, OthersMoveNext
<1>8. \/ now' = now \/ Promote \/ NpmPublish \/ RemoveCandidate \/ RemovalFails
      \/ \E q \in Packages : OthersDropNext(q) \/ \E v \in Versions : OthersMoveNext(q, v)
  <2>1. CASE Step
    BY <2>1 DEF Step, Pack, PackRefuses, DryRunEnds, SkipPublished, AssertRegistryIntegrity,
                Verify, WaitForDistTag, ReadCandidate, WaitForCandidateTagRemoval, TagAndPush,
                Release, Throw, registry
  <2>2. CASE Dispatch \/ CommandFails \/ RunnerLost \/ UNCHANGED vars
    BY <2>2 DEF Dispatch, Preflight, CommandFails, RunnerLost, vars, registry
  <2>. QED BY <2>1, <2>2 DEF Next, Propagate
<1>9. ASSUME NEW q \in Packages, OthersDropNext(q) \/ \E v \in Versions : OthersMoveNext(q, v)
      PROVE  now'[p].latest = now[p].latest /\ now'[p].next \in {now[p].next, None} \cup Others(p)
  BY <1>5, <1>7, <1>9
<1>. QED BY <1>2, <1>3, <1>4, <1>6, <1>8, <1>9

\* What was done for a package stays done while its dispatch runs.
LEMMA StaysDone ==
  ASSUME LaneInv, [Next]_vars, phase # "idle", journal'.sha = journal.sha, NEW p \in Packages
  PROVE  /\ IsLatest(p) => IsLatest(p)'
         /\ phase # "publish" /\ OffNext(p) => OffNext(p)'
         /\ IsTagged(p) => IsTagged(p)'
         /\ IsReleased(p) => IsReleased(p)'
<1>1. /\ Own(p)' = Own(p) /\ journal.sha \in Releases
      /\ Own(p) \in Versions /\ Own(p) = VersionOf[journal.sha][p] /\ Own(p) # None
      /\ journal.sha # None
  BY LaneAssumption, OwnVersion DEF Own, Journals
<1>2. IsLatest(p) => IsLatest(p)'
  BY <1>1, NowSteps DEF IsLatest
<1>3. phase # "publish" /\ OffNext(p) => OffNext(p)'
  BY <1>1, NowSteps DEF OffNext
<1>4. gitTag \in Marks /\ gh \in Marks /\ at \in Packages
  BY DEF LaneInv, TypeOK
<1>5. gitTag' = gitTag \/ TagAndPush
  <2>1. CASE Step
    BY <2>1 DEF Step, Pack, PackRefuses, DryRunEnds, SkipPublished, NpmPublish, Goto, Advance,
                AssertRegistryIntegrity, Verify, Promote, WaitForDistTag, ReadCandidate,
                RemoveCandidate, WaitForCandidateTagRemoval, Release, Throw, registry
  <2>2. CASE Dispatch \/ CommandFails \/ RunnerLost \/ RemovalFails \/ UNCHANGED vars
    BY <2>2 DEF Dispatch, Preflight, CommandFails, RunnerLost, RemovalFails, vars, registry
  <2>. QED BY <2>1, <2>2 DEF Next, Propagate, OthersDropNext, OthersMoveNext
<1>6. IsTagged(p) => IsTagged(p)'
  BY <1>1, <1>4, <1>5 DEF TagAndPush, IsTagged, Throw, Marks
<1>7. gh' = gh \/ gh' = [gh EXCEPT ![at] = [gh[at] EXCEPT ![Own(at)] = journal.sha]]
  <2>1. CASE Step
    BY <2>1 DEF Step, Pack, PackRefuses, DryRunEnds, SkipPublished, NpmPublish, Goto, Advance,
                AssertRegistryIntegrity, Verify, Promote, WaitForDistTag, ReadCandidate,
                RemoveCandidate, WaitForCandidateTagRemoval, TagAndPush, Release, Throw, registry
  <2>2. CASE Dispatch \/ CommandFails \/ RunnerLost \/ RemovalFails \/ UNCHANGED vars
    BY <2>2 DEF Dispatch, Preflight, CommandFails, RunnerLost, RemovalFails, vars, registry
  <2>. QED BY <2>1, <2>2 DEF Next, Propagate, OthersDropNext, OthersMoveNext
<1>8. IsReleased(p) => IsReleased(p)'
  BY <1>1, <1>4, <1>7 DEF IsReleased, Marks
<1>. QED BY <1>2, <1>3, <1>6, <1>8

LEMMA NextServedKept == ASSUME LaneInv, NextServed, [Next]_vars PROVE NextServed'
<1>. SUFFICES ASSUME NEW p \in Packages, NEW r \in Releases,
                     now'[p].next = VersionOf[r][p], served'[p].bytes[VersionOf[r][p]] # None
              PROVE  served'[p].next = VersionOf[r][p]
  BY DEF NextServed
<1>. DEFINE v == VersionOf[r][p]
<1>1. v \in Versions /\ v # None
  BY LaneAssumption
<1>2. CASE \E q \in Packages : Propagate(q)
  BY <1>1, <1>2 DEF Propagate, LaneInv, TypeOK, NextServed
<1>3. CASE served' = served
  <2>1. now[p].next = v \/ now[p].bytes[v] = None
    BY <1>1, NowSteps
  <2>. QED BY <1>1, <1>3, <2>1 DEF NextServed, LaneInv, ServedIsThere
<1>. QED BY <1>2, <1>3, ServedSteps

LEMMA EarlyLoop ==
  ASSUME phase' \in {"idle", "pack"}
  PROVE  LoopRest'
BY DEF LoopRest, LatePublished, Unpromoted, LoopsDone, LoopStart, LatestDone, NextDone, ReleasesDone,
       Behind, Late

LEMMA PublishLoop ==
  ASSUME phase' \in {"publish", "readback", "verify"}, LoopStart',
         \A p \in Packages : journal'.state[p] # "promoted"
  PROVE  LoopRest'
BY DEF LoopRest, LatePublished, Unpromoted, LoopsDone, LatestDone, NextDone, ReleasesDone, Behind, Late

\* A step behind the verification: what it newly leaves behind is done.
LEMMA LateLoop ==
  ASSUME LaneInv, LoopInv, [Next]_vars, phase \in Late \cup {"verify"}, phase' \in Late,
         journal'.sha = journal.sha, LatePublished', Unpromoted', LoopStart',
         phase' = "waiting" => IsLatest(at)',
         \A p \in LatestDone' \ LatestDone : IsLatest(p),
         \A p \in NextDone' \ NextDone : OffNext(p),
         phase' = "releases" => phase = "releases" \/ \A p \in Packages : IsTagged(p)',
         \A p \in ReleasesDone' \ ReleasesDone : IsReleased(p)'
  PROVE  LoopRest'
<1>1. phase \notin {"idle", "publish"}
  BY DEF Late
<1>2. ASSUME NEW p \in LatestDone' PROVE IsLatest(p)'
  BY <1>1, StaysDone DEF LoopInv, LoopRest, LoopsDone, LatestDone, Behind
<1>3. ASSUME NEW p \in NextDone' PROVE OffNext(p)'
  BY <1>1, StaysDone DEF LoopInv, LoopRest, LoopsDone, NextDone, Behind
<1>4. ASSUME NEW p \in Packages, phase' = "releases" PROVE IsTagged(p)'
  BY <1>1, <1>4, StaysDone DEF LoopInv, LoopRest, LoopsDone
<1>5. ASSUME NEW p \in ReleasesDone' PROVE IsReleased(p)'
  BY <1>1, StaysDone DEF LoopInv, LoopRest, LoopsDone, ReleasesDone, Behind
<1>. QED BY <1>2, <1>3, <1>4, <1>5 DEF LoopRest, LoopsDone

\* A step that leaves the dispatch where it is.
LEMMA StillLoop ==
  ASSUME LaneInv, LoopInv, [Next]_vars, UNCHANGED <<phase, at, journal>>
  PROVE  LoopRest'
<1>1. CASE phase \in {"idle", "pack"}
  BY <1>1, EarlyLoop
<1>2. CASE phase \in {"publish", "readback", "verify"}
  <2>1. \A p \in Packages : journal.state[p] # "promoted"
    BY <1>2 DEF LoopInv, LoopRest, Unpromoted, LatestDone, Behind
  <2>2. LoopStart'
    BY DEF LoopInv, LoopRest, LoopStart
  <2>. QED BY <1>2, <2>1, <2>2, PublishLoop
<1>3. CASE phase \in Late
  <2>1. LatestDone' = LatestDone /\ NextDone' = NextDone /\ ReleasesDone' = ReleasesDone
    BY DEF LatestDone, NextDone, ReleasesDone, Behind
  <2>2. LatePublished' /\ Unpromoted' /\ LoopStart'
    BY <2>1 DEF LoopInv, LoopRest, LatePublished, Unpromoted, LoopStart
  <2>3. phase' = "waiting" => IsLatest(at)'
    <3>1. at \in Packages /\ (phase = "waiting" => IsLatest(at))
      BY DEF LaneInv, TypeOK, LoopInv, LoopRest, LoopsDone
    <3>2. IsLatest(at) => now'[at].latest = VersionOf[journal'.sha][at]
      BY <1>3, <3>1, StaysDone DEF IsLatest, Own, Late
    <3>. QED BY <3>1, <3>2 DEF IsLatest, Own
  <2>. QED BY <1>3, <2>1, <2>2, <2>3, LateLoop
<1>. QED BY <1>1, <1>2, <1>3 DEF LaneInv, TypeOK, Phases, Late

LEMMA EndLoop == End => LoopRest'
BY EarlyLoop DEF End

LEMMA PackLoop ==
  ASSUME LaneInv, NEW built \in [Packages -> Bytes], Pack(built)
  PROVE  LoopRest'
<1>. DEFINE state == [p \in Packages |-> Packed(p, built[p])]
<1>1. journal \in Journals
  BY DEF LaneInv, TypeOK, Pack
<1>2. \A p \in Packages : state[p] # "promoted"
  BY DEF Packed
<1>3. journal'.state = state
  <2>. HIDE DEF state
  <2>1. journal' = [journal EXCEPT !.state = state, !.packed = built]
    BY DEF Pack, state
  <2>. QED BY <1>1, <2>1 DEF Journals
<1>. HIDE DEF state
<1>. QED BY <1>2, <1>3, PublishLoop DEF Pack, LoopStart

\* An entry changes its state.
LEMMA RecordState ==
  ASSUME LaneInv, phase # "idle", NEW s, Record(s)
  PROVE  /\ journal'.sha = journal.sha
         /\ \A p \in Packages : journal'.state[p] = IF p = at THEN s ELSE journal.state[p]
<1>. DEFINE state == [journal.state EXCEPT ![at] = s]
<1>1. journal \in Journals /\ at \in Packages
  BY DEF LaneInv, TypeOK
<1>2. \A p \in Packages : state[p] = IF p = at THEN s ELSE journal.state[p]
  BY <1>1 DEF Journals
<1>. HIDE DEF state
<1>3. journal' = [journal EXCEPT !.state = state]
  BY DEF Record, state
<1>. QED BY <1>1, <1>2, <1>3 DEF Journals

LEMMA PublishingLoop ==
  ASSUME LaneInv, LoopInv, SkipPublished \/ NpmPublish \/ AssertRegistryIntegrity
  PROVE  LoopRest'
<1>1. phase \in {"publish", "readback"}
  BY DEF SkipPublished, NpmPublish, AssertRegistryIntegrity
<1>2. \A p \in Packages : journal.state[p] # "promoted"
  BY <1>1 DEF LoopInv, LoopRest, Unpromoted, LatestDone, Behind
<1>3. CASE End
  BY <1>3, EndLoop
<1>4. CASE SkipPublished \/ (NpmPublish /\ ~End)
  <2>1. journal' = journal
    BY <1>4 DEF SkipPublished, NpmPublish, Throw
  <2>2. phase' \in {"publish", "readback", "verify"} /\ LoopStart'
    BY <1>1, <1>4 DEF SkipPublished, NpmPublish, Throw, Goto, Advance, LoopStart
  <2>. QED BY <1>2, <2>1, <2>2, PublishLoop
<1>5. CASE AssertRegistryIntegrity
  <2>1. \A p \in Packages : journal'.state[p] # "promoted"
    BY <1>1, <1>2, <1>5, RecordState DEF AssertRegistryIntegrity
  <2>2. phase' \in {"publish", "verify"} /\ LoopStart'
    BY <1>5 DEF AssertRegistryIntegrity, Advance, LoopStart
  <2>. QED BY <2>1, <2>2, PublishLoop
<1>. QED BY <1>3, <1>4, <1>5

LEMMA VerifyLoop == ASSUME LaneInv, LoopInv, [Next]_vars, Verify PROVE LoopRest'
<1>1. CASE End
  BY <1>1, EndLoop
<1>2. CASE ~End
  <2>1. /\ phase = "verify" /\ phase' = "promote" /\ UNCHANGED <<at, journal>>
        /\ \A p \in Packages : IsPublished(journal.state[p])
    BY <1>2 DEF Verify, Goto, Throw
  <2>2. at = 1
    BY <2>1 DEF LoopInv, LoopRest, LoopStart
  <2>3. LatestDone' = {} /\ LatestDone = {} /\ NextDone' = {} /\ ReleasesDone' = {}
    BY <2>1, <2>2 DEF LatestDone, NextDone, ReleasesDone, Behind, Packages
  <2>4. LatePublished' /\ Unpromoted' /\ LoopStart'
    BY <2>1, <2>3 DEF LatePublished, Unpromoted, LoopInv, LoopRest, LoopStart
  <2>. QED BY <2>1, <2>3, <2>4, LateLoop DEF Late
<1>. QED BY <1>1, <1>2

\* An entry that pack just looked at is promoted by the command.
LEMMA PromoteLoop == ASSUME LaneInv, LoopInv, [Next]_vars, Promote PROVE LoopRest'
<1>1. at \in Packages \ LatestDone /\ phase = "promote" /\ now \in [Packages -> Entry]
  BY DEF Promote, LaneInv, TypeOK, LatestDone, Behind, Packages
<1>2. journal.state[at] # "promoted"
  BY <1>1 DEF LoopInv, LoopRest, Unpromoted
<1>3. /\ now' = [now EXCEPT ![at] = [now[at] EXCEPT !.latest = Own(at)]]
      /\ phase' = "waiting" /\ UNCHANGED <<at, journal>>
  BY <1>2 DEF Promote, Goto
<1>4. IsLatest(at)'
  BY <1>1, <1>3 DEF IsLatest, Own, Entry
<1>5. LatestDone' = LatestDone /\ NextDone' = {} /\ ReleasesDone' = {}
  BY <1>1, <1>3 DEF LatestDone, NextDone, ReleasesDone, Behind
<1>6. LatePublished' /\ Unpromoted' /\ LoopStart'
  BY <1>1, <1>3, <1>5 DEF LatePublished, Unpromoted, LoopInv, LoopRest, LoopStart, Late
<1>. QED BY <1>1, <1>3, <1>4, <1>5, <1>6, LateLoop DEF Late

LEMMA WaitForDistTagLoop ==
  ASSUME LaneInv, LoopInv, [Next]_vars, WaitForDistTag PROVE LoopRest'
<1>1. /\ phase = "waiting" /\ Advance("promote", "drop") /\ Record("promoted")
      /\ phase' \in {"promote", "drop"} /\ at \in Packages /\ at' \in Packages
  BY AdvanceAt DEF WaitForDistTag, LaneInv, TypeOK
<1>2. /\ journal'.sha = journal.sha
      /\ \A p \in Packages : journal'.state[p] = IF p = at THEN "promoted" ELSE journal.state[p]
  BY <1>1, RecordState
<1>3. \A p \in Packages : p \in LatestDone' <=> p \in LatestDone \/ p = at
  BY <1>1, LaneAssumption DEF Advance, LatestDone, Behind, Packages
<1>4. at' = 1 \/ phase' = "promote"
  BY <1>1 DEF Advance
<1>5. NextDone' = {} /\ ReleasesDone' = {}
  BY <1>1, <1>4 DEF NextDone, ReleasesDone, Behind, Packages
<1>6. IsLatest(at)
  BY <1>1 DEF LoopInv, LoopRest, LoopsDone
<1>7. LatePublished'
  BY <1>1, <1>2 DEF LoopInv, LoopRest, LatePublished, Late, IsPublished
<1>8. Unpromoted' /\ LoopStart'
  BY <1>1, <1>2, <1>3 DEF LoopInv, LoopRest, Unpromoted, LoopStart
<1>9. \A p \in LatestDone' \ LatestDone : IsLatest(p)
  BY <1>3, <1>6 DEF LatestDone, Behind
<1>. QED BY <1>1, <1>2, <1>5, <1>7, <1>8, <1>9, LateLoop DEF Late

\* The read path answers for a published version what npm knows of its tag.
LEMMA SeenOff ==
  ASSUME LaneInv, MemoryInv, LoopInv, phase \in Late, NEW p \in Packages,
         served[p].next # Own(p)
  PROVE  OffNext(p)
<1>1. /\ journal \in Journals /\ journal.sha \in Releases
      /\ Own(p) = VersionOf[journal.sha][p]
  BY OwnVersion DEF Journals, Own, Late
<1>2. served[p].bytes[Own(p)] # None
  BY <1>1, NoJournalAssumption DEF LoopInv, LoopRest, LatePublished, MemoryInv, JournalsServed,
                                   RecordedServed
<1>. QED BY <1>1, <1>2 DEF LoopInv, NextServed, OffNext

\* The loop that drops the candidate tags.
LEMMA DropLoop ==
  ASSUME LaneInv, MemoryInv, LoopInv, [Next]_vars, journal' = journal,
         phase \in {"drop", "removing", "removed"}, at' \in Packages,
         \/ /\ phase' = IF at = N THEN "tag" ELSE "drop"
            /\ at' = IF at = N THEN 1 ELSE at + 1
            /\ served[at].next = None
         \/ phase' \in {"removing", "removed"} /\ at' = at
  PROVE  LoopRest'
<1>1. phase \in Late /\ at \in Packages /\ phase' \in {"drop", "removing", "removed", "tag"}
  BY DEF Late, LaneInv, TypeOK
<1>2. LatestDone' = Packages /\ LatestDone = Packages /\ ReleasesDone' = {}
  BY <1>1 DEF LatestDone, ReleasesDone, Behind
<1>3. ASSUME NEW p \in NextDone' \ NextDone PROVE OffNext(p)
  <2>1. p \in Packages /\ p = at /\ served[at].next = None
    BY <1>1, LaneAssumption DEF NextDone, Behind, Packages
  <2>2. Own(at) # None
    BY <1>1, OwnVersion, LaneAssumption DEF Late
  <2>. QED BY <1>1, <2>1, <2>2, SeenOff
<1>4. LatePublished' /\ Unpromoted' /\ LoopStart'
  BY <1>1 DEF LoopInv, LoopRest, LatePublished, Unpromoted, LoopStart
<1>. QED BY <1>1, <1>2, <1>3, <1>4, LateLoop DEF Late

LEMMA DroppingLoop ==
  ASSUME LaneInv, MemoryInv, LoopInv, [Next]_vars,
         ReadCandidate \/ RemoveCandidate \/ RemovalFails \/ WaitForCandidateTagRemoval
  PROVE  LoopRest'
<1>1. CASE End
  BY <1>1, EndLoop
<1>2. CASE ~End
  <2>1. /\ journal' = journal /\ phase \in {"drop", "removing", "removed"}
        /\ \/ /\ phase' = IF at = N THEN "tag" ELSE "drop"
              /\ at' = IF at = N THEN 1 ELSE at + 1
              /\ served[at].next = None
           \/ phase' \in {"removing", "removed"} /\ at' = at
    BY <1>2 DEF ReadCandidate, RemoveCandidate, RemovalFails, WaitForCandidateTagRemoval,
                Throw, Advance, Goto, CleanTag, Gone
  <2>2. at' \in Packages
    BY <2>1, LaneAssumption DEF LaneInv, TypeOK, Packages
  <2>. QED BY <2>1, <2>2, DropLoop
<1>. QED BY <1>1, <1>2

LEMMA TagLoop == ASSUME LaneInv, LoopInv, [Next]_vars, TagAndPush PROVE LoopRest'
<1>1. CASE End
  BY <1>1, EndLoop
<1>2. CASE ~End
  <2>1. /\ phase = "tag" /\ phase' = "releases" /\ UNCHANGED <<at, journal>>
        /\ \A p \in Packages : TagFits(gitTag[p][Own(p)])
        /\ gitTag' = [p \in Packages |->
                         IF gitTag[p][Own(p)] = None
                         THEN [gitTag[p] EXCEPT ![Own(p)] = journal.sha] ELSE gitTag[p]]
    BY <1>2 DEF TagAndPush, Throw
  <2>2. at = 1
    BY <2>1 DEF LoopInv, LoopRest, LoopStart
  <2>3. /\ LatestDone' = Packages /\ LatestDone = Packages
        /\ NextDone' = Packages /\ NextDone = Packages /\ ReleasesDone' = {}
    BY <2>1, <2>2 DEF LatestDone, NextDone, ReleasesDone, Behind, Packages
  <2>4. ASSUME NEW p \in Packages PROVE IsTagged(p)'
    <3>1. Own(p) \in Versions /\ gitTag[p] \in [Versions -> Releases \cup {None}]
      BY <2>1, OwnVersion DEF LaneInv, TypeOK, Marks
    <3>2. Own(p)' = Own(p)
      BY <2>1 DEF Own
    <3>. QED BY <2>1, <3>1, <3>2 DEF IsTagged, TagFits
  <2>5. LatePublished' /\ Unpromoted' /\ LoopStart'
    BY <2>1 DEF LoopInv, LoopRest, LatePublished, Unpromoted, LoopStart, Late
  <2>. QED BY <2>1, <2>3, <2>4, <2>5, LateLoop DEF Late
<1>. QED BY <1>1, <1>2

LEMMA ReleaseLoop == ASSUME LaneInv, LoopInv, [Next]_vars, Release PROVE LoopRest'
<1>1. CASE End
  BY <1>1, EndLoop
<1>2. CASE ~End
  <2>1. /\ phase = "releases" /\ phase' = "releases" /\ journal' = journal
        /\ at \in Packages /\ at # N /\ at' = at + 1
        /\ gh' = [gh EXCEPT ![at] = [gh[at] EXCEPT ![Own(at)] = journal.sha]]
    BY <1>2 DEF Release, Throw, LaneInv, TypeOK
  <2>2. /\ LatestDone' = Packages /\ LatestDone = Packages
        /\ NextDone' = Packages /\ NextDone = Packages
    BY <2>1 DEF LatestDone, NextDone, Behind
  <2>3. \A p \in ReleasesDone' \ ReleasesDone : p = at
    BY <2>1, LaneAssumption DEF ReleasesDone, Behind, Packages
  <2>5. ASSUME NEW p \in Packages, p = at PROVE IsReleased(p)'
    <3>1. Own(p) \in Versions /\ gh \in Marks /\ Own(p)' = Own(p)
      BY <2>1, OwnVersion DEF LaneInv, TypeOK, Own
    <3>. QED BY <2>1, <2>5, <3>1 DEF IsReleased, Marks
  <2>6. LatePublished' /\ Unpromoted' /\ LoopStart'
    BY <2>1 DEF LoopInv, LoopRest, LatePublished, Unpromoted, LoopStart, Late
  <2>7. \A p \in ReleasesDone' \ ReleasesDone : IsReleased(p)'
    BY <2>1, <2>3, <2>5 DEF ReleasesDone, Behind
  <2>. QED BY <2>1, <2>2, <2>6, <2>7, LateLoop DEF Late
<1>. QED BY <1>1, <1>2

LEMMA NextLoop ==
  ASSUME LaneInv, MemoryInv, LoopInv, [Next]_vars
  PROVE  LoopInv'
<1>1. NextServed'
  BY NextServedKept DEF LoopInv
<1>2. LoopRest'
  <2>1. CASE Step
    <3>1. CASE \E built \in [Packages -> Bytes] : Pack(built) \/ PackRefuses(built)
      BY <3>1, PackLoop, EndLoop DEF PackRefuses, Throw
    <3>2. CASE DryRunEnds
      BY <3>2, EndLoop DEF DryRunEnds, Throw
    <3>. QED BY <2>1, <3>1, <3>2, PublishingLoop, VerifyLoop, PromoteLoop, WaitForDistTagLoop,
                DroppingLoop, TagLoop, ReleaseLoop DEF Step
  <2>2. CASE Dispatch \/ RunnerLost
    BY <2>2, EarlyLoop DEF Dispatch, Preflight, RunnerLost
  <2>3. CASE CommandFails
    BY <2>3, EndLoop DEF CommandFails
  <2>4. ASSUME NEW p \in Packages,
               Propagate(p) \/ OthersDropNext(p) \/ \E v \in Versions : OthersMoveNext(p, v)
        PROVE  LoopRest'
    BY <2>4, StillLoop DEF Propagate, OthersDropNext, OthersMoveNext
  <2>5. CASE UNCHANGED vars
    BY <2>5, StillLoop DEF vars
  <2>. QED BY <2>1, <2>2, <2>3, <2>4, <2>5, DroppingLoop DEF Next
<1>. QED BY <1>1, <1>2 DEF LoopInv

LEMMA NextMemory ==
  ASSUME LaneInv, MemoryInv, LoopInv, [Next]_vars
  PROVE  MemoryInv'
<1>1. CASE Records("promoted")
  <2>1. phase = "waiting" /\ at \in Packages /\ IsPublished(journal.state[at])
    BY <1>1 DEF Records, LaneInv, TypeOK, LoopInv, LoopRest, LatePublished, Late
  <2>2. journal # None
    BY <2>1 DEF LaneInv, TypeOK
  <2>3. served[at].bytes[Own(at)] # None
    BY <2>1, <2>2 DEF MemoryInv, JournalsServed, RecordedServed, Own
  <2>. QED BY <1>1, <2>3, RecordsMemory
<1>2. CASE Records("published")
  BY <1>2, RecordsMemory
<1>. QED BY <1>1, <1>2, JournalSteps, KeepsMemory, LosesMemory, StartsMemory, EndMemory, PackMemory

LEMMA InitLoop == Init => LoopInv
<1>. SUFFICES ASSUME Init PROVE LoopInv
  OBVIOUS
<1>1. NextServed
  BY LaneAssumption DEF Init, Absent, NextServed
<1>2. LoopRest
  BY DEF Init, LoopRest, LatePublished, Unpromoted, LoopsDone, LoopStart, LatestDone, NextDone,
         ReleasesDone, Behind, Late
<1>. QED BY <1>1, <1>2 DEF LoopInv

DispatchInv == LaneInv /\ MemoryInv /\ LoopInv

LEMMA DispatchHolds == Spec => []DispatchInv
<1>1. Init => DispatchInv
  BY InitInv, InitMemory, InitLoop DEF DispatchInv
<1>2. DispatchInv /\ [Next]_vars => DispatchInv'
  BY NextInv, NextMemory, NextLoop DEF DispatchInv
<1>. QED BY <1>1, <1>2, PTL DEF Spec

\* npm publish is never run for a version some journal records as published,
\* although every dispatch packs anew and only asks the lagging read path.
THEOREM NeverAgain == Spec => NoRepublish
<1>1. DispatchInv /\ [Next]_vars =>
        [\A p \in Packages, r \in Releases, d \in BOOLEAN :
           /\ Publishes(p)
           /\ uploaded[r][d] # None /\ VersionOf[r][p] = Own(p)
           => ~IsPublished(uploaded[r][d].state[p])]_vars
  BY DEF DispatchInv, MemoryInv, PackedAnew, Unrecorded, Publishes
<1>. QED BY <1>1, DispatchHolds, PTL DEF Spec, NoRepublish

\* A dispatch that reaches its end leaves every package promoted with the packed
\* bytes, off the candidate tag, tagged and released at one commit.
THEOREM CompleteReleased == Spec => CompleteMeansReleased
<1>1. DispatchInv /\ [Next]_vars =>
        [Completes => \A p \in Packages :
           LET v == Own(p) IN
           /\ now[p].bytes[v] = journal.packed[p]
           /\ now[p].latest = v /\ now[p].next # v
           /\ gitTag[p][v] = journal.sha /\ gh'[p][v] = journal.sha]_vars
  <2>. SUFFICES ASSUME DispatchInv, [Next]_vars, Completes, NEW p \in Packages
                PROVE  /\ now[p].bytes[Own(p)] = journal.packed[p]
                       /\ now[p].latest = Own(p) /\ now[p].next # Own(p)
                       /\ gitTag[p][Own(p)] = journal.sha /\ gh'[p][Own(p)] = journal.sha
    OBVIOUS
  <2>1. phase = "releases" /\ p \in LatestDone /\ p \in NextDone
    BY DEF Completes, LatestDone, NextDone, Behind
  <2>2. /\ IsLatest(p) /\ OffNext(p) /\ IsTagged(p)
        /\ now[p].bytes[Own(p)] = journal.packed[p]
    BY <2>1 DEF DispatchInv, LaneInv, WholeRelease, Late, LoopInv, LoopRest, LoopsDone
  <2>3. gh'[p][Own(p)] = journal.sha
    <3>1. Release
      BY <2>1, LaneAssumption
         DEF Completes, DispatchInv, LaneInv, TypeOK, Next, Step, Dispatch, Preflight, CommandFails,
             RunnerLost, RemovalFails, Propagate, OthersDropNext, OthersMoveNext, Fault, vars,
             Pack, PackRefuses, DryRunEnds, SkipPublished, NpmPublish, AssertRegistryIntegrity,
             Verify, Promote, WaitForDistTag, ReadCandidate, RemoveCandidate,
             WaitForCandidateTagRemoval, TagAndPush
    <3>2. at = N /\ gh'[N][Own(N)] = journal.sha /\ gh \in Marks /\ Own(N) \in Versions
      BY <2>1, OwnVersion, LaneAssumption DEF Completes, DispatchInv, LaneInv, TypeOK, Packages
    <3>3. p = N \/ p \in ReleasesDone
      BY <2>1, <3>2, LaneAssumption DEF ReleasesDone, Behind, Packages
    <3>4. p # N => gh'[p] = gh[p] /\ gh[p][Own(p)] = journal.sha
      BY <2>1, <3>1, <3>2, <3>3 DEF Release, Throw, Marks, DispatchInv, LoopInv, LoopRest, LoopsDone,
                                    IsReleased
    <3>. QED BY <3>2, <3>4
  <2>. QED BY <2>2, <2>3 DEF IsLatest, OffNext, IsTagged
<1>. QED BY <1>1, DispatchHolds, PTL DEF Spec, CompleteMeansReleased

---------------------------------------------------------------------------
(* What the lane asks npm.                                                 *)

\* The least of some of the first two lines is one of them.
LEMMA FirstHit ==
  ASSUME NEW lines, NEW hits \in SUBSET {1, 2}, hits # {}
  PROVE  \E i \in hits : Npm!First(lines, hits) = <<lines[i]>>
<1>1. \E i \in hits : \A j \in hits : i <= j
  <2>1. CASE 1 \in hits
    BY <2>1
  <2>2. CASE 1 \notin hits
    <3>1. hits = {2}
      <4>1. PICK i \in hits : TRUE
        OBVIOUS
      <4>. QED BY <2>2, <4>1
    <3>. QED BY <3>1
  <2>. QED BY <2>1, <2>2
<1>2. Npm!Min(hits) \in hits
  BY <1>1 DEF Npm!Min
<1>. QED BY <1>2 DEF Npm!First

\* An answer has no more than two of the lines that matter.
LEMMA AnswerLines ==
  ASSUME NEW f \in BOOLEAN, NEW d \in BOOLEAN, NEW a \in Npm!Answers(f, d)
  PROVE  /\ a.denied = d /\ a.flaky \in BOOLEAN
         /\ DOMAIN a.lines \in SUBSET {1, 2}
         /\ f => \A i \in DOMAIN a.lines : a.lines[i] \in Npm!Lines(TRUE)
<1>. DEFINE AnyLine == [lines : {<<>>} \cup {<<l>> : l \in Npm!Lines(f)}
                                \cup {<<l, m>> : l \in Npm!Lines(f), m \in Npm!Lines(f)},
                        denied : {d}, flaky : BOOLEAN]
            Plain == [lines : Npm!Standard, denied : {FALSE}, flaky : {FALSE}]
<1>0. Npm!Answers(f, d) = AnyLine \cup IF f \/ d THEN {} ELSE Plain
  BY DEF Npm!Answers
<1>1. CASE ~f /\ ~d /\ a \in Plain
  <2>1. a.denied = d /\ a.flaky = FALSE
    BY <1>1
  <2>2. \/ \E l, m : a.lines = <<l, m>>
        \/ \E l : a.lines = <<l>>
    BY <1>1 DEF Npm!Standard
  <2>3. DOMAIN a.lines \in SUBSET {1, 2}
    <3>1. ASSUME NEW l, NEW m, a.lines = <<l, m>> PROVE DOMAIN a.lines \in SUBSET {1, 2}
      BY <3>1
    <3>2. ASSUME NEW l, a.lines = <<l>> PROVE DOMAIN a.lines \in SUBSET {1, 2}
      BY <3>2
    <3>. QED BY <2>2, <3>1, <3>2
  <2>. QED BY <1>1, <2>1, <2>3
<1>2. CASE a \in AnyLine
  <2>1. a.denied = d /\ a.flaky \in BOOLEAN
    BY <1>2
  <2>2. \/ a.lines = <<>>
        \/ \E l \in Npm!Lines(f) : a.lines = <<l>>
        \/ \E l \in Npm!Lines(f), m \in Npm!Lines(f) : a.lines = <<l, m>>
    BY <1>2
  <2>3. DOMAIN a.lines \in SUBSET {1, 2} /\ \A i \in DOMAIN a.lines : a.lines[i] \in Npm!Lines(f)
    <3>1. CASE a.lines = <<>>
      BY <3>1
    <3>2. CASE \E l \in Npm!Lines(f) : a.lines = <<l>>
      BY <3>2
    <3>3. CASE \E l \in Npm!Lines(f), m \in Npm!Lines(f) : a.lines = <<l, m>>
      BY <3>3
    <3>. QED BY <2>2, <3>1, <3>2, <3>3
  <2>4. f => f = TRUE
    OBVIOUS
  <2>5. f => \A i \in DOMAIN a.lines : a.lines[i] \in Npm!Lines(TRUE)
    BY <2>3, <2>4
  <2>. HIDE DEF AnyLine, Plain
  <2>. QED BY <2>1, <2>3, <2>5
<1>3. a \in AnyLine \/ (~f /\ ~d /\ a \in Plain)
  <2>. HIDE DEF AnyLine, Plain
  <2>. QED BY <1>0
<1>. HIDE DEF AnyLine, Plain
<1>. QED BY <1>1, <1>2, <1>3

\* What is there is named neither by the no-match line nor by an error.
LEMMA FoundNames ==
  ASSUME NEW l \in Npm!Lines(TRUE)
  PROVE  l.line = "nomatch" \/ Npm!IsResource(l) => l.names # Npm!Asked
<1>1. CASE \E n \in Npm!Named \ {Npm!Asked} : l = Npm!NoMatch(n)
  BY <1>1 DEF Npm!NoMatch
<1>2. CASE \E n \in Npm!Named : l = Npm!Resource("notice", n)
  BY <1>2 DEF Npm!Resource, Npm!IsResource
<1>3. CASE \E n \in Npm!Named \ {Npm!Asked} : l = Npm!Resource("error", n)
  BY <1>3 DEF Npm!Resource
<1>. QED BY <1>1, <1>2, <1>3 DEF Npm!Lines

\* A refusal is no absence, and only what is not there is absent.
LEMMA VerdictSound ==
  ASSUME NEW f \in BOOLEAN, NEW d \in BOOLEAN, NEW v \in Npm!Verdicts[f][d]
  PROVE  /\ v \in {"auth", "transient", "absent", "fatal"}
         /\ (v = "auth") = d
         /\ v = "absent" => ~f
<1>1. PICK a \in Npm!Answers(f, d) : v = Npm!ClassifyNpmFailure(a)
  BY DEF Npm!Verdicts
<1>2. a.denied = d
  BY AnswerLines
<1>3. f => ~Npm!AbsenceNamesSpec(a.lines)
  <2>1. SUFFICES ASSUME f, Npm!AbsenceNamesSpec(a.lines)
                 PROVE  FALSE
    OBVIOUS
  <2>2. DOMAIN a.lines \in SUBSET {1, 2} /\ \A i \in DOMAIN a.lines : a.lines[i] \in Npm!Lines(TRUE)
    BY <2>1, AnswerLines
  <2>. DEFINE matches == {i \in DOMAIN a.lines : a.lines[i].line = "nomatch"}
              resources == {i \in DOMAIN a.lines : Npm!IsResource(a.lines[i])}
              match == Npm!First(a.lines, matches)
              resource == Npm!First(a.lines, resources)
  <2>3. match # <<>> => match[1].names # Npm!Asked
    <3>1. matches # {} => \E i \in matches : match = <<a.lines[i]>>
      BY <2>2, FirstHit
    <3>2. matches = {} => match = <<>>
      BY DEF Npm!First
    <3>3. ASSUME NEW i \in matches PROVE a.lines[i].names # Npm!Asked
      BY <2>2, FoundNames
    <3>. QED BY <3>1, <3>2, <3>3
  <2>4. resource # <<>> => resource[1].names # Npm!Asked
    <3>1. resources # {} => \E i \in resources : resource = <<a.lines[i]>>
      BY <2>2, FirstHit
    <3>2. resources = {} => resource = <<>>
      BY DEF Npm!First
    <3>3. ASSUME NEW i \in resources PROVE a.lines[i].names # Npm!Asked
      BY <2>2, FoundNames
    <3>. QED BY <3>1, <3>2, <3>3
  <2>. QED BY <2>1, <2>3, <2>4 DEF Npm!AbsenceNamesSpec
<1>4. v = IF d THEN "auth" ELSE IF a.flaky THEN "transient"
          ELSE IF Npm!AbsenceNamesSpec(a.lines) THEN "absent" ELSE "fatal"
  <2>1. a.flaky \in BOOLEAN
    BY AnswerLines
  <2>. QED BY <1>1, <1>2, <2>1 DEF Npm!ClassifyNpmFailure, Npm!AuthEvidence
<1>. QED BY <1>3, <1>4

\* One child prints nothing, one value or too many: never another value.
LEMMA PrintedSound ==
  ASSUME NEW p \in Npm!Printed, npm_served \in Npm!Values
  PROVE  /\ ~npm_refused
         /\ Npm!NormaliseViewAnswer(p) \in {npm_served, "shape"}
<1>1. ~npm_refused
  BY DEF Npm!Printed
<1>2. CASE npm_served = "none" /\ p \in {<<>>, <<"none">>}
  <2>1. {i \in DOMAIN p : p[i] # "none"} = {}
    BY <1>2
  <2>. QED BY <1>1, <1>2, <2>1 DEF Npm!NormaliseViewAnswer
<1>3. CASE npm_served # "none" /\ p \in {<<npm_served>>, <<"none", npm_served>>, <<npm_served, npm_served>>}
  <2>. DEFINE strings == {i \in DOMAIN p : p[i] # "none"}
  <2>1. \A i \in strings : p[i] = npm_served
    BY <1>3
  <2>2. strings # {}
    <3>1. CASE p = <<npm_served>>
      BY <1>3, <3>1
    <3>2. CASE p = <<"none", npm_served>>
      <4>1. 2 \in DOMAIN p /\ p[2] = npm_served
        BY <3>2
      <4>. QED BY <1>3, <4>1
    <3>3. CASE p = <<npm_served, npm_served>>
      <4>1. 1 \in DOMAIN p /\ p[1] = npm_served
        BY <3>3
      <4>. QED BY <1>3, <4>1
    <3>. QED BY <1>3, <3>1, <3>2, <3>3
  <2>3. p[CHOOSE i \in strings : TRUE] = npm_served
    BY <2>1, <2>2
  <2>. QED BY <1>1, <2>2, <2>3 DEF Npm!NormaliseViewAnswer
<1>. QED BY <1>2, <1>3, <1>1 DEF Npm!Printed

\* What a child says is what it saw, or that it saw nothing for sure; and it
\* is refused exactly when it says so.
LEMMA EndSound ==
  ASSUME Npm!TypeOK, NEW t \in Nat, NEW e \in Npm!Ends(t)
  PROVE  /\ e.took \in 0..t
         /\ e.says \in Npm!Values \cup Npm!Failures
         /\ e.seen \in Npm!Values \cup {"nothing", "refusal"}
         /\ e.says \in Npm!Values => e.seen = e.says
         /\ e.says = "auth" => e.seen = "refusal"
<1>. DEFINE Told == [took : 0..t, says : Npm!Outcomes, seen : {Npm!Seen}]
            Killed == [took |-> t, says |-> "transient", seen |-> npm_saw]
<1>1. e \in Told \/ e = Killed
  BY DEF Npm!Ends
<1>2. /\ npm_served \in Npm!Values /\ npm_refused \in BOOLEAN
      /\ npm_saw \in Npm!Values \cup {"nothing", "refusal"}
  BY DEF Npm!TypeOK
<1>3. CASE e = Killed
  BY <1>2, <1>3 DEF Npm!Values, Npm!Failures
<1>4. CASE e \in Told
  <2>1. e.took \in 0..t /\ e.says \in Npm!Outcomes /\ e.seen = Npm!Seen
    BY <1>4
  <2>2. ASSUME NEW p \in Npm!Printed, e.says = Npm!NormaliseViewAnswer(p)
        PROVE  e.says \in {npm_served, "shape"} /\ e.seen = npm_served
    BY <1>2, <2>1, <2>2, PrintedSound DEF Npm!Seen
  <2>3. ASSUME NEW v \in Npm!Verdicts[npm_served # "none"][npm_refused],
               e.says = IF v = "absent" THEN "none" ELSE v
        PROVE  /\ e.says \in {"auth", "transient", "none", "fatal"}
               /\ e.says = "none" => e.seen = "none"
               /\ e.says = "auth" => e.seen = "refusal"
    <3>1. /\ v \in {"auth", "transient", "absent", "fatal"}
          /\ (v = "auth") = npm_refused
          /\ v = "absent" => npm_served = "none"
      BY <1>2, VerdictSound
    <3>. QED BY <1>2, <2>1, <2>3, <3>1 DEF Npm!Seen
  <2>4. \/ \E p \in Npm!Printed : e.says = Npm!NormaliseViewAnswer(p)
        \/ \E v \in Npm!Verdicts[npm_served # "none"][npm_refused] :
             e.says = IF v = "absent" THEN "none" ELSE v
    BY <2>1 DEF Npm!Outcomes
  <2>5. CASE \E p \in Npm!Printed : e.says = Npm!NormaliseViewAnswer(p)
    <3>1. e.says \in {npm_served, "shape"} /\ e.seen = npm_served
      BY <2>2, <2>5
    <3>. QED BY <1>2, <2>1, <3>1 DEF Npm!Values, Npm!Failures
  <2>6. CASE \E v \in Npm!Verdicts[npm_served # "none"][npm_refused] :
               e.says = IF v = "absent" THEN "none" ELSE v
    <3>1. /\ e.says \in {"auth", "transient", "none", "fatal"}
          /\ e.says = "none" => e.seen = "none"
          /\ e.says = "auth" => e.seen = "refusal"
      BY <2>3, <2>6
    <3>2. e.seen \in Npm!Values \cup {"refusal"}
      BY <1>2, <2>1 DEF Npm!Seen
    <3>. QED BY <2>1, <3>1, <3>2 DEF Npm!Values, Npm!Failures
  <2>. QED BY <2>4, <2>5, <2>6
<1>. HIDE DEF Told, Killed
<1>. QED BY <1>1, <1>3, <1>4

\* A pause is a number of ticks that the budget still has.
LEMMA PauseFits ==
  ASSUME Npm!TypeOK, NEW d \in 0..Npm!Remaining
  PROVE  Npm!Slept(d) \in 0..(Npm!Remaining - d)
<1>1. npm_tried \in Nat /\ npm_clock \in Nat /\ npm_deadline \in Nat
  BY DEF Npm!TypeOK
<1>2. Npm!Remaining \in Nat /\ Npm!Remaining - d \in Nat
  BY <1>1 DEF Npm!Remaining
<1>3. ASSUME NEW a \in Nat, NEW b \in Nat
      PROVE  Npm!Min({a, b}) \in {a, b} /\ Npm!Min({a, b}) <= a /\ Npm!Min({a, b}) <= b
  <2>1. \E x \in {a, b} : \A y \in {a, b} : x <= y
    <3>1. CASE a <= b
      BY <3>1
    <3>2. CASE b <= a
      BY <3>2
    <3>. QED BY <3>1, <3>2
  <2>. QED BY <2>1 DEF Npm!Min
<1>4. 2^npm_tried \in Nat
  <2>1. /\ IsFiniteSet(1..npm_tried)
        /\ Cardinality(1..npm_tried) = npm_tried
    BY <1>1, FS_Interval
  <2>2. IsFiniteSet(SUBSET (1..npm_tried)) /\ Cardinality(SUBSET (1..npm_tried)) = 2^npm_tried
    BY <2>1, FS_SUBSET
  <2>. QED BY <2>2, FS_CardinalityType
<1>5. InitialDelay * 2^npm_tried \in Nat
  <2>. DEFINE power == 2^npm_tried
  <2>1. power \in Nat
    BY <1>4
  <2>. HIDE DEF power
  <2>2. InitialDelay * power \in Nat
    BY <2>1, NpmAssumption
  <2>. QED BY <2>2 DEF power
<1>6. Npm!BackoffDelay(npm_tried) \in Nat
  BY <1>3, <1>5, NpmAssumption DEF Npm!BackoffDelay
<1>. QED BY <1>2, <1>3, <1>6 DEF Npm!Slept

NpmInv ==
  /\ Npm!TypeOK /\ Npm!AbsenceProven /\ Npm!OneBudget
  /\ npm_deadline = Budget /\ npm_clock <= Budget
  /\ npm_pc # "done" => npm_result = "none"
  /\ npm_pc = "outcome" => npm_why # "no"

\* Npm's operation goes on, or ends with what a child said.
LEMMA NpmGoesOn ==
  ASSUME NpmInv, Npm!TypeOK', npm_pc' # "done", npm_result' = npm_result, npm_pc # "done",
         npm_deadline' = npm_deadline, npm_clock' <= Budget,
         npm_pc' = "outcome" => npm_why' # "no"
  PROVE  NpmInv'
BY DEF NpmInv, Npm!AbsenceProven, Npm!OneBudget

LEMMA NpmInit ==
  ASSUME Npm!Init PROVE NpmInv
<1>1. Npm!TypeOK
  BY NpmAssumption DEF Npm!Init, Npm!TypeOK, Npm!Ops, Npm!Values, Npm!Results
<1>. QED
  BY <1>1, NpmAssumption DEF Npm!Init, NpmInv, Npm!AbsenceProven, Npm!OneBudget, Npm!Ops

\* A read by a child with t ticks to run; what npm was asked stays.
LEMMA NpmTook ==
  ASSUME NpmInv, NEW t \in 0..Npm!Remaining, NEW e \in Npm!Ends(t)
  PROVE  /\ npm_clock + e.took \in Nat /\ npm_clock + e.took <= Budget
         /\ e.took \in 0..Npm!Remaining
         /\ e.took = Npm!Remaining <=> npm_clock + e.took = Budget
<1>1. npm_clock \in Nat /\ npm_deadline = Budget /\ npm_clock <= Budget /\ Budget \in Nat
  BY NpmAssumption DEF NpmInv, Npm!TypeOK
<1>2. Npm!Remaining = Budget - npm_clock /\ Npm!Remaining \in Nat
  BY <1>1 DEF Npm!Remaining
<1>3. e.took \in 0..t
  BY <1>2, EndSound DEF NpmInv
<1>. QED BY <1>1, <1>2, <1>3

LEMMA NpmView ==
  ASSUME NpmInv, Npm!View PROVE NpmInv'
<1>. USE DEF Npm!View, Npm!ask, Npm!Done
<1>1. PICK e \in Npm!Ends(0) :
        /\ npm_saw' = e.seen
        /\ IF e.says = "transient" /\ Npm!ViewTries
           THEN UNCHANGED <<npm_pc, npm_result>>
           ELSE npm_pc' = "done" /\ npm_result' = IF e.says = "none" THEN "absent" ELSE e.says
  OBVIOUS
<1>2. /\ e.says \in Npm!Values \cup Npm!Failures
      /\ e.seen \in Npm!Values \cup {"nothing", "refusal"}
      /\ e.says \in Npm!Values => e.seen = e.says
      /\ e.says = "auth" => e.seen = "refusal"
  BY EndSound DEF NpmInv
<1>. HIDE DEF Npm!View, Npm!ask, Npm!Done
<1>. QED
  BY <1>1, <1>2 DEF Npm!View, Npm!ask, NpmInv, Npm!TypeOK, Npm!AbsenceProven, Npm!OneBudget,
                    Npm!Values, Npm!Failures, Npm!Results

\* One read and what follows from it: the fields that a step may set.
LEMMA NpmPoll ==
  ASSUME NpmInv, Npm!Poll PROVE NpmInv'
<1>1. /\ npm_pc = "poll" /\ Npm!Remaining > 0 /\ npm_tried' = npm_tried + 1
      /\ UNCHANGED <<npm_op, npm_now, npm_served, npm_refused, npm_deadline, npm_changes, npm_why>>
  BY DEF Npm!Poll, Npm!ask
<1>2. PICK e \in Npm!Ends(Npm!Remaining) :
        /\ npm_saw' = e.seen
        /\ npm_clock' = npm_clock + e.took
                          + IF Npm!Verdict(e.says) = "wait" THEN Npm!Slept(e.took) ELSE 0
        /\ IF Npm!Verdict(e.says) = "wait" THEN UNCHANGED <<npm_pc, npm_result>>
           ELSE npm_pc' = "done" /\ npm_result' = Npm!Verdict(e.says)
  BY DEF Npm!Poll, Npm!Done
<1>3. Npm!Remaining \in Nat /\ Npm!TypeOK
  BY NpmAssumption DEF NpmInv, Npm!TypeOK, Npm!Remaining
<1>4. /\ e.says \in Npm!Values \cup Npm!Failures
      /\ e.seen \in Npm!Values \cup {"nothing", "refusal"}
      /\ e.says \in Npm!Values => e.seen = e.says
      /\ e.says = "auth" => e.seen = "refusal"
      /\ e.took \in 0..Npm!Remaining
  BY <1>3, EndSound
<1>5. npm_clock' \in Nat /\ npm_clock' <= Budget
  <2>1. npm_clock \in Nat /\ npm_deadline = Budget /\ npm_clock <= Budget /\ Budget \in Nat
    BY NpmAssumption DEF NpmInv, Npm!TypeOK
  <2>2. Npm!Remaining = Budget - npm_clock
    BY <2>1 DEF Npm!Remaining
  <2>3. Npm!Slept(e.took) \in 0..(Npm!Remaining - e.took)
    BY <1>3, <1>4, PauseFits
  <2>. QED BY <1>2, <1>4, <2>1, <2>2, <2>3
<1>6. CASE Npm!Verdict(e.says) = "wait"
  BY <1>1, <1>2, <1>4, <1>5, <1>6 DEF NpmInv, Npm!TypeOK, Npm!AbsenceProven, Npm!OneBudget
<1>7. CASE Npm!Verdict(e.says) # "wait"
  <2>. DEFINE v == Npm!Verdict(e.says)
  <2>1. /\ v \in {"removed", "ours", "auth", "fatal", "shape", "mismatch", "moved", "wait"}
        /\ v = "removed" => e.seen = "none"
        /\ v \in {"ours", "mismatch", "moved"} => e.seen \in {"ours", "other"}
        /\ v = "auth" => e.seen = "refusal"
    <3>1. e.says \in {"none", "ours", "other", "transient", "auth", "fatal", "shape"}
      BY <1>4 DEF Npm!Values, Npm!Failures
    <3>. QED BY <1>4, <3>1 DEF Npm!Verdict, Npm!Wanted, Npm!Values
  <2>2. npm_pc' = "done" /\ npm_result' = v
    BY <1>2, <1>7
  <2>. HIDE DEF v
  <2>. QED BY <1>1, <1>2, <1>4, <1>5, <1>7, <2>1, <2>2
           DEF NpmInv, Npm!TypeOK, Npm!AbsenceProven, Npm!OneBudget, Npm!Results, Npm!Failures
<1>. QED BY <1>6, <1>7

LEMMA NpmReadBefore ==
  ASSUME NpmInv, Npm!ReadBefore PROVE NpmInv'
<1>1. /\ npm_pc = "read"
      /\ UNCHANGED <<npm_op, npm_now, npm_served, npm_refused, npm_deadline, npm_changes,
                     npm_tried, npm_why>>
  BY DEF Npm!ReadBefore, Npm!ask
<1>. DEFINE told(e) == CASE e.says = "none" -> "removed"
                         [] e.says = "other" -> "moved"
                         [] e.says \in {"transient", "shape"} /\ npm_clock' >= npm_deadline -> "late"
                         [] OTHER -> e.says
<1>2. PICK e \in Npm!Ends(Npm!Remaining) :
        /\ npm_saw' = e.seen /\ npm_clock' = npm_clock + e.took
        /\ IF e.says = "ours" THEN npm_pc' = "command" /\ UNCHANGED npm_result
           ELSE npm_pc' = "done" /\ npm_result' = told(e)
  BY DEF Npm!ReadBefore, Npm!Done
<1>3. Npm!Remaining \in 0..Npm!Remaining /\ Npm!Remaining \in Nat /\ Npm!TypeOK
  BY NpmAssumption DEF NpmInv, Npm!TypeOK, Npm!Remaining
<1>4. /\ e.says \in Npm!Values \cup Npm!Failures
      /\ e.seen \in Npm!Values \cup {"nothing", "refusal"}
      /\ e.says \in Npm!Values => e.seen = e.says
      /\ e.says = "auth" => e.seen = "refusal"
  BY <1>3, EndSound
<1>5. npm_clock' \in Nat /\ npm_clock' <= Budget
  BY <1>2, <1>3, NpmTook
<1>6. CASE e.says = "ours"
  BY <1>1, <1>2, <1>4, <1>5, <1>6 DEF NpmInv, Npm!TypeOK, Npm!AbsenceProven, Npm!OneBudget
<1>7. CASE e.says # "ours"
  <2>1. npm_pc' = "done" /\ npm_result' = told(e)
    BY <1>2, <1>7
  <2>2. /\ told(e) \in {"removed", "moved", "late", "transient", "auth", "fatal", "shape"}
        /\ told(e) = "removed" => e.seen = "none"
        /\ told(e) = "moved" => e.seen = "other"
        /\ told(e) = "auth" => e.seen = "refusal"
        /\ told(e) = "late" => npm_clock' >= npm_deadline
    <3>1. e.says \in {"none", "other", "transient", "auth", "fatal", "shape"}
      BY <1>4, <1>7 DEF Npm!Values, Npm!Failures
    <3>. QED BY <1>4, <3>1 DEF Npm!Values
  <2>3. npm_clock' >= npm_deadline => npm_clock' = Budget
    BY <1>5, NpmAssumption DEF NpmInv
  <2>. HIDE DEF told
  <2>. QED BY <1>1, <1>2, <1>4, <1>5, <2>1, <2>2, <2>3
           DEF NpmInv, Npm!TypeOK, Npm!AbsenceProven, Npm!OneBudget, Npm!Results, Npm!Failures
<1>. QED BY <1>6, <1>7

LEMMA NpmReadOutcome ==
  ASSUME NpmInv, Npm!ReadOutcome PROVE NpmInv'
<1>1. /\ npm_pc = "outcome" /\ npm_pc' = "done"
      /\ UNCHANGED <<npm_op, npm_now, npm_served, npm_refused, npm_deadline, npm_changes,
                     npm_tried, npm_why>>
  BY DEF Npm!ReadOutcome, Npm!ask, Npm!Done
<1>2. PICK e \in Npm!Ends(Npm!Remaining) :
        npm_saw' = e.seen /\ npm_clock' = npm_clock + e.took /\ npm_result' = Npm!Outcome(e.says)
  BY DEF Npm!ReadOutcome, Npm!Done
<1>3. Npm!Remaining \in 0..Npm!Remaining /\ Npm!Remaining \in Nat /\ Npm!TypeOK
  BY NpmAssumption DEF NpmInv, Npm!TypeOK, Npm!Remaining
<1>4. /\ e.says \in Npm!Values \cup Npm!Failures
      /\ e.seen \in Npm!Values \cup {"nothing", "refusal"}
      /\ e.says \in Npm!Values => e.seen = e.says
      /\ e.says = "auth" => e.seen = "refusal"
  BY <1>3, EndSound
<1>5. npm_clock' \in Nat /\ npm_clock' <= Budget
  BY <1>2, <1>3, NpmTook
<1>6. npm_why \in Npm!Failures
  BY <1>1 DEF NpmInv, Npm!TypeOK
<1>7. /\ npm_result' \in {"removed", "moved", "transient", "auth", "fatal", "shape"}
      /\ npm_result' = "removed" => e.seen = "none"
      /\ npm_result' = "moved" => e.seen = "other"
      /\ npm_result' = "auth" => e.seen = "refusal" \/ npm_why = "auth"
  BY <1>2, <1>4, <1>6 DEF Npm!Outcome, Npm!Values, Npm!Failures
<1>. QED BY <1>1, <1>2, <1>4, <1>5, <1>7
         DEF NpmInv, Npm!TypeOK, Npm!AbsenceProven, Npm!OneBudget, Npm!Results, Npm!Failures

\* The command: it takes its time, and names what it did when it fails.
LEMMA NpmCommand ==
  ASSUME NpmInv, Npm!Remove \/ Npm!RemoveFails PROVE NpmInv'
<1>1. npm_clock' \in Nat /\ npm_clock' <= Budget
  <2>1. npm_clock \in Nat /\ npm_deadline = Budget /\ npm_clock <= Budget /\ Budget \in Nat
    BY NpmAssumption DEF NpmInv, Npm!TypeOK
  <2>2. Npm!Remaining = Budget - npm_clock
    BY <2>1 DEF Npm!Remaining
  <2>3. PICK d \in 0..Npm!Remaining : npm_clock' = npm_clock + d
    BY DEF Npm!Remove, Npm!RemoveFails
  <2>. QED BY <2>1, <2>2, <2>3
<1>2. /\ npm_pc = "command" /\ npm_result' = npm_result /\ npm_saw' = npm_saw
      /\ npm_deadline' = npm_deadline
      /\ UNCHANGED <<npm_op, npm_served, npm_refused, npm_changes, npm_tried>>
  BY DEF Npm!Remove, Npm!RemoveFails, Npm!removal, Npm!Afresh
<1>3. /\ npm_now' \in {npm_now, "none"}
      /\ npm_why' \in {npm_why, "auth", "transient", "fatal"}
      /\ npm_pc' \in {"poll", "outcome"}
      /\ npm_pc' = "outcome" => npm_why' \in {"auth", "transient", "fatal"}
  BY DEF Npm!Remove, Npm!RemoveFails, Npm!removal
<1>. QED BY <1>1, <1>2, <1>3
         DEF NpmInv, Npm!TypeOK, Npm!AbsenceProven, Npm!OneBudget, Npm!Values, Npm!Failures

\* No time is left, or the others move.
LEMMA NpmLate ==
  ASSUME NpmInv, Npm!PollLate \/ Npm!TooLate PROVE NpmInv'
<1>1. /\ npm_pc \in {"poll", "command", "outcome"} /\ npm_pc' = "done" /\ Npm!Remaining = 0
      /\ UNCHANGED <<npm_op, npm_now, npm_served, npm_refused, npm_deadline, npm_changes,
                     npm_clock, npm_tried, npm_why, npm_saw>>
      /\ npm_result' = "late" \/ (npm_result' = npm_why /\ npm_why # "no")
  <2>1. CASE Npm!PollLate
    BY <2>1 DEF Npm!PollLate, Npm!Done, Npm!ask
  <2>2. CASE Npm!TooLate
    BY <2>2 DEF Npm!TooLate, Npm!Done, Npm!ask
  <2>. QED BY <2>1, <2>2
<1>2. npm_clock = Budget
  BY <1>1, NpmAssumption DEF NpmInv, Npm!TypeOK, Npm!Remaining
<1>. QED BY <1>1, <1>2
         DEF NpmInv, Npm!TypeOK, Npm!AbsenceProven, Npm!OneBudget, Npm!Failures, Npm!Results

LEMMA NpmOthers ==
  ASSUME NpmInv, Npm!Propagate \/ Npm!Change \/ Npm!Ended \/ UNCHANGED npm_vars PROVE NpmInv'
<1>1. CASE Npm!Propagate
  BY <1>1 DEF Npm!Propagate, NpmInv, Npm!TypeOK, Npm!AbsenceProven, Npm!OneBudget
<1>2. CASE Npm!Change
  <2>1. npm_changes' \in 0..MaxChanges
    BY <1>2, NpmAssumption DEF Npm!Change, NpmInv, Npm!TypeOK
  <2>2. npm_now' \in Npm!Values /\ npm_refused' \in BOOLEAN
    BY <1>2 DEF Npm!Change, NpmInv, Npm!TypeOK, Npm!Values
  <2>3. UNCHANGED <<npm_op, npm_pc, npm_served, npm_clock, npm_deadline, npm_tried, npm_why,
                    npm_result, npm_saw>>
    BY <1>2 DEF Npm!Change
  <2>. QED BY <2>1, <2>2, <2>3 DEF NpmInv, Npm!TypeOK, Npm!AbsenceProven, Npm!OneBudget
<1>3. CASE Npm!Ended \/ UNCHANGED npm_vars
  BY <1>3 DEF Npm!Ended, Npm!vars, npm_vars, NpmInv, Npm!TypeOK, Npm!AbsenceProven, Npm!OneBudget
<1>. QED BY <1>1, <1>2, <1>3

\* What a behaviour about npm keeps.
LEMMA NpmKeeps == AllSpec => [](which = "npm" => NpmInv)
<1>1. AllInit => (which = "npm" => NpmInv)
  BY NpmInit DEF AllInit
<1>2. (which = "npm" => NpmInv) /\ [AllNext]_all => (which = "npm" => NpmInv)'
  <2>1. SUFFICES ASSUME which = "npm" => NpmInv, [AllNext]_all, which' = "npm"
                 PROVE  NpmInv'
    OBVIOUS
  <2>2. which = "npm" /\ (Npm!Next \/ UNCHANGED npm_vars)
    BY <2>1 DEF AllNext, all
  <2>. QED BY <2>1, <2>2, NpmView, NpmPoll, NpmReadBefore, NpmReadOutcome, NpmCommand, NpmLate,
              NpmOthers DEF Npm!Next
<1>. QED BY <1>1, <1>2, PTL DEF AllSpec

\* "Absent" and "removed" are answers of the read path itself, and a refusal is
\* neither: classifyNpmFailure and removeCandidateTag, whatever npm prints.
THEOREM AbsencesProven == AllSpec => []AbsenceProven
<1>1. (which = "npm" => NpmInv) => AbsenceProven
  BY DEF NpmInv, AbsenceProven
<1>. QED BY <1>1, NpmKeeps, PTL

\* Every read, command and pause of an operation is within one budget, and none
\* gives up for lack of time before it is spent (createRegistryDeadline).
THEOREM BudgetHolds == AllSpec => []OneBudget
<1>1. (which = "npm" => NpmInv) => OneBudget
  BY DEF NpmInv, OneBudget
<1>. QED BY <1>1, NpmKeeps, PTL
=============================================================================
