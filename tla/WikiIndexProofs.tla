-------------------------- MODULE WikiIndexProofs --------------------------
(***************************************************************************)
(* Proofs about WikiIndex, for any files, calls, arguments and questions.  *)
(***************************************************************************)
EXTENDS WikiIndex, FiniteSetTheorems, WellFoundedInduction, TLAPS

\* Cutting a list of records leaves records of the same documents.
LEMMA CutKeeps ==
    ASSUME NEW f \in [Path -> Record], NEW max \in Nat
    PROVE  /\ Cut(f, max) \in [Path -> Record]
           /\ \A p \in Path : Cut(f, max)[p] = Nothing \/ Cut(f, max)[p].doc = f[p].doc
           /\ \A p \in Path : f[p] = Nothing => Cut(f, max)[p] = Nothing
           /\ max = 0 => Cut(f, max) = f
<1> DEFINE Kept(p) == {k \in 1..f[p].n : Before(f, p) + k <= max}
<1>1. \A p \in Path : Cardinality(Kept(p)) \in Nat
  <2> SUFFICES ASSUME NEW p \in Path PROVE Cardinality(Kept(p)) \in Nat
    OBVIOUS
  <2>1. f[p].n \in Nat
    BY DEF Record
  <2>2. IsFiniteSet(1..f[p].n)
    BY <2>1, FS_Interval
  <2>3. IsFiniteSet(Kept(p)) /\ Kept(p) \subseteq 1..f[p].n
    BY <2>2, FS_Subset
  <2> QED BY <2>3, FS_CardinalityType
<1>2. CASE max = 0
  BY <1>2 DEF Cut
<1>3. CASE max # 0
  <2> DEFINE Rest(p) == IF Kept(p) = {} THEN Nothing
                        ELSE [doc |-> f[p].doc, n |-> Cardinality(Kept(p))]
  <2>1. Cut(f, max) = [p \in Path |-> Rest(p)]
    BY <1>3 DEF Cut
  <2>2. \A p \in Path : Rest(p) \in Record
    <3> SUFFICES ASSUME NEW p \in Path PROVE Rest(p) \in Record
      OBVIOUS
    <3>1. Cardinality(Kept(p)) \in Nat /\ f[p].doc \in Doc \cup {Absent}
      BY <1>1 DEF Record
    <3> HIDE DEF Kept
    <3> QED BY <3>1 DEF Record, Nothing
  <2>3. \A p \in Path : Rest(p) = Nothing \/ Rest(p).doc = f[p].doc
    <3> HIDE DEF Kept
    <3> QED OBVIOUS
  <2>4. \A p \in Path : f[p] = Nothing => Rest(p) = Nothing
    BY DEF Nothing
  <2> HIDE DEF Rest
  <2> QED BY <1>3, <2>1, <2>2, <2>3, <2>4
<1> QED BY <1>2, <1>3

LEMMA WholeType ==
    ASSUME NEW d \in [Path -> Doc \cup {Absent}]
    PROVE  Whole(d) \in [Path -> Record]
<1>1. Chunks \in [Doc -> Nat]
  BY WikiIndexAssumption
<1> QED BY <1>1 DEF Whole, HasText, Nothing, Record

LEMMA EmptyType == NoFiles \in [Path -> Record] /\ 1 \in 1..Ended
<1>1. WalkOrder \in Seq(Path)
  BY WikiIndexAssumption
<1> QED BY <1>1 DEF NoFiles, Nothing, Record, Ended

\* The place of a call in the walk is the place of a path.
LEMMA Place ==
    ASSUME TypeOK, NEW c \in Call, Walking(c)
    PROVE  /\ Here(c) \in Path /\ Ended \in Nat /\ pos[c] \in 1..Ended
           /\ pos[c] + 1 \in 1..Ended /\ Ended \in 1..Ended
<1>1. WalkOrder \in Seq(Path)
  BY WikiIndexAssumption
<1>2. pos[c] \in 1..Ended
  BY DEF TypeOK
<1> QED BY <1>1, <1>2 DEF Walking, Here, Ended

LEMMA ShareType ==
    ASSUME TypeOK, NEW c \in Call, Here(c) \in Path, HasText(disk[Here(c)])
    PROVE  Share(c) \in Nat /\ (args[c].maxChunks = 0 => Share(c) = Chunks[disk[Here(c)]])
<1> DEFINE all == Chunks[disk[Here(c)]]
           kept == {k \in 1..all : Count(updates[c]) + k <= args[c].maxChunks}
<1>1. all \in Nat
  BY WikiIndexAssumption DEF TypeOK, HasText
<1>2. IsFiniteSet(1..all)
  BY <1>1, FS_Interval
<1>3. IsFiniteSet(kept)
  BY <1>2, FS_Subset
<1>4. Cardinality(kept) \in Nat
  BY <1>3, FS_CardinalityType
<1>5. Share(c) = IF args[c].maxChunks = 0 THEN all ELSE Cardinality(kept)
  BY DEF Share
<1> HIDE DEF all, kept
<1>6. Share(c) \in Nat /\ (args[c].maxChunks = 0 => Share(c) = all)
  BY <1>1, <1>4, <1>5
<1> QED BY <1>6 DEF all
-----------------------------------------------------------------------------
\* What a step of the walk does to the other variables, in one place.
LEMMA VisitType ==
    ASSUME TypeOK, NEW c \in Call, Visits(c),
           pos' \in [Call -> 1..Ended], scanned' \in [Call -> Nat],
           seen' \in [Call -> SUBSET Path], updates' \in [Call -> [Path -> Record]]
    PROVE  TypeOK'
BY DEF TypeOK, Visits, asks

\* Every variable keeps its type.
THEOREM Typing == Spec => []TypeOK
<1>1. Init => TypeOK
  <2> SUFFICES ASSUME Init PROVE TypeOK
    OBVIOUS
  <2> USE WikiIndexAssumption
  <2>1. NoFiles \in [Path -> Record] /\ Whole(disk) \in [Path -> Record]
    BY WholeType, EmptyType DEF Init
  <2>2. 1 \in 1..Ended
    BY EmptyType
  <2>3. (CHOOSE a \in Args : TRUE) \in Args
    BY WikiIndexAssumption
  <2> QED BY <2>1, <2>2, <2>3 DEF Init, TypeOK, Locale
<1>2. TypeOK /\ [Next]_vars => TypeOK'
  <2> SUFFICES ASSUME TypeOK, [Next]_vars PROVE TypeOK'
    OBVIOUS
  <2> USE WikiIndexAssumption
  <2>0. NoFiles \in [Path -> Record] /\ 1 \in 1..Ended
    BY EmptyType
  <2>1. ASSUME NEW p \in Path, NEW d \in Doc \cup {Absent}, Edit(p, d) PROVE TypeOK'
    <3>1. disk' \in [Path -> Doc \cup {Absent}] /\ edits' \in Nat
      BY <2>1 DEF Edit, TypeOK
    <3>2. touched' \in [Call -> SUBSET Path]
      BY <2>1 DEF Edit, TypeOK
    <3> QED BY <2>1, <3>1, <3>2 DEF TypeOK, Edit, walk, asks
  <2>2. ASSUME NEW c \in Call, NEW a \in Args, Begin(c, a) PROVE TypeOK'
    BY <2>2 DEF TypeOK, Begin, walk, asks
  <2>3. ASSUME NEW c \in Call, PassBy(c) PROVE TypeOK'
    <3>1. pos' \in [Call -> 1..Ended]
      BY <2>3, Place DEF PassBy, Onward, TypeOK
    <3> QED BY <2>3, <3>1, VisitType DEF PassBy, TypeOK
  <2>4. ASSUME NEW c \in Call, ReachMaxFiles(c) PROVE TypeOK'
    <3>1. pos' \in [Call -> 1..Ended]
      BY <2>4, Place DEF ReachMaxFiles, Stop, TypeOK
    <3>2. scanned' \in [Call -> Nat]
      BY <2>4 DEF ReachMaxFiles, Scan, TypeOK
    <3> QED BY <2>4, <3>1, <3>2, VisitType DEF ReachMaxFiles, TypeOK
  <2>5. ASSUME NEW c \in Call, SkipUnsupported(c) PROVE TypeOK'
    <3>1. pos' \in [Call -> 1..Ended]
      BY <2>5, Place DEF SkipUnsupported, Onward, TypeOK
    <3>2. scanned' \in [Call -> Nat]
      BY <2>5 DEF SkipUnsupported, Scan, TypeOK
    <3> QED BY <2>5, <3>1, <3>2, VisitType DEF SkipUnsupported, TypeOK
  <2>6. ASSUME NEW c \in Call, SkipSeen(c) PROVE TypeOK'
    <3>1. pos' \in [Call -> 1..Ended] /\ Here(c) \in Path
      BY <2>6, Place DEF SkipSeen, Onward, TypeOK
    <3>2. scanned' \in [Call -> Nat]
      BY <2>6 DEF SkipSeen, Scan, TypeOK
    <3>3. seen' \in [Call -> SUBSET Path]
      BY <2>6, <3>1 DEF SkipSeen, See, TypeOK
    <3> QED BY <2>6, <3>1, <3>2, <3>3, VisitType DEF SkipSeen, TypeOK
  <2>7. ASSUME NEW c \in Call, Take(c) PROVE TypeOK'
    <3>0. Walking(c) /\ ~Unread(c)
      BY <2>7 DEF Take
    <3>1. Here(c) \in Path /\ HasText(disk[Here(c)])
      BY <3>0, Place DEF Unread
    <3>2. pos' \in [Call -> 1..Ended]
      <4>1. Stop(c) \/ Onward(c)
        BY <2>7 DEF Take
      <4>2. CASE Stop(c)
        BY <3>0, <4>2, Place DEF Stop, TypeOK
      <4>3. CASE Onward(c)
        BY <3>0, <4>3, Place DEF Onward, TypeOK
      <4> QED BY <4>1, <4>2, <4>3
    <3>3. scanned' \in [Call -> Nat]
      BY <2>7 DEF Take, Scan, TypeOK
    <3>4. seen' \in [Call -> SUBSET Path]
      BY <2>7, <3>1 DEF Take, See, TypeOK
    <3>5. [doc |-> disk[Here(c)], n |-> Share(c)] \in Record
      BY <3>1, ShareType DEF Record, TypeOK
    <3>6. updates' = [updates EXCEPT ![c] = [updates[c] EXCEPT ![Here(c)] =
                          [doc |-> disk[Here(c)], n |-> Share(c)]]]
      BY <2>7 DEF Take
    <3>7. updates' \in [Call -> [Path -> Record]]
      BY <3>1, <3>5, <3>6 DEF TypeOK
    <3> QED BY <2>7, <3>2, <3>3, <3>4, <3>7, VisitType DEF Take
  <2>8. ASSUME NEW c \in Call, Cancel(c) PROVE TypeOK'
    BY <2>0, <2>8 DEF TypeOK, Cancel, Forget, asks
  <2>9. ASSUME NEW c \in Call, Commit(c) PROVE TypeOK'
    <3>1. Merged(c) \in [Path -> Record]
      <4>1. Nothing \in Record /\ files \in [Path -> Record]
            /\ updates[c] \in [Path -> Record]
        BY DEF TypeOK, Nothing, Record
      <4> QED BY <4>1 DEF Merged
    <3>4. args[c].maxChunks \in Nat
      BY DEF TypeOK
    <3>2. files' \in [Path -> Record]
      BY <2>9, <3>1, <3>4, CutKeeps DEF Commit
    <3>3. input' \in [Call -> [Path -> Record]]
      BY <2>9, <3>2 DEF Commit, TypeOK
    <3> QED BY <2>0, <2>9, <3>2, <3>3 DEF TypeOK, Commit, Forget, asks
  <2>10. ASSUME NEW c \in Call, Build(c) PROVE TypeOK'
    <3>1. steady' \in [Ask -> BOOLEAN]
      <4> DEFINE still(a) == steady[a] /\ input[c][asked[a]] # Nothing
                                       /\ locale = args[c].locale
      <4>1. \A a \in Ask : still(a) \in BOOLEAN
        BY Zenon
      <4>2. steady' = [a \in Ask |-> still(a)]
        BY <2>10 DEF Build
      <4> HIDE DEF still
      <4> QED BY <4>1, <4>2
    <3>2. last' \in [commit : Call \cup {NoCall}, build : Call \cup {NoCall}]
      BY <2>10 DEF Build, TypeOK
    <3>3. index' \in [Path -> Record] /\ locale' \in Locale
      BY <2>10 DEF Build, TypeOK
    <3>4. pc' \in [Call -> {"idle", "walk", "build", "report", "done", "failed"}]
      BY <2>10 DEF Build, TypeOK
    <3> QED BY <2>10, <3>1, <3>2, <3>3, <3>4 DEF TypeOK, Build, walk, asks
  <2>11. ASSUME NEW c \in Call, Report(c) PROVE TypeOK'
    BY <2>0, <2>11 DEF TypeOK, Report, walk, asks
  <2>12. ASSUME NEW a \in Ask, Question(a) PROVE TypeOK'
    <3>1. CASE LookIfEmpty(a)
      BY <3>1 DEF TypeOK, LookIfEmpty, Asks, walk
    <3>2. CASE Stem(a)
      BY <3>2 DEF TypeOK, Stem, Asks, walk
    <3>3. CASE StemTorn(a)
      BY <3>3 DEF TypeOK, StemTorn, Asks, walk
    <3>4. CASE Search(a)
      BY <3>4 DEF TypeOK, Search, Asks, walk
    <3> QED BY <2>12, <3>1, <3>2, <3>3, <3>4 DEF Question
  <2>13. CASE UNCHANGED vars
    BY <2>13 DEF TypeOK, vars, walk, asks
  <2>14. ASSUME NEW c \in Call, CancelReading(c) PROVE TypeOK'
    <3>1. pos' \in [Call -> 1..Ended] /\ Here(c) \in Path
      BY <2>14, Place DEF CancelReading, Stop, TypeOK
    <3>2. scanned' \in [Call -> Nat]
      BY <2>14 DEF CancelReading, Scan, TypeOK
    <3>3. seen' \in [Call -> SUBSET Path]
      BY <2>14, <3>1 DEF CancelReading, See, TypeOK
    <3>4. disturbed' \in [Call -> BOOLEAN]
      BY <2>14 DEF CancelReading, TypeOK
    <3> QED BY <2>14, <3>1, <3>2, <3>3, <3>4 DEF CancelReading, TypeOK, asks
  <2> QED BY <2>1, <2>2, <2>3, <2>4, <2>5, <2>6, <2>7, <2>8, <2>9, <2>10, <2>11, <2>12,
             <2>13, <2>14 DEF Next, Index
<1> QED BY <1>1, <1>2, PTL DEF Spec
-----------------------------------------------------------------------------
\* The steps that leave the index, the report and what is known alone.
Aside ==
    \/ \E p \in Path, d \in Doc \cup {Absent} : Edit(p, d)
    \/ \E c \in Call : PassBy(c) \/ ReachMaxFiles(c) \/ SkipUnsupported(c)
                       \/ SkipSeen(c) \/ Take(c) \/ CancelReading(c)
    \/ \E a \in Ask : Question(a)
    \/ UNCHANGED vars

LEMMA AsideKeeps ==
    Aside => UNCHANGED <<files, index, locale, report, pc, args, prev, input, last>>
<1>1. ASSUME NEW p \in Path, NEW d \in Doc \cup {Absent}, Edit(p, d)
      PROVE  UNCHANGED <<files, index, locale, report, pc, args, prev, input, last>>
  BY <1>1 DEF Edit
<1>2. ASSUME NEW c \in Call, PassBy(c) \/ ReachMaxFiles(c) \/ SkipUnsupported(c)
                             \/ SkipSeen(c) \/ Take(c) \/ CancelReading(c)
      PROVE  UNCHANGED <<files, index, locale, report, pc, args, prev, input, last>>
  BY <1>2 DEF PassBy, ReachMaxFiles, SkipUnsupported, SkipSeen, Take, CancelReading, Visits
<1>3. ASSUME NEW a \in Ask, Question(a)
      PROVE  UNCHANGED <<files, index, locale, report, pc, args, prev, input, last>>
  BY <1>3 DEF Question, LookIfEmpty, Stem, StemTorn, Search, Asks
<1>4. CASE UNCHANGED vars
  BY <1>4 DEF vars
<1> QED BY <1>1, <1>2, <1>3, <1>4 DEF Aside

\* How far the calls that were last have come, and what they have in hand.
LastOf(c) ==
    /\ last.commit = c => pc[c] \in {"build", "report", "done"}
    /\ last.build = c => pc[c] \in {"report", "done"}
    /\ report.of = c => pc[c] = "done"
    /\ pc[c] = "build" /\ last.commit = c => input[c] = files
    /\ pc[c] = "report" /\ last.build = c => input[c] = index

InOrder == (\A c \in Call : LastOf(c)) /\ InOrderAgrees

LEMMA InOrderInit == Init => InOrder
<1> SUFFICES ASSUME Init PROVE InOrder
  OBVIOUS
<1>1. index = files /\ report.input = files
  BY DEF Init
<1>2. last.commit = NoCall /\ last.build = NoCall /\ report.of = NoCall
  BY DEF Init
<1>3. NoCall \notin Call
  BY WikiIndexAssumption
<1>4. \A c \in Call : pc[c] = "idle"
  BY DEF Init
<1> QED BY <1>1, <1>2, <1>3, <1>4 DEF InOrder, LastOf, InOrderAgrees

LEMMA InOrderStep == TypeOK /\ InOrder /\ [Next]_vars => InOrder'
<1> SUFFICES ASSUME TypeOK, InOrder, [Next]_vars PROVE InOrder'
  OBVIOUS
<1> USE WikiIndexAssumption DEF InOrder, LastOf, InOrderAgrees
<1>1. CASE Aside
  BY <1>1, AsideKeeps
<1>2. ASSUME NEW c \in Call, NEW a \in Args, Begin(c, a) PROVE InOrder'
  BY <1>2 DEF Begin, TypeOK
<1>3. ASSUME NEW c \in Call, Cancel(c) PROVE InOrder'
  BY <1>3 DEF Cancel, Walking, TypeOK
<1>4. ASSUME NEW c \in Call, Commit(c) PROVE InOrder'
  <2>1. last'.commit = c /\ last'.build = last.build /\ pc' = [pc EXCEPT ![c] = "build"]
        /\ input' = [input EXCEPT ![c] = files'] /\ pc[c] = "walk"
        /\ index' = index /\ report' = report
    BY <1>4 DEF Commit, TypeOK
  <2>2. last.build # c /\ report.of # c
    BY <2>1
  <2> QED BY <2>1, <2>2 DEF TypeOK
<1>5. ASSUME NEW c \in Call, Build(c) PROVE InOrder'
  <2>1. last'.build = c /\ last'.commit = last.commit /\ pc' = [pc EXCEPT ![c] = "report"]
        /\ index' = input[c] /\ input' = input /\ pc[c] = "build"
        /\ files' = files /\ report' = report
    BY <1>5 DEF Build, TypeOK
  <2>2. report.of # c
    BY <2>1
  <2> QED BY <2>1, <2>2 DEF TypeOK
<1>6. ASSUME NEW c \in Call, Report(c) PROVE InOrder'
  <2>1. report'.of = c /\ report'.input = input[c] /\ pc' = [pc EXCEPT ![c] = "done"]
        /\ input' = [input EXCEPT ![c] = NoFiles] /\ pc[c] = "report"
        /\ files' = files /\ index' = index /\ last' = last
    BY <1>6 DEF Report
  <2> QED BY <2>1 DEF TypeOK
<1> QED BY <1>1, <1>2, <1>3, <1>4, <1>5, <1>6 DEF Next, Index, Aside

\* The index, what is known of the files and the report agree as long as the
\* calls do not overtake each other between the merge and the report.
THEOREM InOrderCalls == Spec => []InOrderAgrees
<1>1. InOrder => InOrderAgrees
  BY DEF InOrder
<1> QED BY <1>1, Typing, InOrderInit, InOrderStep, PTL DEF Spec

\* Questions: while the index has the text, the words are stemmed as it is.
Held ==
    \A a \in Ask : steady[a] =>
        /\ ask[a] \notin {"empty", "absent"}
        /\ ask[a] \in {"stem", "search"} => index[asked[a]] # Nothing
        /\ ask[a] = "search" => terms[a] = locale

LEMMA HeldStep == TypeOK /\ Held /\ [Next]_vars => Held'
<1> SUFFICES ASSUME TypeOK, Held, [Next]_vars PROVE Held'
  OBVIOUS
<1> USE DEF Held
<1>1. ASSUME UNCHANGED <<index, locale, asks, steady>> PROVE Held'
  BY <1>1 DEF asks
<1>2. ASSUME NEW p \in Path, NEW d \in Doc \cup {Absent}, Edit(p, d) PROVE Held'
  BY <1>1, <1>2 DEF Edit
<1>3. ASSUME NEW c \in Call, PassBy(c) \/ ReachMaxFiles(c) \/ SkipUnsupported(c)
                             \/ SkipSeen(c) \/ Take(c) \/ CancelReading(c)
      PROVE  Held'
  BY <1>1, <1>3 DEF PassBy, ReachMaxFiles, SkipUnsupported, SkipSeen, Take, CancelReading,
                    Visits
<1>4. ASSUME NEW c \in Call,
             (\E a \in Args : Begin(c, a)) \/ Cancel(c) \/ Commit(c) \/ Report(c)
      PROVE  Held'
  BY <1>1, <1>4 DEF Begin, Cancel, Commit, Report
<1>5. ASSUME NEW c \in Call, Build(c) PROVE Held'
  <2>1. index' = input[c] /\ locale' = args[c].locale
        /\ ask' = ask /\ asked' = asked /\ terms' = terms
    BY <1>5 DEF Build, asks
  <2>2. \A a \in Ask : steady'[a] => steady[a] /\ input[c][asked[a]] # Nothing
                                     /\ locale = args[c].locale
    BY <1>5 DEF Build
  <2> QED BY <2>1, <2>2
<1>6. ASSUME NEW a \in Ask, Question(a) PROVE Held'
  <2> USE DEF Asks, TypeOK
  <2>1. CASE LookIfEmpty(a)
    <3>1. index[asked[a]] # Nothing => Known(index) # {}
      BY DEF Known
    <3> QED BY <2>1, <3>1 DEF LookIfEmpty
  <2>2. CASE Stem(a)
    BY <2>2 DEF Stem
  <2>3. CASE StemTorn(a)
    BY <2>3 DEF StemTorn
  <2>4. CASE Search(a)
    BY <2>4 DEF Search
  <2> QED BY <1>6, <2>1, <2>2, <2>3, <2>4 DEF Question
<1>7. CASE UNCHANGED vars
  BY <1>1, <1>7 DEF vars
<1> QED BY <1>2, <1>3, <1>4, <1>5, <1>6, <1>7 DEF Next, Index

\* A text that the index had all the time is never said to be absent.
THEOREM HeldIsFound == Spec => []FoundIfHeld
<1>1. Init => Held
  BY DEF Init, Held
<1>2. Held => FoundIfHeld
  BY DEF Held, FoundIfHeld
<1> QED BY <1>1, <1>2, Typing, HeldStep, PTL DEF Spec
-----------------------------------------------------------------------------
(***************************************************************************)
(* A call without limits that nobody overlaps.  Of a path that nobody      *)
(* edits, what the walk has seen is what the directory has, and what it    *)
(* has taken is what is new in it.                                         *)
(***************************************************************************)
Lone(c) == ~disturbed[c] /\ ~Limited(c)

Visited(c, p) == \E i \in 1..(pos[c] - 1) : WalkOrder[i] = p

New(c, p) ==
    IF /\ p \in args[c].wanted /\ HasText(disk[p])
       /\ ~(args[c].incremental /\ prev[c][p].doc = disk[p])
    THEN [doc |-> disk[p], n |-> Chunks[disk[p]]] ELSE Nothing

SawOf(c, p) ==
    /\ prev[c][p] = files[p]
    /\ p \in seen[c] => InScope(c, p) /\ disk[p] # Absent /\ updates[c][p] = New(c, p)
    /\ p \notin seen[c] => updates[c][p] = Nothing
    /\ Visited(c, p) /\ InScope(c, p) /\ disk[p] # Absent => p \in seen[c]

WalkOf(c, p) == pc[c] = "walk" /\ Lone(c) /\ p \notin touched[c] => SawOf(c, p)
MergeOf(c, p) ==
    pc[c] = "build" /\ Lone(c) /\ p \notin touched[c] => Current(input[c], c, p)
FreshOf(c, p) ==
    last.build = c /\ Lone(c) /\ p \notin touched[c] => Current(index, c, p)

\* A record is of a text, and of all of it unless some call had a limit.
Uncut(f) ==
    \A p \in Path : f[p] # Nothing =>
        f[p].doc \in Doc /\ (f[p].n = Chunks[f[p].doc] \/ SomeCut)

Rests(c) == pc[c] # "walk" => seen[c] = {} /\ updates[c] = NoFiles /\ pos[c] = 1

Records == Uncut(files) /\ \A c \in Call : Uncut(updates[c]) /\ Rests(c)
Walks == \A c \in Call, p \in Path : WalkOf(c, p) /\ MergeOf(c, p) /\ FreshOf(c, p)

\* Where a call is and what it asks for stay, but for its own steps.
LEMMA Moves ==
    ASSUME TypeOK, [Next]_vars
    PROVE  \A c \in Call : pc[c] # "idle" => pc'[c] # "idle" /\ args'[c] = args[c]
<1>1. CASE Aside
  BY <1>1, AsideKeeps
<1>2. ASSUME NEW c \in Call, NEW a \in Args, Begin(c, a)
      PROVE  \A d \in Call : pc[d] # "idle" => pc'[d] # "idle" /\ args'[d] = args[d]
  BY <1>2 DEF Begin, TypeOK
<1>3. ASSUME NEW c \in Call, Cancel(c) \/ Commit(c) \/ Build(c) \/ Report(c)
      PROVE  \A d \in Call : pc[d] # "idle" => pc'[d] # "idle" /\ args'[d] = args[d]
  BY <1>3 DEF Cancel, Commit, Build, Report, TypeOK
<1> QED BY <1>1, <1>2, <1>3 DEF Next, Index, Aside

LEMMA SomeCutStays == TypeOK /\ [Next]_vars /\ SomeCut => SomeCut'
BY Moves DEF SomeCut

LEMMA RecordsInit == Init => Records
<1> SUFFICES ASSUME Init PROVE Records
  OBVIOUS
<1>1. disk \in [Path -> Doc \cup {Absent}] /\ files \in {NoFiles, Whole(disk)}
  BY DEF Init
<1>2. Uncut(files)
  BY <1>1, WikiIndexAssumption DEF Uncut, NoFiles, Whole, HasText, Nothing
<1>3. \A c \in Call : updates[c] = NoFiles /\ seen[c] = {} /\ pos[c] = 1
  BY DEF Init
<1>4. Uncut(NoFiles)
  BY DEF Uncut, NoFiles
<1> QED BY <1>2, <1>3, <1>4 DEF Records, Rests

LEMMA RecordsStep == TypeOK /\ Records /\ [Next]_vars => Records'
<1> SUFFICES ASSUME TypeOK, Records, [Next]_vars PROVE Records'
  OBVIOUS
<1>0. SomeCut => SomeCut'
  BY SomeCutStays
<1>2. ASSUME UNCHANGED <<files, updates, seen, pos, pc>> PROVE Records'
  BY <1>0, <1>2 DEF Records, Rests, Uncut
<1>3. ASSUME NEW c \in Call, pc[c] = "walk", UNCHANGED <<files, updates, pc>>,
             \A d \in Call \ {c} : seen'[d] = seen[d] /\ pos'[d] = pos[d]
      PROVE  Records'
  BY <1>0, <1>3 DEF Records, Rests, Uncut
<1>4. ASSUME NEW p \in Path, NEW d \in Doc \cup {Absent}, Edit(p, d) PROVE Records'
  BY <1>2, <1>4 DEF Edit, walk
<1>5. ASSUME NEW c \in Call, NEW a \in Args, Begin(c, a) PROVE Records'
  BY <1>0, <1>5 DEF Begin, walk, TypeOK, Records, Rests, Uncut
<1>6. ASSUME NEW c \in Call, PassBy(c) \/ ReachMaxFiles(c) \/ SkipUnsupported(c)
                             \/ SkipSeen(c) \/ CancelReading(c)
      PROVE  Records'
  <2>1. pc[c] = "walk" /\ UNCHANGED <<files, updates, pc>>
    BY <1>6 DEF PassBy, ReachMaxFiles, SkipUnsupported, SkipSeen, CancelReading, Visits,
                Walking
  <2>2. \A d \in Call \ {c} : seen'[d] = seen[d] /\ pos'[d] = pos[d]
    BY <1>6 DEF PassBy, ReachMaxFiles, SkipUnsupported, SkipSeen, CancelReading, See, Onward,
                Stop, TypeOK
  <2> QED BY <1>3, <2>1, <2>2
<1>7. ASSUME NEW c \in Call, Take(c) PROVE Records'
  <2>1. Walking(c) /\ ~Unread(c) /\ Visits(c) /\ See(c) /\ (Stop(c) \/ Onward(c))
    BY <1>7 DEF Take
  <2>2. Here(c) \in Path /\ HasText(disk[Here(c)])
    BY <2>1, Place DEF Unread
  <2>3. disk[Here(c)] \in Doc
    BY <2>2 DEF HasText, TypeOK
  <2>4. updates' = [updates EXCEPT ![c] = [updates[c] EXCEPT ![Here(c)] =
                          [doc |-> disk[Here(c)], n |-> Share(c)]]]
    BY <1>7 DEF Take
  <2>5. UNCHANGED <<files, pc, args>> /\ pc[c] = "walk"
    BY <2>1 DEF Visits, Walking
  <2>6. Share(c) = Chunks[disk[Here(c)]] \/ SomeCut'
    <3>1. CASE args[c].maxChunks = 0
      BY <2>2, <3>1, ShareType
    <3>2. CASE args[c].maxChunks # 0
      <4>1. args[c].maxChunks \in Nat
        BY WikiIndexAssumption DEF TypeOK
      <4> QED BY <2>5, <3>2, <4>1 DEF SomeCut
    <3> QED BY <3>1, <3>2
  <2>7. ASSUME NEW d \in Call PROVE Uncut(updates[d])'
    <3>1. CASE d # c
      BY <1>0, <2>4, <3>1 DEF Records, Uncut, TypeOK
    <3>2. CASE d = c
      <4>1. \A p \in Path \ {Here(c)} : updates'[c][p] = updates[c][p]
        BY <2>4 DEF TypeOK
      <4>2. updates'[c][Here(c)] = [doc |-> disk[Here(c)], n |-> Share(c)]
        BY <2>2, <2>4 DEF TypeOK
      <4> QED BY <1>0, <2>3, <2>6, <3>2, <4>1, <4>2 DEF Records, Uncut
    <3> QED BY <3>1, <3>2
  <2>8. \A d \in Call : Rests(d)'
    <3>1. \A d \in Call \ {c} : seen'[d] = seen[d] /\ pos'[d] = pos[d]
                                /\ updates'[d] = updates[d]
      BY <2>1, <2>4 DEF See, Stop, Onward, TypeOK
    <3> QED BY <2>5, <3>1 DEF Records, Rests
  <2> QED BY <1>0, <2>5, <2>7, <2>8 DEF Records, Uncut
<1>8. ASSUME NEW c \in Call, Forget(c),
             \A d \in Call \ {c} : pc'[d] = pc[d]
      PROVE  \A d \in Call : Uncut(updates[d])' /\ Rests(d)'
  <2>1. updates'[c] = NoFiles /\ seen'[c] = {} /\ pos'[c] = 1
    BY <1>8 DEF Forget, TypeOK
  <2>2. \A d \in Call \ {c} : updates'[d] = updates[d] /\ seen'[d] = seen[d]
                              /\ pos'[d] = pos[d]
    BY <1>8 DEF Forget, TypeOK
  <2>3. \A p \in Path : NoFiles[p] = Nothing
    BY DEF NoFiles
  <2> QED BY <1>0, <1>8, <2>1, <2>2, <2>3 DEF Records, Rests, Uncut
<1>9. ASSUME NEW c \in Call, Cancel(c) PROVE Records'
  <2>1. Forget(c) /\ files' = files /\ \A d \in Call \ {c} : pc'[d] = pc[d]
    BY <1>9 DEF Cancel, TypeOK
  <2> QED BY <1>0, <1>8, <2>1 DEF Records, Uncut
<1>10. ASSUME NEW c \in Call, Commit(c) PROVE Records'
  <2>1. Forget(c) /\ files' = Cut(Merged(c), args[c].maxChunks) /\ pc[c] = "walk"
        /\ \A d \in Call \ {c} : pc'[d] = pc[d]
    BY <1>10 DEF Commit, TypeOK
  <2>2. Merged(c) \in [Path -> Record]
    <3>1. Nothing \in Record /\ files \in [Path -> Record]
          /\ updates[c] \in [Path -> Record]
      BY DEF TypeOK, Nothing, Record
    <3> QED BY <3>1 DEF Merged
  <2>3. args[c].maxChunks \in Nat
    BY WikiIndexAssumption DEF TypeOK
  <2>4. Uncut(Merged(c))
    BY DEF Merged, Uncut, Records
  <2>5. Uncut(files)'
    <3>1. CASE args[c].maxChunks = 0
      <4>1. files' = Merged(c)
        BY <2>1, <2>2, <3>1, CutKeeps
      <4> QED BY <1>0, <2>4, <4>1 DEF Uncut
    <3>2. CASE args[c].maxChunks # 0
      <4>1. SomeCut'
        BY <1>0, <2>1, <2>3, <3>2 DEF SomeCut
      <4>2. \A p \in Path : files'[p] # Nothing =>
                Merged(c)[p] # Nothing /\ files'[p].doc = Merged(c)[p].doc
        BY <2>1, <2>2, <2>3, CutKeeps
      <4> QED BY <2>4, <4>1, <4>2 DEF Uncut
    <3> QED BY <3>1, <3>2
  <2> QED BY <1>8, <2>1, <2>5 DEF Records
<1>11. ASSUME NEW c \in Call, Build(c) \/ Report(c) PROVE Records'
  BY <1>0, <1>11 DEF Build, Report, walk, TypeOK, Records, Rests, Uncut
<1>12. ASSUME NEW a \in Ask, Question(a) PROVE Records'
  BY <1>2, <1>12 DEF Question, LookIfEmpty, Stem, StemTorn, Search, Asks, walk
<1>13. CASE UNCHANGED vars
  BY <1>2, <1>13 DEF vars, walk
<1> QED BY <1>4, <1>5, <1>6, <1>7, <1>9, <1>10, <1>11, <1>12, <1>13 DEF Next, Index
-----------------------------------------------------------------------------
\* What is said of a call and a path stays when neither is concerned.
LEMMA WalkStays ==
    ASSUME NEW c \in Call, NEW p \in Path,
           SomeCut => SomeCut', disturbed[c] => disturbed'[c],
           p \in touched[c] => p \in touched'[c],
           p \notin touched'[c] => disk'[p] = disk[p],
           args'[c] = args[c], pc'[c] = pc[c], prev'[c] = prev[c], pos'[c] = pos[c],
           seen'[c] = seen[c], updates'[c] = updates[c], ~disturbed'[c] => files'[p] = files[p],
           WalkOf(c, p)
    PROVE  WalkOf(c, p)'
BY DEF WalkOf, SawOf, Lone, Limited, InScope, HasText, New, Visited

LEMMA MergeStays ==
    ASSUME NEW c \in Call, NEW p \in Path,
           SomeCut => SomeCut', disturbed[c] => disturbed'[c],
           p \in touched[c] => p \in touched'[c],
           p \notin touched'[c] => disk'[p] = disk[p],
           args'[c] = args[c], pc'[c] = pc[c], input'[c] = input[c],
           MergeOf(c, p)
    PROVE  MergeOf(c, p)'
BY DEF MergeOf, Current, Lone, Limited, InScope, HasText

LEMMA FreshStays ==
    ASSUME NEW c \in Call, NEW p \in Path,
           SomeCut => SomeCut', disturbed[c] => disturbed'[c],
           p \in touched[c] => p \in touched'[c],
           p \notin touched'[c] => disk'[p] = disk[p],
           args'[c] = args[c], index' = index, last'.build = last.build,
           FreshOf(c, p)
    PROVE  FreshOf(c, p)'
BY DEF FreshOf, Current, Lone, Limited, InScope, HasText

LEMMA WalksInit == Init => Walks
<1> SUFFICES ASSUME Init, NEW c \in Call, NEW p \in Path
             PROVE  WalkOf(c, p) /\ MergeOf(c, p) /\ FreshOf(c, p)
  BY DEF Walks
<1>1. pc[c] = "idle" /\ last.build = NoCall /\ NoCall # c
  BY WikiIndexAssumption DEF Init
<1> QED BY <1>1 DEF WalkOf, MergeOf, FreshOf

\* A visit of a file keeps what is said of the walk: the file is the next one.
LEMMA VisitStep ==
    ASSUME TypeOK, Walks, NEW c \in Call, NEW p \in Path,
           PassBy(c) \/ ReachMaxFiles(c) \/ SkipUnsupported(c) \/ SkipSeen(c) \/ Take(c)
    PROVE  WalkOf(c, p)'
<1> SUFFICES ASSUME Lone(c)', p \notin touched'[c] PROVE SawOf(c, p)'
  BY DEF WalkOf
<1>1. Walking(c) /\ Visits(c)
  BY DEF PassBy, ReachMaxFiles, SkipUnsupported, SkipSeen, Take
<1>2. UNCHANGED <<disk, files, args, prev, touched, disturbed, pc>> /\ pc[c] = "walk"
  BY <1>1 DEF Visits, Walking
<1>3. Lone(c) /\ SawOf(c, p)
  BY <1>2 DEF Walks, WalkOf, Lone, Limited
<1>4. args[c].maxFiles = 0 /\ args[c].maxChunks = 0
  BY <1>3, WikiIndexAssumption DEF TypeOK, Lone, Limited
<1>5. Here(c) \in Path /\ pos[c] \in Nat \ {0}
  BY <1>1, Place
<1>6. /\ New(c, p)' = New(c, p) /\ InScope(c, p)' = InScope(c, p)
  BY <1>2 DEF New, InScope, HasText
<1>7. ~TooMany(c)
  BY <1>4 DEF TooMany
<1>8. Onward(c)
  <2>1. ASSUME Take(c) PROVE Onward(c)
    BY <1>4, <2>1 DEF Take
  <2> QED BY <1>7, <2>1 DEF PassBy, ReachMaxFiles, SkipUnsupported, SkipSeen
<1>9. Visited(c, p)' => Visited(c, p) \/ p = Here(c)
  <2>1. pos'[c] = pos[c] + 1
    BY <1>8 DEF Onward, TypeOK
  <2>2. \A i \in 1..(pos'[c] - 1) : i \in 1..(pos[c] - 1) \/ i = pos[c]
    BY <1>5, <2>1
  <2> QED BY <2>2 DEF Visited, Here
<1>10. CASE PassBy(c)
  <2>1. UNCHANGED <<seen, updates>> /\ Unlisted(c, Here(c))
    BY <1>10 DEF PassBy
  <2>2. p = Here(c) => ~(InScope(c, p) /\ disk[p] # Absent)
    BY <1>2, <2>1 DEF Unlisted, InScope
  <2> QED BY <1>2, <1>3, <1>6, <1>9, <2>1, <2>2 DEF SawOf
<1>11. CASE SkipUnsupported(c)
  <2>1. UNCHANGED <<seen, updates>> /\ Here(c) \notin args[c].supported
    BY <1>11 DEF SkipUnsupported
  <2>2. p = Here(c) => ~InScope(c, p)
    BY <2>1 DEF InScope
  <2> QED BY <1>2, <1>3, <1>6, <1>9, <2>1, <2>2 DEF SawOf
<1>12. CASE SkipSeen(c)
  <2>1. updates' = updates /\ Unread(c) /\ Listed(c) /\ Here(c) \in args[c].supported
        /\ See(c)
    BY <1>12 DEF SkipSeen
  <2>2. seen'[c] = seen[c] \cup {Here(c)}
    BY <2>1 DEF See, TypeOK
  <2>3. p = Here(c) => InScope(c, p) /\ disk[p] # Absent /\ New(c, p) = Nothing
    BY <1>2, <2>1 DEF Listed, InScope, Unread, New
  <2> QED BY <1>2, <1>3, <1>6, <1>9, <2>1, <2>2, <2>3 DEF SawOf
<1>13. CASE Take(c)
  <2>1. ~Unread(c) /\ Listed(c) /\ Here(c) \in args[c].supported /\ See(c)
    BY <1>13 DEF Take
  <2>2. seen'[c] = seen[c] \cup {Here(c)}
    BY <2>1 DEF See, TypeOK
  <2>3. updates' = [updates EXCEPT ![c] = [updates[c] EXCEPT ![Here(c)] =
                          [doc |-> disk[Here(c)], n |-> Share(c)]]]
    BY <1>13 DEF Take
  <2>4. HasText(disk[Here(c)])
    BY <2>1 DEF Unread
  <2>5. Share(c) = Chunks[disk[Here(c)]]
    BY <1>4, <1>5, <2>4, ShareType
  <2>6. updates'[c][Here(c)] = [doc |-> disk[Here(c)], n |-> Chunks[disk[Here(c)]]]
    BY <1>5, <2>3, <2>5 DEF TypeOK
  <2>7. p # Here(c) => updates'[c][p] = updates[c][p]
    BY <2>3 DEF TypeOK
  <2>8. p = Here(c) => InScope(c, p) /\ disk[p] # Absent /\ New(c, p) = updates'[c][p]
    BY <1>2, <2>1, <2>6 DEF Listed, InScope, Unread, New, HasText
  <2> QED BY <1>2, <1>3, <1>6, <1>9, <2>2, <2>7, <2>8 DEF SawOf
<1> QED BY <1>7, <1>10, <1>11, <1>12, <1>13 DEF ReachMaxFiles

\* At the end of the walk every path has been visited: the merge of a call that
\* nobody overlapped is what the directory has.
LEMMA CommitMerges ==
    ASSUME TypeOK, Records, Walks, NEW c \in Call, Commit(c), NEW p \in Path
    PROVE  MergeOf(c, p)'
<1> SUFFICES ASSUME Lone(c)', p \notin touched'[c] PROVE Current(input[c], c, p)'
  BY DEF MergeOf
<1>1. /\ pc[c] = "walk" /\ pos[c] = Ended /\ UNCHANGED <<disk, args, touched>>
      /\ files' = Cut(Merged(c), args[c].maxChunks) /\ input'[c] = files'
      /\ disturbed'[c] = disturbed[c]
  BY DEF Commit, TypeOK
<1>2. Lone(c) /\ SawOf(c, p)
  BY <1>1 DEF Walks, WalkOf, Lone, Limited
<1>3. args[c].maxChunks = 0
  BY <1>2, WikiIndexAssumption DEF TypeOK, Lone, Limited
<1>4. input'[c] = Merged(c)
  BY <1>1, <1>3 DEF Cut
<1>5. Visited(c, p)
  <2>1. WalkOrder \in Seq(Path) /\ Range(WalkOrder) = Path
    BY WikiIndexAssumption
  <2>2. PICK i \in DOMAIN WalkOrder : WalkOrder[i] = p
    BY <2>1 DEF Range
  <2> QED BY <1>1, <2>1, <2>2 DEF Visited, Ended
<1>6. Merged(c)[p] = IF updates[c][p] # Nothing THEN updates[c][p]
                     ELSE IF args[c].incremental /\ p \in seen[c] THEN files[p] ELSE Nothing
  BY DEF Merged
<1>7. InScope(c, p)' = InScope(c, p) /\ HasText(disk[p])' = HasText(disk[p])
  BY <1>1 DEF InScope, HasText
<1>8. SomeCut => SomeCut'
  BY SomeCutStays DEF Next, Index
<1>9. CASE disk[p] = Absent \/ ~InScope(c, p)
  <2>1. p \notin seen[c] /\ updates[c][p] = Nothing
    BY <1>2, <1>9 DEF SawOf
  <2> QED BY <1>1, <1>4, <1>6, <1>7, <1>9, <2>1 DEF Current
<1>10. CASE disk[p] # Absent /\ InScope(c, p)
  <2>1. p \in seen[c] /\ updates[c][p] = New(c, p) /\ prev[c][p] = files[p]
    BY <1>2, <1>5, <1>10 DEF SawOf
  <2>2. disk[p] \in Doc
    BY <1>10 DEF TypeOK
  <2>3. CASE p \in args[c].wanted /\ HasText(disk[p])
    <3>1. CASE args[c].incremental /\ prev[c][p].doc = disk[p]
      <4>1. Merged(c)[p] = files[p] /\ files[p].doc = disk[p]
        BY <1>6, <2>1, <3>1 DEF New
      <4>2. files[p] # Nothing
        BY <1>10, <4>1 DEF Nothing
      <4>3. files[p].n = Chunks[disk[p]] \/ SomeCut
        BY <4>1, <4>2 DEF Records, Uncut
      <4> QED BY <1>1, <1>4, <1>7, <1>8, <1>10, <2>3, <3>1, <4>1, <4>3 DEF Current
    <3>2. CASE ~(args[c].incremental /\ prev[c][p].doc = disk[p])
      <4>1. updates[c][p] = [doc |-> disk[p], n |-> Chunks[disk[p]]]
        BY <2>1, <2>3, <3>2 DEF New
      <4>2. updates[c][p] # Nothing
        BY <1>10, <4>1 DEF Nothing
      <4>3. Merged(c)[p] = [doc |-> disk[p], n |-> Chunks[disk[p]]]
        BY <1>6, <4>1, <4>2
      <4> QED BY <1>1, <1>4, <1>7, <1>10, <2>3, <4>3 DEF Current
    <3> QED BY <3>1, <3>2
  <2>4. CASE ~(p \in args[c].wanted /\ HasText(disk[p]))
    <3>1. updates[c][p] = Nothing
      BY <2>1, <2>4 DEF New
    <3>2. ~args[c].incremental => Merged(c)[p] = Nothing
      BY <1>6, <3>1
    <3> QED BY <1>1, <1>4, <1>7, <1>10, <2>4, <3>2 DEF Current
  <2> QED BY <2>3, <2>4
<1> QED BY <1>9, <1>10

\* A step that leaves a call and a path alone, as the rest of the calls see it.
LEMMA OthersStay ==
    ASSUME NEW c \in Call, NEW p \in Path,
           SomeCut => SomeCut', disturbed[c] => disturbed'[c],
           p \in touched[c] => p \in touched'[c],
           p \notin touched'[c] => disk'[p] = disk[p],
           args'[c] = args[c], pc'[c] = pc[c], prev'[c] = prev[c], pos'[c] = pos[c],
           seen'[c] = seen[c], updates'[c] = updates[c], input'[c] = input[c],
           ~disturbed'[c] => files'[p] = files[p], index' = index,
           last'.build = last.build,
           WalkOf(c, p), MergeOf(c, p), FreshOf(c, p)
    PROVE  WalkOf(c, p)' /\ MergeOf(c, p)' /\ FreshOf(c, p)'
BY WalkStays, MergeStays, FreshStays

LEMMA WalksStep == TypeOK /\ InOrder /\ Records /\ Walks /\ [Next]_vars => Walks'
<1> SUFFICES ASSUME TypeOK, InOrder, Records, Walks, [Next]_vars,
                    NEW d \in Call, NEW p \in Path
             PROVE  WalkOf(d, p)' /\ MergeOf(d, p)' /\ FreshOf(d, p)'
  BY DEF Walks
<1>0. (SomeCut => SomeCut') /\ WalkOf(d, p) /\ MergeOf(d, p) /\ FreshOf(d, p)
  BY SomeCutStays DEF Walks
<1>1. ASSUME NEW q \in Path, NEW t \in Doc \cup {Absent}, Edit(q, t)
      PROVE  WalkOf(d, p)' /\ MergeOf(d, p)' /\ FreshOf(d, p)'
  <2>1. UNCHANGED <<files, index, pc, args, prev, pos, seen, updates, input, disturbed, last>>
        /\ disk' = [disk EXCEPT ![q] = t]
        /\ touched' = [c \in Call |-> IF pc[c] = "idle" THEN {} ELSE touched[c] \cup {q}]
    BY <1>1 DEF Edit, walk
  <2>2. CASE pc[d] = "idle"
    <3>1. pc'[d] = "idle" /\ last'.build # d
      BY <2>1, <2>2 DEF InOrder, LastOf
    <3> QED BY <3>1 DEF WalkOf, MergeOf, FreshOf
  <2>3. CASE pc[d] # "idle"
    <3>1. touched'[d] = touched[d] \cup {q}
      BY <2>1, <2>3
    <3>2. p \notin touched'[d] => disk'[p] = disk[p]
      BY <2>1, <3>1 DEF TypeOK
    <3> QED BY <1>0, <2>1, <3>1, <3>2, OthersStay
  <2> QED BY <2>2, <2>3
<1>2. ASSUME NEW c \in Call, NEW a \in Args, Begin(c, a)
      PROVE  WalkOf(d, p)' /\ MergeOf(d, p)' /\ FreshOf(d, p)'
  <2>1. CASE d # c
    BY <1>0, <1>2, <2>1, OthersStay DEF Begin, walk, TypeOK
  <2>2. CASE d = c
    <3>1. pc[c] = "idle" /\ pc'[c] = "walk" /\ prev'[c] = files
          /\ UNCHANGED <<files, seen, updates, pos, last>>
      BY <1>2 DEF Begin, walk, TypeOK
    <3>2. seen[c] = {} /\ updates[c] = NoFiles /\ pos[c] = 1
      BY <3>1 DEF Records, Rests
    <3>3. last'.build # c
      BY <3>1 DEF InOrder, LastOf
    <3>4. ~Visited(c, p)'
      BY <3>1, <3>2 DEF Visited
    <3>5. updates'[c][p] = Nothing
      BY <3>1, <3>2 DEF NoFiles
    <3> QED BY <2>2, <3>1, <3>2, <3>3, <3>4, <3>5 DEF WalkOf, MergeOf, FreshOf, SawOf
  <2> QED BY <2>1, <2>2
<1>3. ASSUME NEW c \in Call, PassBy(c) \/ ReachMaxFiles(c) \/ SkipUnsupported(c)
                             \/ SkipSeen(c) \/ Take(c)
      PROVE  WalkOf(d, p)' /\ MergeOf(d, p)' /\ FreshOf(d, p)'
  <2>1. UNCHANGED <<disk, files, index, args, prev, input, touched, disturbed, last, pc>>
    BY <1>3 DEF PassBy, ReachMaxFiles, SkipUnsupported, SkipSeen, Take, Visits
  <2>2. CASE d # c
    <3>1. pos'[d] = pos[d] /\ seen'[d] = seen[d] /\ updates'[d] = updates[d]
      BY <1>3, <2>2 DEF PassBy, ReachMaxFiles, SkipUnsupported, SkipSeen, Take, See,
                        Onward, Stop, TypeOK
    <3> QED BY <1>0, <2>1, <3>1, OthersStay
  <2>3. CASE d = c
    BY <1>0, <1>3, <2>1, <2>3, VisitStep, MergeStays, FreshStays
  <2> QED BY <2>2, <2>3
<1>4. ASSUME NEW c \in Call, Forget(c), UNCHANGED <<disk, index, args, touched>>,
             last'.build = last.build, pc' = [pc EXCEPT ![c] = pc'[c]],
             \A b \in Call \ {c} : input'[b] = input[b] /\ (disturbed[b] => disturbed'[b])
                                   /\ (pc[b] = "walk" /\ ~disturbed'[b] => files' = files),
             d # c
      PROVE  WalkOf(d, p)' /\ MergeOf(d, p)' /\ FreshOf(d, p)'
  <2>1. prev'[d] = prev[d] /\ pos'[d] = pos[d] /\ seen'[d] = seen[d]
        /\ updates'[d] = updates[d] /\ pc'[d] = pc[d]
    BY <1>4 DEF Forget, TypeOK
  <2>2. MergeOf(d, p)' /\ FreshOf(d, p)'
    BY <1>0, <1>4, <2>1, MergeStays, FreshStays
  <2>3. WalkOf(d, p)'
    <3>1. CASE pc[d] = "walk" /\ ~disturbed'[d]
      BY <1>0, <1>4, <2>1, <3>1, WalkStays
    <3>2. CASE ~(pc[d] = "walk" /\ ~disturbed'[d])
      BY <2>1, <3>2 DEF WalkOf, Lone
    <3> QED BY <3>1, <3>2
  <2> QED BY <2>2, <2>3
<1>5. ASSUME NEW c \in Call, Cancel(c)
      PROVE  WalkOf(d, p)' /\ MergeOf(d, p)' /\ FreshOf(d, p)'
  <2>1. Forget(c) /\ UNCHANGED <<disk, files, index, args, input, touched, disturbed, last>>
        /\ pc' = [pc EXCEPT ![c] = "failed"] /\ pc'[c] = "failed" /\ pc[c] = "walk"
    BY <1>5 DEF Cancel, Walking, TypeOK
  <2>2. CASE d = c
    BY <2>1, <2>2 DEF WalkOf, MergeOf, FreshOf, InOrder, LastOf
  <2> QED BY <1>4, <2>1, <2>2
<1>6. ASSUME NEW c \in Call, Commit(c)
      PROVE  WalkOf(d, p)' /\ MergeOf(d, p)' /\ FreshOf(d, p)'
  <2>1. Forget(c) /\ UNCHANGED <<disk, index, args, touched>>
        /\ last'.build = last.build /\ pc' = [pc EXCEPT ![c] = "build"]
        /\ pc'[c] = "build" /\ pc[c] = "walk"
        /\ input' = [input EXCEPT ![c] = files']
        /\ disturbed' = [b \in Call |-> disturbed[b] \/ (b # c /\ pc[b] = "walk")]
    BY <1>6 DEF Commit, TypeOK
  <2>2. CASE d = c
    <3>1. MergeOf(c, p)'
      BY <1>6, CommitMerges
    <3> QED BY <2>1, <2>2, <3>1 DEF WalkOf, FreshOf, InOrder, LastOf
  <2>3. \A b \in Call \ {c} : input'[b] = input[b] /\ (disturbed[b] => disturbed'[b])
                              /\ (pc[b] = "walk" => disturbed'[b])
    BY <2>1 DEF TypeOK
  <2> QED BY <1>4, <2>1, <2>2, <2>3
<1>7. ASSUME NEW c \in Call, Build(c)
      PROVE  WalkOf(d, p)' /\ MergeOf(d, p)' /\ FreshOf(d, p)'
  <2>1. UNCHANGED <<disk, files, args, prev, pos, seen, updates, input, touched, disturbed>>
        /\ pc[c] = "build" /\ pc' = [pc EXCEPT ![c] = "report"] /\ pc'[c] = "report"
        /\ index' = input[c] /\ last'.build = c
    BY <1>7 DEF Build, walk, TypeOK
  <2>2. CASE d # c
    <3>1. WalkOf(d, p)' /\ MergeOf(d, p)'
      BY <1>0, <2>1, <2>2, WalkStays, MergeStays DEF TypeOK
    <3> QED BY <2>1, <2>2, <3>1 DEF FreshOf
  <2>3. CASE d = c
    <3>1. Lone(c)' /\ p \notin touched'[c] => Current(index, c, p)'
      BY <1>0, <2>1, <2>3 DEF MergeOf, Current, Lone, Limited, InScope, HasText
    <3> QED BY <2>1, <2>3, <3>1 DEF WalkOf, MergeOf, FreshOf
  <2> QED BY <2>2, <2>3
<1>8. ASSUME NEW c \in Call, Report(c)
      PROVE  WalkOf(d, p)' /\ MergeOf(d, p)' /\ FreshOf(d, p)'
  <2>1. UNCHANGED <<disk, files, index, args, prev, pos, seen, updates, touched, disturbed, last>>
        /\ pc[c] = "report" /\ pc' = [pc EXCEPT ![c] = "done"] /\ pc'[c] = "done"
        /\ input' = [input EXCEPT ![c] = NoFiles]
    BY <1>8 DEF Report, walk, TypeOK
  <2>2. CASE d # c
    BY <1>0, <2>1, <2>2, OthersStay DEF TypeOK
  <2>3. CASE d = c
    <3>1. FreshOf(c, p)'
      BY <1>0, <2>1, <2>3, FreshStays
    <3> QED BY <2>1, <2>3, <3>1 DEF WalkOf, MergeOf
  <2> QED BY <2>2, <2>3
<1>9. ASSUME NEW a \in Ask, Question(a)
      PROVE  WalkOf(d, p)' /\ MergeOf(d, p)' /\ FreshOf(d, p)'
  <2>1. UNCHANGED <<disk, files, index, pc, args, prev, pos, seen, updates, input,
                    touched, disturbed, last>>
    BY <1>9 DEF Question, LookIfEmpty, Stem, StemTorn, Search, Asks, walk
  <2> QED BY <1>0, <2>1, OthersStay
<1>10. CASE UNCHANGED vars
  <2>1. UNCHANGED <<disk, files, index, pc, args, prev, pos, seen, updates, input,
                    touched, disturbed, last>>
    BY <1>10 DEF vars, walk
  <2> QED BY <1>0, <2>1, OthersStay
<1>11. ASSUME NEW c \in Call, CancelReading(c)
       PROVE  WalkOf(d, p)' /\ MergeOf(d, p)' /\ FreshOf(d, p)'
  <2>1. UNCHANGED <<disk, files, index, pc, args, prev, updates, input, touched, last>>
        /\ disturbed' = [disturbed EXCEPT ![c] = TRUE] /\ See(c) /\ Stop(c)
    BY <1>11 DEF CancelReading
  <2>2. CASE d # c
    <3>1. pos'[d] = pos[d] /\ seen'[d] = seen[d] /\ disturbed'[d] = disturbed[d]
      BY <2>1, <2>2 DEF See, Stop, TypeOK
    <3> QED BY <1>0, <2>1, <3>1, OthersStay
  <2>3. CASE d = c
    <3>1. ~Lone(d)'
      BY <2>1, <2>3 DEF Lone, TypeOK
    <3> QED BY <3>1 DEF WalkOf, MergeOf, FreshOf
  <2> QED BY <2>2, <2>3
<1> QED BY <1>1, <1>2, <1>3, <1>5, <1>6, <1>7, <1>8, <1>9, <1>10, <1>11 DEF Next, Index

-----------------------------------------------------------------------------
(* Induction, over numbers and over the subsets of a finite set *)

LEMMA Induct ==
    ASSUME NEW S \in SUBSET Nat, 0 \in S, \A n \in S : n + 1 \in S
    PROVE  S = Nat
<1> SUFFICES ASSUME S # Nat PROVE FALSE
  OBVIOUS
<1>1. \E x \in Nat \ S : \A y \in Nat \ S : ~ (<<y, x>> \in OpToRel(<,Nat))
  BY NatLessThanWellFounded, WFMin
<1>2. PICK x \in Nat \ S : \A y \in Nat \ S : ~(y < x)
  BY <1>1 DEF OpToRel
<1>3. x - 1 \in Nat /\ x - 1 < x
  BY <1>2
<1> QED BY <1>2, <1>3

LEMMA InductSubsets ==
    ASSUME NEW S, IsFiniteSet(S), NEW A \in SUBSET (SUBSET S),
           \A T \in SUBSET S : (\A x \in T : T \ {x} \in A) => T \in A
    PROVE  A = SUBSET S
<1> SUFFICES ASSUME A # SUBSET S PROVE FALSE
  OBVIOUS
<1>1. IsWellFoundedOn(StrictSubsetOrdering(S), SUBSET S)
  <2>1. FiniteSubsetsOf(S) = SUBSET S
    BY FS_FiniteSubsetsOfFinite
  <2>2. IsWellFoundedOn(StrictSubsetOrdering(S), FiniteSubsetsOf(S))
    BY FS_StrictSubsetOrderingWellFounded
  <2> QED BY <2>1, <2>2
<1>2. (SUBSET S) \ A # {}
  OBVIOUS
<1>3. \E T \in (SUBSET S) \ A : \A U \in (SUBSET S) \ A : ~ (<<U, T>> \in StrictSubsetOrdering(S))
  BY <1>1, <1>2, WFMin
<1>4. PICK T \in (SUBSET S) \ A : \A U \in (SUBSET S) \ A : ~ (U \subseteq T /\ U # T)
  BY <1>3 DEF StrictSubsetOrdering
<1>5. \A x \in T : T \ {x} \in A
  BY <1>4
<1> QED BY <1>4, <1>5

-----------------------------------------------------------------------------
(* Sums: f is the function that SumFunctionOnSet is defined by, on S *)

Pick(s) == CHOOSE x \in s : TRUE

AddsUp(f, g, s) == f[s] = IF s = {} THEN 0 ELSE g[Pick(s)] + f[s \ {Pick(s)}]

Partial(f, g, S) ==
    f = [s \in SUBSET S |-> IF s = {} THEN 0
                            ELSE g[CHOOSE x \in s : TRUE] + f[s \ {CHOOSE x \in s : TRUE}]]

Total(g, S) == SumFunctionOnSet(g, S)

LEMMA PartialAre ==
    ASSUME NEW f, NEW g, NEW S
    PROVE  Partial(f, g, S) <=> /\ f = [s \in SUBSET S |-> f[s]]
                                /\ \A s \in SUBSET S : AddsUp(f, g, s)
<1> DEFINE F(s) == IF s = {} THEN 0 ELSE g[Pick(s)] + f[s \ {Pick(s)}]
<1>1. Partial(f, g, S) <=> f = [s \in SUBSET S |-> F(s)]
  BY DEF Partial, Pick
<1>2. \A s : AddsUp(f, g, s) <=> f[s] = F(s)
  BY DEF AddsUp
<1> HIDE DEF F
<1> QED BY <1>1, <1>2

LEMMA Smaller ==
    ASSUME NEW s, IsFiniteSet(s), s # {}, NEW x \in s
    PROVE  /\ IsFiniteSet(s \ {x}) /\ Cardinality(s) \in Nat
           /\ Cardinality(s \ {x}) = Cardinality(s) - 1
BY FS_RemoveElement, FS_CardinalityType

LEMMA PartialExists ==
    ASSUME NEW g, NEW S, IsFiniteSet(S)
    PROVE  \E f : Partial(f, g, S)
<1> DEFINE Good(f, m) == \A s \in SUBSET S : Cardinality(s) <= m => AddsUp(f, g, s)
           N == {m \in Nat : \E f : Good(f, m)}
<1>0. \A s \in SUBSET S : IsFiniteSet(s) /\ Cardinality(s) \in Nat
                          /\ (Cardinality(s) = 0 <=> s = {})
  BY FS_Subset, FS_CardinalityType, FS_EmptySet
<1>1. 0 \in N
  <2> DEFINE f == [s \in SUBSET S |-> 0]
  <2>1. \A s \in SUBSET S : Cardinality(s) <= 0 => s = {}
    BY <1>0
  <2>2. Good(f, 0)
    BY <2>1 DEF AddsUp
  <2> QED BY <2>2
<1>2. ASSUME NEW m \in N PROVE m + 1 \in N
  <2>1. PICK f : Good(f, m)
    OBVIOUS
  <2> DEFINE F(s) == IF s = {} THEN 0 ELSE g[Pick(s)] + f[s \ {Pick(s)}]
             h == [s \in SUBSET S |-> F(s)]
  <2>2. ASSUME NEW s \in SUBSET S, Cardinality(s) <= m + 1 PROVE AddsUp(h, g, s)
    <3>1. CASE s = {}
      BY <3>1 DEF AddsUp
    <3>2. CASE s # {}
      <4> DEFINE r == s \ {Pick(s)}
      <4>1. Pick(s) \in s
        BY <3>2 DEF Pick
      <4>2. r \in SUBSET S /\ Cardinality(r) <= m
        BY <1>0, <2>2, <3>2, <4>1, Smaller
      <4>3. f[r] = F(r)
        BY <2>1, <4>2 DEF AddsUp
      <4> HIDE DEF r
      <4>4. h[r] = f[r]
        BY <4>2, <4>3
      <4>5. h[s] = g[Pick(s)] + f[r]
        BY <3>2 DEF r
      <4> HIDE DEF h
      <4> QED BY <3>2, <4>4, <4>5 DEF AddsUp, r
    <3> QED BY <3>1, <3>2
  <2> HIDE DEF h
  <2> QED BY <2>2
<1> HIDE DEF N
<1>3. N = Nat
  BY <1>1, <1>2, Induct DEF N
<1>4. PICK f : Good(f, Cardinality(S))
  BY <1>0, <1>3 DEF N
<1>5. \A s \in SUBSET S : AddsUp(f, g, s)
  BY <1>4, FS_Subset
<1> DEFINE k == [s \in SUBSET S |-> f[s]]
<1>6. \A s \in SUBSET S : k[s] = f[s] /\ s \ {Pick(s)} \in SUBSET S
  OBVIOUS
<1>7. k = [s \in SUBSET S |-> k[s]]
  OBVIOUS
<1> HIDE DEF k
<1>8. \A s \in SUBSET S : AddsUp(k, g, s)
  BY <1>5, <1>6 DEF AddsUp
<1> QED BY <1>7, <1>8, PartialAre

LEMMA TotalIs ==
    ASSUME NEW g, NEW S, IsFiniteSet(S)
    PROVE  \E f : Partial(f, g, S) /\ Total(g, S) = f[S]
<1> DEFINE F == CHOOSE f :
              f = [s \in SUBSET S |-> IF s = {} THEN 0
                            ELSE g[CHOOSE x \in s : TRUE] + f[s \ {CHOOSE x \in s : TRUE}]]
<1>1. Total(g, S) = F[S]
  BY Zenon DEF Total, SumFunctionOnSet, FoldFunctionOnSet, MapThenFoldSet
<1>2. F = CHOOSE f : Partial(f, g, S)
  BY DEF Partial
<1> HIDE DEF F
<1>3. Partial(F, g, S)
  BY <1>2, PartialExists
<1> QED BY <1>1, <1>3

LEMMA PartialsAgree ==
    ASSUME NEW g, NEW T, NEW S \in SUBSET T, IsFiniteSet(S),
           NEW f, Partial(f, g, S), NEW h, Partial(h, g, T)
    PROVE  f[S] = h[S]
<1> DEFINE A == {s \in SUBSET S : f[s] = h[s]}
<1>1. \A s \in SUBSET S : AddsUp(f, g, s) /\ AddsUp(h, g, s)
  BY PartialAre
<1>2. ASSUME NEW s \in SUBSET S, \A x \in s : s \ {x} \in A PROVE s \in A
  <2>1. s # {} => Pick(s) \in s
    BY DEF Pick
  <2> QED BY <1>1, <1>2, <2>1 DEF AddsUp
<1>3. A \in SUBSET (SUBSET S)
  OBVIOUS
<1> HIDE DEF A
<1>4. A = SUBSET S
  BY <1>2, <1>3, InductSubsets
<1> QED BY <1>4 DEF A

\* A sum is the number picked first and the sum of the others.
LEMMA TotalPicks ==
    ASSUME NEW g, NEW S, IsFiniteSet(S)
    PROVE  /\ Total(g, {}) = 0
           /\ S # {} => Pick(S) \in S /\ Total(g, S) = g[Pick(S)] + Total(g, S \ {Pick(S)})
<1>1. Total(g, {}) = 0
  <2>1. PICK f : Partial(f, g, {}) /\ Total(g, {}) = f[{}]
    BY TotalIs, FS_EmptySet
  <2> QED BY <2>1, PartialAre DEF AddsUp
<1>2. ASSUME S # {}
      PROVE  Pick(S) \in S /\ Total(g, S) = g[Pick(S)] + Total(g, S \ {Pick(S)})
  <2> DEFINE R == S \ {Pick(S)}
  <2>1. PICK f : Partial(f, g, S) /\ Total(g, S) = f[S]
    BY TotalIs
  <2>2. IsFiniteSet(R) /\ R \in SUBSET S
    BY FS_Subset
  <2> HIDE DEF R
  <2>3. PICK h : Partial(h, g, R) /\ Total(g, R) = h[R]
    BY <2>2, TotalIs
  <2>4. h[R] = f[R]
    BY <2>1, <2>2, <2>3, PartialsAgree
  <2>5. f[S] = g[Pick(S)] + f[R]
    BY <1>2, <2>1, PartialAre DEF AddsUp, R
  <2>6. Pick(S) \in S
    BY <1>2 DEF Pick
  <2> QED BY <2>1, <2>3, <2>4, <2>5, <2>6 DEF R
<1> QED BY <1>1, <1>2

LEMMA TotalNat ==
    ASSUME NEW g, NEW S, IsFiniteSet(S), \A x \in S : g[x] \in Nat
    PROVE  \A s \in SUBSET S : IsFiniteSet(s) /\ Total(g, s) \in Nat
<1> DEFINE A == {s \in SUBSET S : Total(g, s) \in Nat}
<1>1. ASSUME NEW s \in SUBSET S, \A x \in s : s \ {x} \in A PROVE s \in A
  <2>1. IsFiniteSet(s)
    BY FS_Subset
  <2>2. CASE s = {}
    <3>1. Total(g, {}) = 0
      BY <2>1, TotalPicks
    <3> QED BY <2>2, <3>1
  <2>3. CASE s # {}
    <3>1. Pick(s) \in s /\ Total(g, s) = g[Pick(s)] + Total(g, s \ {Pick(s)})
      BY <2>1, <2>3, TotalPicks
    <3> QED BY <1>1, <3>1
  <2> QED BY <2>2, <2>3
<1>3. A \in SUBSET (SUBSET S)
  OBVIOUS
<1> HIDE DEF A
<1>2. A = SUBSET S
  BY <1>1, <1>3, InductSubsets
<1> QED BY <1>2, FS_Subset DEF A

\* A sum is any one of the numbers and the sum of the others.
LEMMA TotalSplits ==
    ASSUME NEW g, NEW S, IsFiniteSet(S), \A x \in S : g[x] \in Nat
    PROVE  \A x \in S : Total(g, S) = g[x] + Total(g, S \ {x})
<1> DEFINE Splits(s) == \A x \in s : Total(g, s) = g[x] + Total(g, s \ {x})
           A == {s \in SUBSET S : Splits(s)}
<1>1. ASSUME NEW s \in SUBSET S, \A x \in s : s \ {x} \in A PROVE s \in A
  <2> SUFFICES ASSUME NEW x \in s PROVE Total(g, s) = g[x] + Total(g, s \ {x})
    OBVIOUS
  <2> DEFINE y == Pick(s)
             rest == (s \ {x}) \ {y}
  <2>1. IsFiniteSet(s) /\ y \in s
    BY FS_Subset DEF Pick
  <2>2. Total(g, s) = g[y] + Total(g, s \ {y})
    BY <2>1, TotalPicks
  <2>3. CASE x = y
    BY <2>2, <2>3
  <2>4. CASE x # y
    <3> HIDE DEF y
    <3>1. rest = (s \ {y}) \ {x} /\ x \in s \ {y} /\ y \in s \ {x}
      BY <2>1, <2>4
    <3>2. Splits(s \ {y}) /\ Splits(s \ {x})
      BY <1>1, <2>1
    <3>3. Total(g, s \ {y}) = g[x] + Total(g, rest) /\ Total(g, s \ {x}) = g[y] + Total(g, rest)
      BY <3>1, <3>2
    <3>4. g[x] \in Nat /\ g[y] \in Nat /\ Total(g, rest) \in Nat
      BY <2>1, TotalNat
    <3> HIDE DEF rest
    <3> QED BY <2>2, <3>3, <3>4
  <2> QED BY <2>3, <2>4
<1>3. A \in SUBSET (SUBSET S)
  OBVIOUS
<1> HIDE DEF A
<1>2. A = SUBSET S
  BY <1>1, <1>3, InductSubsets
<1> QED BY <1>2 DEF A

\* Fewer and smaller numbers have a smaller sum.
LEMMA TotalLess ==
    ASSUME NEW g, NEW h, NEW T, IsFiniteSet(T), NEW S \in SUBSET T,
           \A x \in T : h[x] \in Nat,
           \A x \in S : g[x] \in Nat /\ g[x] <= h[x]
    PROVE  Total(g, S) <= Total(h, T)
<1> DEFINE A == {t \in SUBSET T : Total(g, S \cap t) <= Total(h, t)}
<1>0. IsFiniteSet(S)
  BY FS_Subset
<1>1. ASSUME NEW t \in SUBSET T, \A x \in t : t \ {x} \in A PROVE t \in A
  <2>0. /\ IsFiniteSet(t) /\ Total(h, t) \in Nat
        /\ IsFiniteSet(S \cap t) /\ Total(g, S \cap t) \in Nat
    BY <1>0, TotalNat
  <2>1. CASE t = {}
    <3>1. S \cap t = {} /\ Total(g, {}) = 0 /\ Total(h, {}) = 0
      BY <2>0, <2>1, TotalPicks
    <3> QED BY <2>1, <3>1
  <2>2. CASE t # {}
    <3>1. PICK x \in t : TRUE
      BY <2>2
    <3>2. Total(h, t) = h[x] + Total(h, t \ {x})
      BY <2>0, TotalSplits
    <3>3. Total(g, S \cap (t \ {x})) <= Total(h, t \ {x})
      BY <1>1
    <3>4. h[x] \in Nat /\ Total(h, t \ {x}) \in Nat /\ Total(g, S \cap (t \ {x})) \in Nat
      BY <1>0, TotalNat
    <3>5. CASE x \in S
      <4>1. Total(g, S \cap t) = g[x] + Total(g, (S \cap t) \ {x})
        BY <2>0, <3>5, TotalSplits
      <4>2. Total(g, (S \cap t) \ {x}) = Total(g, S \cap (t \ {x}))
        <5>1. (S \cap t) \ {x} = S \cap (t \ {x})
          OBVIOUS
        <5> QED BY <5>1
      <4>3. g[x] \in Nat /\ g[x] <= h[x]
        BY <3>5
      <4>4. Total(g, S \cap t) <= Total(h, t)
        BY <3>2, <3>3, <3>4, <4>1, <4>2, <4>3
      <4> QED BY <4>4
    <3>6. CASE x \notin S
      <4>1. Total(g, S \cap t) = Total(g, S \cap (t \ {x}))
        <5>1. S \cap t = S \cap (t \ {x})
          BY <3>6
        <5> QED BY <5>1
      <4>2. Total(g, S \cap t) <= Total(h, t)
        BY <3>2, <3>3, <3>4, <4>1
      <4> QED BY <4>2
    <3> QED BY <3>5, <3>6
  <2> QED BY <2>1, <2>2
<1>4. A \in SUBSET (SUBSET T)
  OBVIOUS
<1> HIDE DEF A
<1>2. A = SUBSET T
  BY <1>1, <1>4, InductSubsets
<1>3. S \cap T = S
  OBVIOUS
<1> QED BY <1>2, <1>3 DEF A

-----------------------------------------------------------------------------
(* The cut of a list of documents to a number of chunks *)

Numbers(f, S) == [p \in S |-> f[p].n]

\* The place of a path in the order, the paths up to a place, and those that
\* Before counts.
PlaceOf(p) == CHOOSE i \in 1..Len(SortOrder) : SortOrder[i] = p
UpTo(i) == {p \in Path : PlaceOf(p) <= i}
Sorted(i) == {SortOrder[j] : j \in 1..i}

LEMMA Places ==
    /\ IsFiniteSet(Path) /\ Len(SortOrder) \in Nat
    /\ \A p \in Path : /\ PlaceOf(p) \in 1..Len(SortOrder) /\ SortOrder[PlaceOf(p)] = p
                       /\ Sorted(PlaceOf(p) - 1) \subseteq Path
                       /\ UpTo(PlaceOf(p) - 1) \subseteq Sorted(PlaceOf(p) - 1)
<1>1. SortOrder \in [1..Len(SortOrder) -> Path] /\ Len(SortOrder) \in Nat
  BY WikiIndexAssumption
<1>2. \A p \in Path : \E i \in 1..Len(SortOrder) : SortOrder[i] = p
  BY <1>1, WikiIndexAssumption DEF Range
<1>3. IsFiniteSet(1..Len(SortOrder))
  BY <1>1, FS_Interval
<1>4. SortOrder \in Surjection(1..Len(SortOrder), Path)
  BY <1>1, <1>2 DEF Surjection
<1>5. IsFiniteSet(Path)
  BY <1>3, <1>4, FS_Surjection
<1>6. \A p \in Path : PlaceOf(p) \in 1..Len(SortOrder) /\ SortOrder[PlaceOf(p)] = p
  BY <1>2 DEF PlaceOf
<1>7. \A p \in Path : Sorted(PlaceOf(p) - 1) \subseteq Path
  BY <1>1, <1>6 DEF Sorted
<1>8. ASSUME NEW p \in Path, NEW q \in UpTo(PlaceOf(p) - 1) PROVE q \in Sorted(PlaceOf(p) - 1)
  <2>1. PlaceOf(q) \in 1..(PlaceOf(p) - 1) /\ SortOrder[PlaceOf(q)] = q
    BY <1>1, <1>6 DEF UpTo
  <2> HIDE DEF PlaceOf
  <2> QED BY <2>1 DEF Sorted
<1> QED BY <1>1, <1>5, <1>6, <1>7, <1>8

LEMMA CountIs ==
    ASSUME NEW f
    PROVE  Count(f) = Total(Numbers(f, Path), Path)
<1>1. DOMAIN Numbers(f, Path) = Path
  BY DEF Numbers
<1>2. Count(f) = SumFunction(Numbers(f, Path))
  BY DEF Count, Numbers
<1> QED BY <1>1, <1>2 DEF SumFunction, Total

LEMMA BeforeIs ==
    ASSUME NEW f, NEW p \in Path
    PROVE  LET s == Sorted(PlaceOf(p) - 1)
           IN  Before(f, p) = Total(Numbers(f, s), s)
<1> DEFINE s == Sorted(PlaceOf(p) - 1)
<1>1. DOMAIN Numbers(f, s) = s
  BY DEF Numbers
<1>2. Before(f, p) = SumFunction(Numbers(f, s))
  BY DEF Before, Numbers, PlaceOf, Sorted
<1> HIDE DEF s
<1>3. SumFunction(Numbers(f, s)) = Total(Numbers(f, s), s)
  BY <1>1 DEF SumFunction, Total
<1> QED BY <1>2, <1>3 DEF s

\* What a cut leaves of a document: no more than there is, and than there is room.
LEMMA CutLeaves ==
    ASSUME NEW f \in [Path -> Record], NEW max \in Nat \ {0}, NEW p \in Path,
           Before(f, p) \in Nat
    PROVE  LET n == Cut(f, max)[p].n
           IN  n \in Nat /\ n <= f[p].n /\ (n # 0 => Before(f, p) + n <= max)
<1> DEFINE b == Before(f, p)
           all == f[p].n
           kept == {k \in 1..all : b + k <= max}
<1>1. all \in Nat
  BY DEF Record
<1>2. Cut(f, max)[p].n = IF kept = {} THEN 0 ELSE Cardinality(kept)
  BY DEF Cut, Nothing
<1> HIDE DEF b, all
<1>3. IsFiniteSet(1..all) /\ Cardinality(1..all) = all
  BY <1>1, FS_Interval
<1>4. IsFiniteSet(kept) /\ Cardinality(kept) \in Nat /\ Cardinality(kept) <= all
  BY <1>3, FS_Subset, FS_CardinalityType
<1>5. ASSUME kept # {} PROVE b + Cardinality(kept) <= max
  <2>1. max - b \in Nat /\ kept \subseteq 1..(max - b)
    BY <1>1, <1>5 DEF b
  <2>2. IsFiniteSet(1..(max - b)) /\ Cardinality(1..(max - b)) = max - b
    BY <2>1, FS_Interval
  <2>3. Cardinality(kept) <= max - b
    BY <2>1, <2>2, FS_Subset
  <2> HIDE DEF kept
  <2> QED BY <1>4, <2>1, <2>3 DEF b
<1> HIDE DEF kept
<1>6. kept = {} => Cardinality(kept) = 0
  BY FS_EmptySet
<1> QED BY <1>1, <1>2, <1>4, <1>5, <1>6 DEF b, all

LEMMA CutFits ==
    ASSUME NEW f \in [Path -> Record], NEW max \in Nat \ {0}
    PROVE  Count(Cut(f, max)) <= max
<1> DEFINE h == Cut(f, max)
           g == Numbers(h, Path)
           b(p) == Before(f, p)
           here(p) == Sorted(PlaceOf(p) - 1)
           fs(p) == Numbers(f, here(p))
<1>1. \A p \in Path : b(p) = Total(fs(p), here(p))
  BY BeforeIs
<1>2. \A p \in Path : /\ IsFiniteSet(here(p)) /\ here(p) \subseteq Path
                      /\ \A q \in here(p) : fs(p)[q] = f[q].n /\ f[q].n \in Nat
  BY Places, FS_Subset DEF Numbers, Record
<1> HIDE DEF fs, here
<1>3. \A p \in Path : b(p) \in Nat
  BY <1>1, <1>2, TotalNat
<1>4. \A p \in Path : /\ g[p] \in Nat /\ g[p] <= f[p].n
                      /\ g[p] # 0 => b(p) + g[p] <= max
  BY <1>3, CutLeaves DEF Numbers
<1>5. \A p \in Path : UpTo(PlaceOf(p) - 1) \subseteq here(p)
  BY Places DEF here
<1> HIDE DEF g, b, h
<1>6. ASSUME NEW p \in Path PROVE Total(g, UpTo(PlaceOf(p) - 1)) <= b(p)
  <2> DEFINE s == UpTo(PlaceOf(p) - 1)
             t == here(p)
             k == fs(p)
  <2>1. IsFiniteSet(t) /\ s \in SUBSET t /\ t \subseteq Path
        /\ \A q \in t : k[q] \in Nat /\ k[q] = f[q].n
    BY <1>2, <1>5
  <2>2. b(p) = Total(k, t)
    BY <1>1
  <2> HIDE DEF s, t, k
  <2>3. \A q \in s : g[q] \in Nat /\ g[q] <= k[q]
    BY <1>4, <2>1
  <2>4. Total(g, s) <= Total(k, t)
    BY <2>1, <2>3, TotalLess
  <2> QED BY <2>2, <2>4 DEF s
<1> DEFINE N == {i \in Nat : Total(g, UpTo(i)) <= max}
<1>7. \A i \in Nat : IsFiniteSet(UpTo(i)) /\ Total(g, UpTo(i)) \in Nat
  <2>1. IsFiniteSet(Path) /\ \A p \in Path : g[p] \in Nat
    BY <1>4, Places
  <2>2. \A i \in Nat : UpTo(i) \in SUBSET Path
    BY DEF UpTo
  <2> QED BY <2>1, <2>2, TotalNat
<1>8. 0 \in N
  <2>1. UpTo(0) = {}
    BY Places DEF UpTo
  <2>2. Total(g, {}) = 0
    BY TotalPicks, FS_EmptySet
  <2> QED BY <2>1, <2>2
<1>9. ASSUME NEW i \in N PROVE i + 1 \in N
  <2>0. i \in Nat /\ i + 1 \in Nat /\ Total(g, UpTo(i)) <= max
    OBVIOUS
  <2>1. CASE \A p \in Path : PlaceOf(p) # i + 1
    <3>1. UpTo(i + 1) = UpTo(i)
      BY <2>0, <2>1, Places DEF UpTo
    <3> QED BY <2>0, <3>1
  <2>2. ASSUME NEW p \in Path, PlaceOf(p) = i + 1 PROVE Total(g, UpTo(i + 1)) <= max
    <3>1. p \in UpTo(i + 1) /\ UpTo(i + 1) \ {p} = UpTo(i)
      <4>1. \A q \in Path : PlaceOf(q) = i + 1 => q = p
        BY <2>2, Places
      <4>2. \A q \in Path : PlaceOf(q) \in Nat
        BY Places
      <4> QED BY <2>0, <2>2, <4>1, <4>2 DEF UpTo
    <3>2. Total(g, UpTo(i + 1)) = g[p] + Total(g, UpTo(i + 1) \ {p})
      <4>1. \A q \in UpTo(i + 1) : g[q] \in Nat
        BY <1>4 DEF UpTo
      <4> QED BY <1>7, <2>0, <3>1, <4>1, TotalSplits
    <3>3. PlaceOf(p) - 1 = i
      BY <2>0, <2>2
    <3>4. Total(g, UpTo(i)) <= b(p)
      BY <1>6, <3>3
    <3>5. Total(g, UpTo(i + 1)) = g[p] + Total(g, UpTo(i))
      BY <3>1, <3>2
    <3>6. g[p] \in Nat /\ b(p) \in Nat /\ (g[p] # 0 => b(p) + g[p] <= max)
      BY <1>3, <1>4
    <3> QED BY <1>7, <2>0, <3>4, <3>5, <3>6
  <2> QED BY <2>0, <2>1, <2>2
<1> HIDE DEF N
<1>10. N = Nat
  <2>1. N \in SUBSET Nat
    BY DEF N
  <2> QED BY <1>8, <1>9, <2>1, Induct
<1>11. UpTo(Len(SortOrder)) = Path /\ Len(SortOrder) \in Nat
  BY Places DEF UpTo
<1>12. Total(g, Path) <= max
  BY <1>10, <1>11 DEF N
<1>13. Count(h) = Total(g, Path)
  BY CountIs DEF g
<1> QED BY <1>12, <1>13 DEF h

-----------------------------------------------------------------------------
(* The limit of chunks *)

\* What a call brings to the index is within its limit, and so is the index.
CappedOf(c) ==
    /\ pc[c] = "build" /\ args[c].maxChunks > 0 => Count(input[c]) <= args[c].maxChunks
    /\ last.build = c => pc[c] \in {"report", "done"}
    /\ last.build = c /\ args[c].maxChunks > 0 => Count(index) <= args[c].maxChunks

Capped == \A c \in Call : CappedOf(c)

LEMMA CappedInit == Init => Capped
<1> SUFFICES ASSUME Init, NEW c \in Call PROVE CappedOf(c)
  BY DEF Capped
<1>1. pc[c] = "idle" /\ last.build = NoCall /\ NoCall # c
  BY WikiIndexAssumption DEF Init
<1> QED BY <1>1 DEF CappedOf

LEMMA CappedStep == TypeOK /\ Capped /\ [Next]_vars => Capped'
<1> SUFFICES ASSUME TypeOK, Capped, [Next]_vars PROVE Capped'
  OBVIOUS
<1> USE WikiIndexAssumption DEF Capped, CappedOf
<1>1. CASE Aside
  <2>1. UNCHANGED <<index, pc, args, input, last>>
    BY <1>1, AsideKeeps
  <2> QED BY <2>1 DEF Count
<1>2. ASSUME NEW c \in Call, NEW a \in Args, Begin(c, a) PROVE Capped'
  <2>1. UNCHANGED <<index, input, last>> /\ pc[c] = "idle" /\ pc' = [pc EXCEPT ![c] = "walk"]
        /\ args' = [args EXCEPT ![c] = a]
    BY <1>2 DEF Begin
  <2>2. Count(index)' = Count(index) /\ \A d \in Call : Count(input[d])' = Count(input[d])
    BY <2>1 DEF Count
  <2>3. \A d \in Call : IF d = c THEN pc'[d] = "walk" /\ last.build # d
                                 ELSE pc'[d] = pc[d] /\ args'[d] = args[d]
    BY <2>1 DEF TypeOK
  <2> QED BY <2>1, <2>2, <2>3
<1>3. ASSUME NEW c \in Call, Cancel(c) PROVE Capped'
  <2>1. UNCHANGED <<index, input, last, args>> /\ pc[c] = "walk"
        /\ pc' = [pc EXCEPT ![c] = "failed"]
    BY <1>3 DEF Cancel, Walking
  <2>2. Count(index)' = Count(index) /\ \A d \in Call : Count(input[d])' = Count(input[d])
    BY <2>1 DEF Count
  <2>3. \A d \in Call : IF d = c THEN pc'[d] = "failed" /\ last.build # d
                                 ELSE pc'[d] = pc[d]
    BY <2>1 DEF TypeOK
  <2> QED BY <2>1, <2>2, <2>3
<1>4. ASSUME NEW c \in Call, Commit(c) PROVE Capped'
  <2>1. UNCHANGED <<index, args>> /\ last'.build = last.build /\ pc[c] = "walk"
        /\ pc' = [pc EXCEPT ![c] = "build"]
        /\ input' = [input EXCEPT ![c] = Cut(Merged(c), args[c].maxChunks)]
    BY <1>4 DEF Commit, TypeOK
  <2>2. args[c].maxChunks > 0 => Count(Cut(Merged(c), args[c].maxChunks)) <= args[c].maxChunks
    <3>1. Merged(c) \in [Path -> Record]
      <4>1. Nothing \in Record /\ files \in [Path -> Record]
            /\ updates[c] \in [Path -> Record]
        BY DEF TypeOK, Nothing, Record
      <4> QED BY <4>1 DEF Merged
    <3>2. args[c].maxChunks \in Nat
      BY DEF TypeOK
    <3> QED BY <3>1, <3>2, CutFits
  <2>3. Count(index)' = Count(index)
        /\ Count(input[c])' = Count(Cut(Merged(c), args[c].maxChunks))
        /\ \A d \in Call : d # c => Count(input[d])' = Count(input[d])
    BY <2>1 DEF Count, TypeOK
  <2>4. \A d \in Call : IF d = c THEN pc'[d] = "build" /\ last.build # d
                                 ELSE pc'[d] = pc[d]
    BY <2>1 DEF TypeOK
  <2> QED BY <2>1, <2>2, <2>3, <2>4
<1>5. ASSUME NEW c \in Call, Build(c) PROVE Capped'
  <2>1. UNCHANGED <<input, args>> /\ last'.build = c /\ pc[c] = "build"
        /\ pc' = [pc EXCEPT ![c] = "report"] /\ index' = input[c]
    BY <1>5 DEF Build, TypeOK
  <2>2. Count(index)' = Count(input[c]) /\ \A d \in Call : Count(input[d])' = Count(input[d])
    BY <2>1 DEF Count
  <2>3. \A d \in Call : IF d = c THEN pc'[d] = "report" ELSE pc'[d] = pc[d]
    BY <2>1 DEF TypeOK
  <2> QED BY <2>1, <2>2, <2>3
<1>6. ASSUME NEW c \in Call, Report(c) PROVE Capped'
  <2>1. UNCHANGED <<index, last, args>> /\ pc[c] = "report" /\ pc' = [pc EXCEPT ![c] = "done"]
        /\ input' = [input EXCEPT ![c] = NoFiles]
    BY <1>6 DEF Report
  <2>2. Count(index)' = Count(index)
        /\ \A d \in Call : d # c => Count(input[d])' = Count(input[d])
    BY <2>1 DEF Count, TypeOK
  <2>3. \A d \in Call : IF d = c THEN pc'[d] = "done" ELSE pc'[d] = pc[d]
    BY <2>1 DEF TypeOK
  <2> QED BY <2>1, <2>2, <2>3
<1> QED BY <1>1, <1>2, <1>3, <1>4, <1>5, <1>6 DEF Next, Index, Aside

-----------------------------------------------------------------------------
\* Everything together, an inductive invariant.
IInv == TypeOK /\ InOrder /\ Records /\ Walks /\ Capped

THEOREM Inductive == Spec => []IInv
<1>1. Init => InOrder /\ Records /\ Walks /\ Capped
  BY InOrderInit, RecordsInit, WalksInit, CappedInit
<1>2. TypeOK /\ InOrder /\ Records /\ Walks /\ Capped /\ [Next]_vars
      => (InOrder /\ Records /\ Walks /\ Capped)'
  BY InOrderStep, RecordsStep, WalksStep, CappedStep
<1> QED BY <1>1, <1>2, Typing, PTL DEF Spec, IInv

\* After a rebuild the index is within the limit of the call that made it.
THEOREM WithinCap == Spec => []CapKept
<1>1. IInv => CapKept
  BY WikiIndexAssumption DEF IInv, TypeOK, Capped, CappedOf, CapKept
<1> QED BY <1>1, Inductive, PTL

\* After a call without limits that nobody overlapped the index agrees with the
\* directory, in the files nobody has edited since it began.
THEOREM Fresh == Spec => []FreshAfterIndexing
<1>1. IInv => FreshAfterIndexing
  BY DEF IInv, Walks, FreshOf, Lone, FreshAfterIndexing
<1> QED BY <1>1, Inductive, PTL

\* A document that lies there as it is known is not dropped by an incremental
\* call without limits that looks for it and that nobody overlaps.
THEOREM Kept == Spec => KeptWhileThere
<1> DEFINE Keeps(c, p) ==
        pc[c] = "walk" /\ pc'[c] = "build" /\ files[p] # Nothing /\ files[p].doc = disk[p]
            /\ files'[p] # files[p]
        => \/ Limited(c) \/ disturbed[c] \/ p \in touched[c] \/ ~InScope(c, p)
           \/ ~args[c].incremental
<1>1. IInv /\ [Next]_vars => [\A c \in Call, p \in Path : Keeps(c, p)]_vars
  <2> SUFFICES ASSUME IInv, [Next]_vars, NEW c \in Call, NEW p \in Path,
                      pc[c] = "walk", pc'[c] = "build", files[p] # Nothing,
                      files[p].doc = disk[p], ~Limited(c), ~disturbed[c],
                      p \notin touched[c], InScope(c, p), args[c].incremental
               PROVE  files'[p] = files[p]
    OBVIOUS
  <2> USE DEF IInv
  <2>1. Commit(c)
    <3>1. CASE Aside
      BY <3>1, AsideKeeps
    <3>2. ASSUME NEW d \in Call, NEW a \in Args, Begin(d, a) PROVE FALSE
      BY <3>2 DEF Begin, TypeOK
    <3>3. ASSUME NEW d \in Call, Cancel(d) \/ Build(d) \/ Report(d) PROVE FALSE
      BY <3>3 DEF Cancel, Build, Report, TypeOK
    <3>4. ASSUME NEW d \in Call, Commit(d) PROVE d = c
      BY <3>4 DEF Commit, TypeOK
    <3> QED BY <3>1, <3>2, <3>3, <3>4 DEF Next, Index, Aside
  <2>2. args[c].maxChunks = 0
    BY WikiIndexAssumption DEF TypeOK, Limited
  <2>3. files' = Merged(c)
    BY <2>1, <2>2 DEF Commit, Cut
  <2>4. SawOf(c, p)
    BY DEF Walks, WalkOf, Lone
  <2>5. Visited(c, p)
    <3>1. WalkOrder \in Seq(Path) /\ Range(WalkOrder) = Path
      BY WikiIndexAssumption
    <3>2. PICK i \in DOMAIN WalkOrder : WalkOrder[i] = p
      BY <3>1 DEF Range
    <3> QED BY <2>1, <3>1, <3>2 DEF Commit, Visited, Ended
  <2>6. disk[p] # Absent
    BY WikiIndexAssumption DEF Records, Uncut
  <2>7. p \in seen[c] /\ updates[c][p] = Nothing
    BY <2>4, <2>5, <2>6 DEF SawOf, New
  <2> QED BY <2>3, <2>7 DEF Merged
<1> QED BY <1>1, Inductive, PTL DEF Spec, KeptWhileThere
=============================================================================
