-------------------------- MODULE ValidateMatrix_proofs -------------------------
(***************************************************************************)
(* Theorems about the load closure and the validation of a matrix of       *)
(* targets, for any AddOn directory, configuration and snapshots.          *)
(*                                                                         *)
(* The first part is about LoadClosure alone.  Its inductive invariant     *)
(* ClosureInv says, of the references that were read, what the properties  *)
(* say of all of them in the end: ToBeRead separates the two.  OrderInv    *)
(* adds the order of the ways to them.  The second part derives what one   *)
(* result says, and with it MatrixInv for the results of the command.      *)
(***************************************************************************)
EXTENDS ValidateMatrix, SequenceTheorems, FiniteSetTheorems, WellFoundedInduction, TLAPS

(***************************************************************************)
(* Types, and what is on the stack.                                        *)
(***************************************************************************)
Nodes  == Paths \cup [file : Tocs, links : {0}]
Places == [in : Nodes, at : Nat]
Codes  == Rejected \cup Warnings
          \cup {"load_file_missing", "load_file_unreadable", "xml_parse_failed"}
Frames == {o \in Places : o.in.file \in Readers /\ o.at # 0}

Typed ==
  /\ disk \in Disks
  /\ toc \in Tocs \cup {NoToc}
  /\ stack \in Seq(Frames)
  /\ files \in Seq(Paths)
  /\ loadedBy \in [Paths -> Seq(Places)]
  /\ diagnostics \in Seq([code : Codes, at : Places])

(* What is being read is the TOC file or was loaded before.                *)
Rooted ==
  /\ toc = NoToc => stack = <<>> /\ Loaded = {}
  /\ \A k \in DOMAIN stack : stack[k].in \in Loaded \cup {Root}
  /\ \A k \in DOMAIN stack : stack[k].in = Root => toc \in disk.there

(***************************************************************************)
(* The steps of the reader, by what they do to the stack and to the set of *)
(* loaded files: Skip and Enter pass the reference at the top, Leave ends  *)
(* the file at the top.                                                    *)
(***************************************************************************)
Passed == /\ stack' # <<>> /\ DOMAIN stack \subseteq DOMAIN stack'
          /\ \A k \in DOMAIN stack : stack'[k].in = stack[k].in
          /\ \A k \in DOMAIN stack \ {Len(stack)} : stack'[k].at = stack[k].at
          /\ stack'[Len(stack)].at = stack[Len(stack)].at + 1

Skip == /\ Pending /\ Passed
        /\ Len(stack') = Len(stack)
        /\ Loaded' = Loaded
        /\ \A q \in Paths : LeadsTo(Top.in, Top.at, q) => q \in Loaded

Enter == /\ Resolved /\ Passed
         /\ Target \in Paths \ Loaded
         /\ Loaded' = Loaded \cup {Target}
         /\ \/ Len(stack') = Len(stack) /\ Target.file \in Lua
            \/ Len(stack') = Len(stack) + 1 /\ stack'[Len(stack) + 1] = [in |-> Target, at |-> 1]

Leave == /\ stack # <<>> /\ Top.at > Len(Says(Top.in))
         /\ stack' = SubSeq(stack, 1, Len(stack) - 1)
         /\ Loaded' = Loaded

(* The same steps by how the reference at the top is answered: rejected,    *)
(* led to a known file, or led to a new one; and the end of a file.         *)
Rejects == /\ Skip
           /\ \A q \in Paths : ~LeadsTo(Top.in, Top.at, q)
           /\ \E code \in Codes \ Warnings : Report(code, Top)
           /\ UNCHANGED <<files, loadedBy>>

Repeats == /\ Skip /\ Resolved /\ Target \in Loaded
           /\ RecordSource
           /\ Report(Warning, Top)
           /\ UNCHANGED files

Enters == /\ Enter /\ RecordSource
          /\ files' = Append(files, Target)
          /\ UNCHANGED diagnostics

Ends == /\ Leave
        /\ IF Top.in.file \in disk.torn THEN \E code \in Codes \ Warnings : Report(code, Top)
                                         ELSE UNCHANGED diagnostics
        /\ UNCHANGED <<files, loadedBy>>

(* The reference at the top of the stack.                                   *)
LEMMA AtTop ==
  ASSUME Typed, stack # <<>>
  PROVE  /\ Len(stack) \in Nat \ {0} /\ Len(stack) \in DOMAIN stack
         /\ Top \in Frames
         /\ Says(Top.in) \in Seq(References)
         /\ Advanced \in Seq(Frames)
         /\ Len(Advanced) = Len(stack)
         /\ \A k \in DOMAIN stack : Advanced[k].in = stack[k].in
         /\ \A k \in DOMAIN stack \ {Len(stack)} : Advanced[k].at = stack[k].at
         /\ Advanced[Len(stack)].at = stack[Len(stack)].at + 1
<1>1. Len(stack) \in Nat \ {0} /\ Len(stack) \in DOMAIN stack /\ Top \in Frames
  BY DEF Typed, Top
<1>2. Says(Top.in) \in Seq(References)
  BY <1>1, ClosureAssumption DEF Typed, Frames, Says
<1>3. [Top EXCEPT !.at = @ + 1] \in Frames
  BY <1>1 DEF Frames, Places
<1>4. Advanced = [stack EXCEPT ![Len(stack)] = [Top EXCEPT !.at = @ + 1]]
  BY DEF Advanced, Top
<1>5. Advanced \in Seq(Frames) /\ Len(Advanced) = Len(stack)
  BY <1>1, <1>3, <1>4 DEF Typed
<1>6. /\ [Top EXCEPT !.at = @ + 1].in = Top.in
      /\ [Top EXCEPT !.at = @ + 1].at = Top.at + 1
  BY <1>1 DEF Frames, Places
<1>7. /\ \A k \in DOMAIN stack : Advanced[k].in = stack[k].in
      /\ \A k \in DOMAIN stack \ {Len(stack)} : Advanced[k].at = stack[k].at
      /\ Advanced[Len(stack)].at = stack[Len(stack)].at + 1
  BY <1>1, <1>4, <1>6 DEF Typed, Top
<1>8. QED
  BY <1>1, <1>2, <1>5, <1>7

(* A reference that can be resolved leads to one path.                      *)
LEMMA TargetFacts ==
  ASSUME Typed, Pending
  PROVE  /\ Reference(Top) \in References
         /\ Top.at \in Positions(Top.in)
         /\ Resolved => Target \in Paths /\ LeadsTo(Top.in, Top.at, Target)
         /\ \A q \in Paths : LeadsTo(Top.in, Top.at, q) => Resolved /\ q = Target
<1>1. stack # <<>> /\ Top.at <= Len(Says(Top.in))
  BY DEF Pending
<1>2. Top \in Frames /\ Says(Top.in) \in Seq(References)
  BY <1>1, AtTop
<1>3. Top.at \in DOMAIN Says(Top.in) /\ Top.in.file \in Readers
  BY <1>1, <1>2 DEF Frames, Places
<1>4. Reference(Top) \in References /\ Top.at \in Positions(Top.in)
  BY <1>2, <1>3 DEF Reference, Positions
<1>5. Target.links \in Nat /\ Target = [file |-> Reference(Top).to, links |-> Target.links]
  BY <1>2, <1>4, ClosureAssumption DEF Target, Resolve, References, Frames, Places, Nodes, Paths
<1>6. Resolved => Target \in Paths
  BY <1>5, ClosureAssumption DEF Resolved, Paths
<1>7. Resolved => LeadsTo(Top.in, Top.at, Target)
  BY DEF Resolved, LeadsTo, Target, Reference
<1>8. ASSUME NEW q \in Paths, LeadsTo(Top.in, Top.at, q)
      PROVE  Resolved /\ q = Target
  BY <1>8, ClosureAssumption DEF LeadsTo, Target, Reference, Resolved, Paths
<1>9. QED
  BY <1>4, <1>6, <1>7, <1>8

(* Appending an answer keeps the types.                                     *)
LEMMA RecordFacts ==
  ASSUME Typed, Resolved
  PROVE  /\ [loadedBy EXCEPT ![Target] = Append(@, Top)] \in [Paths -> Seq(Places)]
         /\ {p \in Paths : [loadedBy EXCEPT ![Target] = Append(@, Top)][p] # <<>>}
              = Loaded \cup {Target}
<1>1. Pending /\ stack # <<>>
  BY DEF Resolved, Pending
<1>2. Target \in Paths /\ Top \in Places
  BY <1>1, TargetFacts, AtTop DEF Frames
<1>3. loadedBy[Target] \in Seq(Places)
  BY <1>2 DEF Typed
<1>4. Append(loadedBy[Target], Top) \in Seq(Places) /\ Append(loadedBy[Target], Top) # <<>>
  BY <1>2, <1>3
<1>5. QED
  BY <1>2, <1>4 DEF Typed, Loaded

(* A diagnostic is added at the end.                                        *)
LEMMA ReportFacts ==
  ASSUME Typed, NEW code \in Codes, NEW o \in Places
  PROVE  Append(diagnostics, Diagnostic(code, o)) \in Seq([code : Codes, at : Places])
BY DEF Typed, Diagnostic

(* Every step of the reader is of one of the three kinds.                   *)
LEMMA StepKinds ==
  ASSUME Typed, Loading
  PROVE  /\ Rejects \/ Repeats \/ Enters \/ Ends
         /\ Skip \/ Enter \/ Leave
         /\ Typed'
         /\ UNCHANGED <<disk, toc>>
<1>1. stack # <<>> /\ Top \in Frames /\ Top \in Places
  <2>1. stack # <<>>
    BY DEF Loading, LoadRejected, LoadTooManyLinks, LoadKnown, LoadLua, LoadXml, EndFile,
           Resolved, Pending
  <2>2. QED
    BY <2>1, AtTop DEF Frames
<1>2. UNCHANGED <<disk, toc>>
  BY DEF Loading, LoadRejected, LoadTooManyLinks, LoadKnown, LoadLua, LoadXml, EndFile
<1>3. ASSUME Pending, stack' = Advanced, Loaded' = Loaded,
             \A q \in Paths : LeadsTo(Top.in, Top.at, q) => q \in Loaded
      PROVE  Skip
  BY <1>1, <1>3, AtTop DEF Skip, Passed
<1>4. CASE LoadRejected
  <2>1. Pending /\ stack' = Advanced /\ Loaded' = Loaded /\ Reference(Top).to \in Rejected
    BY <1>4 DEF LoadRejected, Loaded
  <2>2. Skip
    BY <1>3, <2>1, ClosureDistinct DEF LeadsTo, Reference
  <2>3. diagnostics' \in Seq([code : Codes, at : Places])
    BY <1>1, <1>4, <2>1, ReportFacts DEF LoadRejected, Report, Codes
  <2>4. Rejects
    <3>1. Reference(Top).to \in Codes \ Warnings
      BY <2>1, ClosureDistinct DEF Codes
    <3>2. \A q \in Paths : ~LeadsTo(Top.in, Top.at, q)
      BY <2>1, ClosureDistinct DEF LeadsTo, Reference
    <3>3. QED
      BY <1>4, <2>2, <3>1, <3>2 DEF Rejects, LoadRejected
  <2>5. QED
    BY <1>1, <1>2, <1>4, <2>1, <2>2, <2>3, <2>4, AtTop DEF Typed, LoadRejected
<1>5. CASE LoadTooManyLinks
  <2>1. Pending /\ stack' = Advanced /\ Loaded' = Loaded /\ Target.links > MaxLinks
    BY <1>5 DEF LoadTooManyLinks, Loaded
  <2>2. ~Resolved
    BY <1>1, <2>1, AtTop, ClosureAssumption
       DEF Resolved, Target, Resolve, Frames, Places, Nodes, Paths
  <2>3. Skip
    BY <1>3, <2>1, <2>2, TargetFacts
  <2>4. diagnostics' \in Seq([code : Codes, at : Places])
    BY <1>1, <1>5, ReportFacts DEF LoadTooManyLinks, Report, Codes
  <2>5. Rejects
    <3>1. "load_file_unreadable" \in Codes \ Warnings
      BY DEF Codes, Warnings
    <3>2. QED
      BY <1>5, <2>1, <2>2, <2>3, <3>1, TargetFacts DEF Rejects, LoadTooManyLinks
  <2>6. QED
    BY <1>1, <1>2, <1>5, <2>1, <2>3, <2>4, <2>5, AtTop DEF Typed, LoadTooManyLinks
<1>6. CASE LoadKnown
  <2>1. Pending /\ Resolved /\ stack' = Advanced
    BY <1>6 DEF LoadKnown, Resolved
  <2>2. Target \in Loaded
    BY <1>6, <2>1, TargetFacts DEF LoadKnown, Known, Loaded
  <2>3. Loaded' = Loaded /\ loadedBy' \in [Paths -> Seq(Places)]
    BY <1>6, <2>1, <2>2, RecordFacts DEF LoadKnown, RecordSource, Loaded
  <2>4. Skip
    BY <1>3, <2>1, <2>2, <2>3, TargetFacts
  <2>5. diagnostics' \in Seq([code : Codes, at : Places])
    BY <1>1, <1>6, ReportFacts DEF LoadKnown, Report, Warning, Codes, Warnings
  <2>6. Repeats
    BY <1>6, <2>1, <2>2, <2>4 DEF Repeats, LoadKnown
  <2>7. QED
    BY <1>1, <1>2, <1>6, <2>1, <2>3, <2>4, <2>5, <2>6, AtTop DEF Typed, LoadKnown
<1>7. ASSUME Resolved, ~Known, RecordSource, files' = Append(files, Target)
      PROVE  /\ Target \in Paths \ Loaded
             /\ Loaded' = Loaded \cup {Target}
             /\ loadedBy' \in [Paths -> Seq(Places)]
             /\ files' \in Seq(Paths)
  <2>1. Target \in Paths
    BY <1>7, TargetFacts DEF Resolved
  <2>2. QED
    BY <1>7, <2>1, RecordFacts DEF RecordSource, Loaded, Known, Typed
<1>8. CASE LoadLua
  <2>1. Resolved /\ stack' = Advanced /\ Target.file \in Lua /\ UNCHANGED diagnostics
    BY <1>8 DEF LoadLua
  <2>2. Enter
    BY <1>1, <1>7, <1>8, <2>1, AtTop DEF Enter, Passed, LoadLua
  <2>3. Enters
    BY <1>8, <2>2 DEF Enters, LoadLua
  <2>4. QED
    BY <1>1, <1>2, <1>7, <1>8, <2>1, <2>2, <2>3, AtTop DEF Typed, LoadLua
<1>9. CASE LoadXml
  <2> DEFINE new == [in |-> Target, at |-> 1]
  <2>1. Resolved /\ stack' = Append(Advanced, new) /\ UNCHANGED diagnostics /\ Target.file \in Xml
    BY <1>9 DEF LoadXml
  <2>2. Target \in Paths \ Loaded
    BY <1>7, <1>9 DEF LoadXml
  <2>3. new \in Frames
    BY <2>1, <2>2 DEF Frames, Places, Nodes, Readers
  <2>4. /\ stack' \in Seq(Frames) /\ Len(stack') = Len(stack) + 1
        /\ stack'[Len(stack) + 1] = new
        /\ \A k \in DOMAIN stack : stack'[k] = Advanced[k]
        /\ DOMAIN stack \subseteq DOMAIN stack'
    <3> HIDE DEF new
    <3>1. Advanced \in Seq(Frames) /\ Len(Advanced) = Len(stack) /\ stack \in Seq(Frames)
      BY <1>1, AtTop DEF Typed
    <3>2. QED
      BY <2>1, <2>3, <3>1
  <2>5. Passed
    <3> HIDE DEF new
    <3>1. /\ stack \in Seq(Frames) /\ Len(stack) \in Nat \ {0} /\ stack # <<>>
          /\ DOMAIN stack = 1 .. Len(stack)
      BY <1>1, AtTop DEF Typed
    <3>2. \A k \in DOMAIN stack : Advanced[k].in = stack[k].in
      BY <1>1, AtTop
    <3>3. \A k \in DOMAIN stack \ {Len(stack)} : Advanced[k].at = stack[k].at
      BY <1>1, AtTop
    <3>4. Advanced[Len(stack)].at = stack[Len(stack)].at + 1
      BY <1>1, AtTop
    <3>5. stack' # <<>>
      BY <2>4, <3>1
    <3>6. QED
      BY <2>4, <3>1, <3>2, <3>3, <3>4, <3>5 DEF Passed
  <2>6. Enter
    BY <1>7, <1>9, <2>1, <2>2, <2>4, <2>5 DEF Enter, LoadXml
  <2>7. Enters
    BY <1>9, <2>6 DEF Enters, LoadXml
  <2>8. QED
    BY <1>2, <1>7, <1>9, <2>1, <2>4, <2>6, <2>7 DEF Typed, LoadXml
<1>10. CASE EndFile
  <2>1. Leave
    BY <1>10 DEF EndFile, Leave, Loaded
  <2>2. stack' \in Seq(Frames)
    BY <1>1, <1>10, AtTop DEF EndFile, Typed
  <2>3. diagnostics' \in Seq([code : Codes, at : Places])
    BY <1>1, <1>10, ReportFacts DEF EndFile, Report, Typed, Codes
  <2>4. Ends
    <3>1. {"load_file_unreadable", "xml_parse_failed"} \subseteq Codes \ Warnings
      BY DEF Codes, Warnings
    <3>2. QED
      BY <1>10, <2>1, <3>1 DEF Ends, EndFile
  <2>5. QED
    BY <1>2, <1>10, <2>1, <2>2, <2>3, <2>4 DEF Typed, EndFile
<1>11. QED
  BY <1>4, <1>5, <1>6, <1>8, <1>9, <1>10 DEF Loading

(* A new closure starts with the TOC file, if it can be read.               *)
LEMMA BuildFacts ==
  ASSUME Typed, NEW t \in Tocs, BuildClosure(t)
  PROVE  /\ Typed' /\ UNCHANGED disk /\ toc' = t /\ toc' # NoToc
         /\ Loaded' = {}
         /\ stack' = IF t \in disk.there THEN <<[in |-> Root', at |-> 1]>> ELSE <<>>
         /\ files' = <<>>
         /\ IF t \in disk.there THEN diagnostics' = <<>> ELSE 1 \in DOMAIN diagnostics'
         /\ \A n \in DOMAIN diagnostics' : diagnostics'[n].code \notin Warnings
<1> DEFINE top     == [in |-> [file |-> t, links |-> 0], at |-> 1]
           missing == Diagnostic("load_file_missing",
                                 [in |-> [file |-> t, links |-> 0], at |-> 0])
<1>1. /\ UNCHANGED disk /\ toc' = t /\ files' = <<>>
      /\ loadedBy' = [p \in Paths |-> <<>>]
      /\ stack' = IF t \in disk.there THEN <<top>> ELSE <<>>
      /\ diagnostics' = IF t \in disk.there THEN <<>> ELSE <<missing>>
  BY DEF BuildClosure
<1>2. top \in Frames
  BY DEF Frames, Places, Nodes, Readers
<1>3. missing \in [code : Codes, at : Places] /\ missing.code \notin Warnings
  BY DEF Diagnostic, Codes, Places, Nodes, Warnings
<1>4. Loaded' = {}
  BY <1>1 DEF Loaded
<1>5. Root' = [file |-> t, links |-> 0]
  BY <1>1 DEF Root
<1>6. t \in disk.there => stack' = <<[in |-> Root', at |-> 1]>>
  BY <1>1, <1>5
<1>7. t # NoToc
  BY NoTocAssumption
<1> HIDE DEF top, missing
<1>8. stack' \in Seq(Frames) /\ diagnostics' \in Seq([code : Codes, at : Places])
  <2> DEFINE Reports == [code : Codes, at : Places]
  <2>1. missing \in Reports
    BY <1>3
  <2> HIDE DEF Reports
  <2>2. <<top>> \in Seq(Frames) /\ <<>> \in Seq(Frames)
    BY <1>2
  <2>3. <<missing>> \in Seq(Reports) /\ <<>> \in Seq(Reports)
    BY <2>1
  <2>4. stack' \in Seq(Frames) /\ diagnostics' \in Seq(Reports)
    BY <1>1, <2>2, <2>3
  <2>5. QED
    BY <2>4 DEF Reports
<1>9. Typed'
  BY <1>1, <1>8 DEF Typed
<1>10. \A n \in DOMAIN diagnostics' : diagnostics'[n].code \notin Warnings
  <2>1. CASE t \in disk.there
    BY <1>1, <2>1
  <2>2. CASE t \notin disk.there
    <3>1. diagnostics' = <<missing>>
      BY <1>1, <2>2
    <3>2. \A n \in DOMAIN diagnostics' : diagnostics'[n] = missing
      BY <3>1
    <3>3. QED
      BY <3>2, <1>3
  <2>3. QED
    BY <2>1, <2>2
<1>11. t \notin disk.there => 1 \in DOMAIN diagnostics'
  BY <1>1
<1>12. QED
  BY <1>1, <1>4, <1>6, <1>7, <1>9, <1>10, <1>11

(***************************************************************************)
(* ClosureExact: what a file that was read names is loaded, or its         *)
(* reference is still to be read.                                          *)
(***************************************************************************)
ToBeRead(p, i) == \E k \in DOMAIN stack : stack[k].in = p /\ i >= stack[k].at

Covered ==
  toc # NoToc /\ toc \in disk.there =>
    \A p \in Loaded \cup {Root} : \A i \in Positions(p) : \A q \in Paths :
      LeadsTo(p, i, q) => q \in Loaded \/ ToBeRead(p, i)

LEMMA RootedStep ==
  ASSUME Typed, Rooted, [Next]_closureVars
  PROVE  Rooted'
<1>1. ASSUME NEW t \in Tocs, BuildClosure(t)
      PROVE  Rooted'
  BY <1>1, BuildFacts DEF Rooted
<1>2. CASE Loading
  <2>1. UNCHANGED <<disk, toc>> /\ Root' = Root /\ Typed'
    BY <1>2, StepKinds DEF Root
  <2>2. CASE Skip
    <3>1. DOMAIN stack' = DOMAIN stack /\ \A k \in DOMAIN stack : stack'[k].in = stack[k].in
      BY <2>1, <2>2 DEF Skip, Passed, Typed
    <3>2. QED
      BY <2>1, <2>2, <3>1 DEF Rooted, Skip, Pending
  <2>3. CASE Enter
    <3>1. ASSUME NEW k \in DOMAIN stack'
          PROVE  k \in DOMAIN stack \/ stack'[k].in = Target
      BY <2>1, <2>3 DEF Enter, Typed
    <3>2. Target # Root
      <4>1. toc \in Tocs
        BY <2>3 DEF Enter, Typed, Rooted, Resolved, Pending
      <4>2. Target.file \in Loadable
        BY <2>3 DEF Enter, Paths
      <4>3. QED
        BY <4>1, <4>2, ClosureDistinct DEF Root
    <3>3. QED
      BY <2>1, <2>3, <3>1, <3>2 DEF Rooted, Enter, Passed, Resolved, Pending
  <2>4. CASE Leave
    <3>1. \A k \in DOMAIN stack' : k \in DOMAIN stack /\ stack'[k] = stack[k]
      BY <2>4 DEF Leave, Typed
    <3>2. QED
      BY <2>1, <2>4, <3>1 DEF Rooted, Leave
  <2>5. QED
    BY <1>2, <2>2, <2>3, <2>4, StepKinds
<1>3. CASE UNCHANGED closureVars
  BY <1>3 DEF closureVars, Rooted, Root, Loaded
<1>4. QED
  BY <1>1, <1>2, <1>3 DEF Next

(* Where the references of a file lead does not change while it is read.    *)
LEMMA SameDisk ==
  ASSUME UNCHANGED disk, NEW p
  PROVE  /\ Says(p)' = Says(p)
         /\ Positions(p)' = Positions(p)
         /\ \A i, q : LeadsTo(p, i, q)' = LeadsTo(p, i, q)
         /\ \A S : ClosedFor(S, p)' = ClosedFor(S, p)
BY DEF Says, Positions, LeadsTo, ClosedFor

LEMMA NothingExtraStep ==
  ASSUME Typed, Rooted, NothingExtra, [Next]_closureVars
  PROVE  NothingExtra'
<1>1. ASSUME NEW t \in Tocs, BuildClosure(t)
      PROVE  NothingExtra'
  BY <1>1, BuildFacts DEF NothingExtra
<1>2. ASSUME UNCHANGED <<disk, toc>>, Typed', Loaded' = Loaded
      PROVE  NothingExtra'
  BY <1>2, SameDisk DEF NothingExtra, Closed, Root
<1>3. CASE Loading /\ Enter
  <2>1. UNCHANGED <<disk, toc>>
    BY <1>3, StepKinds
  <2>2. SUFFICES ASSUME toc # NoToc, NEW S \in SUBSET Paths, Closed(S)
                 PROVE  Target \in S
    <3>1. \A S : Closed(S)' <=> Closed(S)
      BY <2>1, SameDisk DEF Closed, Root
    <3>2. Loaded' = Loaded \cup {Target} /\ toc' = toc
      BY <1>3, <2>1 DEF Enter
    <3>3. QED
      BY <3>1, <3>2 DEF NothingExtra
  <2>3. Pending /\ Resolved /\ Target \in Paths
    BY <1>3 DEF Enter, Resolved
  <2>4. Top.in \in S \cup {Root}
    BY <2>2, <2>3, AtTop DEF Rooted, NothingExtra, Top, Pending
  <2>5. Top.at \in Positions(Top.in) /\ LeadsTo(Top.in, Top.at, Target)
    BY <2>3, TargetFacts
  <2>6. QED
    BY <2>2, <2>3, <2>4, <2>5 DEF Closed, ClosedFor
<1>4. CASE Loading /\ ~Enter
  BY <1>2, <1>4, StepKinds DEF Skip, Leave
<1>5. CASE UNCHANGED closureVars
  BY <1>5, SameDisk DEF closureVars, NothingExtra, Closed, Root, Loaded
<1>6. QED
  BY <1>1, <1>3, <1>4, <1>5 DEF Next

LEMMA CoveredStep ==
  ASSUME Typed, Rooted, Covered, [Next]_closureVars
  PROVE  Covered'
<1>1. ASSUME NEW t \in Tocs, BuildClosure(t)
      PROVE  Covered'
  <2>1. SUFFICES ASSUME t \in disk.there,
                        NEW i \in Positions(Root)', NEW q \in Paths
                 PROVE  ToBeRead(Root, i)'
    BY <1>1, BuildFacts DEF Covered
  <2>2. stack' = <<[in |-> Root', at |-> 1]>>
    BY <1>1, <2>1, BuildFacts
  <2>3. i \in Nat \ {0}
    <3>1. disk' \in Disks
      BY <1>1, BuildFacts DEF Typed
    <3>2. i \in DOMAIN Says(Root)' /\ (Root.file \in Readers)'
      BY <2>1 DEF Positions
    <3>3. Says(Root)' \in Seq(References)
      BY <3>1, <3>2, ClosureAssumption DEF Says
    <3>4. QED
      BY <3>2, <3>3
  <2>4. 1 \in DOMAIN stack' /\ stack'[1].in = Root' /\ i >= stack'[1].at
    BY <2>2, <2>3
  <2>5. QED
    BY <2>4 DEF ToBeRead
<1>2. CASE Loading
  <2>1. UNCHANGED <<disk, toc>> /\ Root' = Root /\ Typed' /\ stack # <<>>
    BY <1>2, StepKinds DEF Root, Skip, Enter, Leave, Pending, Resolved
  <2>2. Top.at \in Nat /\ Len(stack) \in DOMAIN stack /\ stack[Len(stack)] = Top
    BY <2>1, AtTop DEF Frames, Places, Top
  <2>3. SUFFICES ASSUME toc # NoToc, toc \in disk.there,
                        NEW p \in (Loaded \cup {Root})', NEW i \in Positions(p),
                        NEW q \in Paths, LeadsTo(p, i, q), q \notin Loaded'
                 PROVE  ToBeRead(p, i)'
    BY <2>1, SameDisk DEF Covered
  <2>4. ASSUME p \in Loaded \cup {Root}, ~Leave
        PROVE  ToBeRead(p, i)'
    <3>1. PICK k \in DOMAIN stack : stack[k].in = p /\ i >= stack[k].at
      BY <1>2, <2>1, <2>3, <2>4, StepKinds DEF Covered, ToBeRead, Skip, Enter
    <3>2. Passed /\ Pending
      BY <1>2, <2>4, StepKinds DEF Skip, Enter, Resolved
    <3>3. k \in DOMAIN stack' /\ stack'[k].in = p
      BY <3>1, <3>2 DEF Passed
    <3>4. CASE k # Len(stack)
      BY <3>1, <3>2, <3>3, <3>4 DEF Passed, ToBeRead
    <3>5. CASE k = Len(stack)
      <4>1. ~LeadsTo(Top.in, Top.at, q)
        <5>1. CASE Skip
          BY <2>3, <5>1 DEF Skip
        <5>2. CASE Enter
          BY <2>3, <3>2, <5>2, TargetFacts DEF Enter
        <5>3. QED
          BY <1>2, <2>4, <5>1, <5>2, StepKinds
      <4>2. i # Top.at /\ i >= Top.at
        BY <2>2, <2>3, <3>1, <3>5, <4>1
      <4>3. i \in Nat
        <5>1. p = Top.in /\ Says(Top.in) \in Seq(References)
          BY <2>1, <2>2, <3>1, <3>5, AtTop
        <5>2. i \in DOMAIN Says(p)
          BY <2>3 DEF Positions
        <5>3. QED
          BY <5>1, <5>2
      <4>4. stack'[k].at = Top.at + 1
        BY <2>2, <3>2, <3>5 DEF Passed
      <4>5. QED
        BY <2>2, <3>3, <4>2, <4>3, <4>4 DEF ToBeRead
    <3>6. QED
      BY <3>4, <3>5
  <2>5. CASE Enter /\ p \notin Loaded \cup {Root}
    <3>1. p = Target /\ Target.file \notin Lua
      BY <2>1, <2>3, <2>5, ClosureDistinct DEF Enter, Positions, Readers, Loadable
    <3>2. Len(stack) + 1 \in DOMAIN stack' /\ stack'[Len(stack) + 1] = [in |-> Target, at |-> 1]
      BY <2>1, <2>5, <3>1 DEF Enter, Typed
    <3>3. i \in Nat \ {0}
      <4>1. Says(p) \in Seq(References)
        BY <2>3, ClosureAssumption DEF Positions, Says, Typed
      <4>2. QED
        BY <2>3, <4>1 DEF Positions
    <3>4. QED
      BY <3>1, <3>2, <3>3 DEF ToBeRead
  <2>6. CASE Leave
    <3>1. p \in Loaded \cup {Root} /\ q \notin Loaded
      BY <2>1, <2>3, <2>6 DEF Leave
    <3>2. PICK k \in DOMAIN stack : stack[k].in = p /\ i >= stack[k].at
      BY <2>3, <3>1 DEF Covered, ToBeRead
    <3>3. k # Len(stack)
      <4>1. SUFFICES ASSUME k = Len(stack)
                     PROVE  FALSE
        OBVIOUS
      <4>2. p = Top.in /\ Says(Top.in) \in Seq(References) /\ i >= Top.at
        BY <2>1, <2>2, <3>2, <4>1, AtTop
      <4>3. i \in DOMAIN Says(Top.in)
        BY <2>3, <4>2 DEF Positions
      <4>4. QED
        BY <2>2, <2>6, <4>2, <4>3 DEF Leave
    <3>4. k \in DOMAIN stack' /\ stack'[k] = stack[k]
      BY <2>1, <2>6, <3>2, <3>3 DEF Leave, Typed
    <3>5. QED
      BY <3>2, <3>4 DEF ToBeRead
  <2>7. QED
    BY <1>2, <2>1, <2>3, <2>4, <2>5, <2>6, StepKinds DEF Skip
<1>3. CASE UNCHANGED closureVars
  BY <1>3, SameDisk DEF closureVars, Covered, ToBeRead, Root, Loaded
<1>4. QED
  BY <1>1, <1>2, <1>3 DEF Next

(***************************************************************************)
(* What the steps append.                                                  *)
(***************************************************************************)
LEMMA Appended ==
  ASSUME NEW S, NEW s \in Seq(S), NEW e \in S
  PROVE  /\ Len(s) + 1 \notin DOMAIN s
         /\ DOMAIN Append(s, e) = DOMAIN s \cup {Len(s) + 1}
         /\ \A n \in DOMAIN s : Append(s, e)[n] = s[n]
         /\ Append(s, e)[Len(s) + 1] = e
         /\ Len(Append(s, e)) = Len(s) + 1 /\ Len(s) \in Nat
OBVIOUS

(* A new diagnostic has a place of its own.                                 *)
LEMMA ReportGives ==
  ASSUME Typed, NEW code \in Codes, NEW o \in Places, Report(code, o)
  PROVE  /\ Len(diagnostics) + 1 \notin DOMAIN diagnostics
         /\ DOMAIN diagnostics' = DOMAIN diagnostics \cup {Len(diagnostics) + 1}
         /\ \A n \in DOMAIN diagnostics : diagnostics'[n] = diagnostics[n]
         /\ diagnostics'[Len(diagnostics) + 1].code = code
         /\ diagnostics'[Len(diagnostics) + 1].at = o
<1> DEFINE d == Diagnostic(code, o)
           Reports == [code : Codes, at : Places]
<1>1. d \in Reports /\ d.code = code /\ d.at = o
  BY DEF Diagnostic
<1>2. diagnostics \in Seq(Reports) /\ diagnostics' = Append(diagnostics, d)
  BY DEF Typed, Report
<1> HIDE DEF d, Reports
<1>3. QED
  BY <1>1, <1>2, Appended

(* The first reference to a loaded file stays the first.                    *)
LEMMA RecordGives ==
  ASSUME Typed, Resolved, RecordSource
  PROVE  /\ Target \in Paths /\ Top \in Places
         /\ Len(loadedBy[Target]) + 1 \notin DOMAIN loadedBy[Target]
         /\ DOMAIN loadedBy'[Target] = DOMAIN loadedBy[Target] \cup {Len(loadedBy[Target]) + 1}
         /\ \A n \in DOMAIN loadedBy[Target] : loadedBy'[Target][n] = loadedBy[Target][n]
         /\ loadedBy'[Target][Len(loadedBy[Target]) + 1] = Top
         /\ \A p \in Paths \ {Target} : loadedBy'[p] = loadedBy[p]
         /\ \A o : Recorded(o)' = Recorded(o) \cup IF o = Top THEN {Target} ELSE {}
<1>1. Pending /\ stack # <<>>
  BY DEF Resolved, Pending
<1>2. Target \in Paths /\ Top \in Places
  BY <1>1, TargetFacts, AtTop DEF Frames
<1>3. loadedBy[Target] \in Seq(Places)
  BY <1>2 DEF Typed
<1>4. /\ loadedBy'[Target] = Append(loadedBy[Target], Top)
      /\ \A p \in Paths \ {Target} : loadedBy'[p] = loadedBy[p]
  BY <1>2 DEF Typed, RecordSource
<1>5. /\ Len(loadedBy[Target]) + 1 \notin DOMAIN loadedBy[Target]
      /\ DOMAIN loadedBy'[Target] = DOMAIN loadedBy[Target] \cup {Len(loadedBy[Target]) + 1}
      /\ \A n \in DOMAIN loadedBy[Target] : loadedBy'[Target][n] = loadedBy[Target][n]
      /\ loadedBy'[Target][Len(loadedBy[Target]) + 1] = Top
  BY <1>2, <1>3, <1>4, Appended
<1>6. ASSUME NEW o
      PROVE  Recorded(o)' = Recorded(o) \cup IF o = Top THEN {Target} ELSE {}
  <2>1. \A p \in Paths : (\E n \in DOMAIN loadedBy'[p] : loadedBy'[p][n] = o)
                           <=> \/ p = Target /\ o = Top
                               \/ \E n \in DOMAIN loadedBy[p] : loadedBy[p][n] = o
    BY <1>2, <1>4, <1>5
  <2>2. QED
    BY <1>2, <2>1 DEF Recorded
<1>7. QED
  BY <1>2, <1>4, <1>5, <1>6

(* The files that are being read: each once, the TOC file at the bottom,    *)
(* and each named by the one below it, which is past that reference.        *)
Handed(k) ==
  LET o == [in |-> stack[k].in, at |-> stack[k].at - 1]
  IN  /\ loadedBy[stack[k + 1].in] # <<>>
      /\ loadedBy[stack[k + 1].in][1] = o
      /\ o.at \in Positions(o.in)
      /\ LeadsTo(o.in, o.at, stack[k + 1].in)

Nested ==
  /\ \A j, k \in DOMAIN stack : stack[j].in = stack[k].in => j = k
  /\ \A k \in DOMAIN stack : stack[k].in = Root <=> k = 1
  /\ \A k \in DOMAIN stack \ {Len(stack)} : Handed(k)

(* The TOC file is not one of the files that can be loaded.                 *)
LEMMA RootNotLoadable ==
  ASSUME Typed, toc # NoToc
  PROVE  Root \notin Paths /\ Root \in Nodes
BY ClosureDistinct DEF Typed, Root, Paths, Nodes

(* A loaded file stays loaded, and its first reference the first.           *)
LEMMA FirstKept ==
  ASSUME Typed, Loading, NEW p \in Loaded
  PROVE  /\ loadedBy'[p] # <<>> /\ loadedBy'[p][1] = loadedBy[p][1]
         /\ p \in Loaded'
<1>1. p \in Paths /\ loadedBy[p] \in Seq(Places) /\ loadedBy[p] # <<>>
  BY DEF Loaded, Typed
<1>2. CASE UNCHANGED loadedBy
  BY <1>1, <1>2 DEF Loaded
<1>3. CASE Resolved /\ RecordSource
  <2>1. Target \in Paths /\ Top \in Places
    BY <1>3, RecordGives
  <2>2. loadedBy'[p] = loadedBy[p] \/ loadedBy'[p] = Append(loadedBy[p], Top)
    BY <1>1, <1>3, <2>1 DEF Typed, RecordSource
  <2>3. loadedBy'[p] # <<>> /\ loadedBy'[p][1] = loadedBy[p][1]
    BY <1>1, <2>1, <2>2
  <2>4. QED
    BY <1>1, <2>3 DEF Loaded
<1>4. QED
  BY <1>2, <1>3, StepKinds DEF Rejects, Repeats, Enters, Enter, Ends

(* The stack after each kind of step.                                       *)
LEMMA StackFacts ==
  ASSUME Typed, Loading
  PROVE  /\ stack # <<>> /\ Len(stack) \in Nat \ {0} /\ DOMAIN stack = 1 .. Len(stack)
         /\ Len(stack) \in DOMAIN stack /\ stack[Len(stack)] = Top
         /\ Top = [in |-> Top.in, at |-> Top.at] /\ Top.at \in Nat
         /\ DOMAIN stack' = 1 .. Len(stack') /\ Len(stack') \in Nat
         /\ Leave => /\ Len(stack') = Len(stack) - 1
                     /\ \A k \in DOMAIN stack' : stack'[k] = stack[k]
         /\ UNCHANGED <<disk, toc>> /\ Root' = Root
<1>1. stack # <<>> /\ Typed' /\ UNCHANGED <<disk, toc>>
  BY StepKinds DEF Skip, Enter, Leave, Pending, Resolved
<1>2. Top \in Frames /\ Len(stack) \in Nat \ {0} /\ Len(stack) \in DOMAIN stack
  BY <1>1, AtTop
<1>3. Top = [in |-> Top.in, at |-> Top.at] /\ Top.at \in Nat
  BY <1>2 DEF Frames, Places
<1>4. DOMAIN stack = 1 .. Len(stack) /\ DOMAIN stack' = 1 .. Len(stack') /\ Len(stack') \in Nat
  BY <1>1 DEF Typed
<1>5. Leave => /\ Len(stack') = Len(stack) - 1
               /\ \A k \in DOMAIN stack' : stack'[k] = stack[k]
  <2>1. SUFFICES ASSUME Leave
                 PROVE  /\ Len(stack') = Len(stack) - 1
                        /\ \A k \in DOMAIN stack' : stack'[k] = stack[k]
    OBVIOUS
  <2>2. stack \in Seq(Frames) /\ stack' = SubSeq(stack, 1, Len(stack) - 1)
    BY <2>1 DEF Leave, Typed
  <2>3. 1 \in Int /\ Len(stack) - 1 \in Int /\ Len(stack) - 1 <= Len(stack) /\ Len(stack) - 1 >= 0
    BY <1>2
  <2>4. /\ stack' \in Seq(Frames) /\ Len(stack') = Len(stack) - 1
        /\ \A k \in 1 .. Len(stack) - 1 : stack'[k] = stack[k]
    <3>1. \A k \in 1 .. Len(stack) - 1 : stack[k] \in Frames
      BY <1>2, <2>2
    <3>2. 1 \in Int /\ Len(stack) - 1 \in Int
      BY <1>2
    <3> HIDE DEF Frames
    <3>3. /\ stack' \in Seq(Frames)
          /\ Len(stack') = IF 1 <= Len(stack) - 1 THEN Len(stack) - 1 - 1 + 1 ELSE 0
          /\ \A k \in 1 .. Len(stack) - 1 - 1 + 1 : stack'[k] = stack[1 + k - 1]
      BY <2>2, <3>1, <3>2, SubSeqProperties
    <3>4. Len(stack) - 1 - 1 + 1 = Len(stack) - 1 /\ \A k \in Int : 1 + k - 1 = k
      BY <1>2
    <3>5. Len(stack') = Len(stack) - 1
      <4>1. \A n \in Nat \ {0} : (IF 1 <= n - 1 THEN n - 1 - 1 + 1 ELSE 0) = n - 1
        OBVIOUS
      <4>2. QED
        BY <1>2, <3>3, <4>1
    <3>6. ASSUME NEW k \in 1 .. Len(stack) - 1
          PROVE  stack'[k] = stack[k]
      <4>1. k \in 1 .. Len(stack) - 1 - 1 + 1 /\ 1 + k - 1 = k
        BY <3>4
      <4>2. QED
        BY <3>3, <4>1
    <3>7. QED
      BY <3>3, <3>5, <3>6
  <2>5. QED
    BY <2>2, <2>4
<1>6. QED
  BY <1>1, <1>2, <1>3, <1>4, <1>5 DEF Top, Root

LEMMA NestedStep ==
  ASSUME Typed, Rooted, Nested, [Next]_closureVars
  PROVE  Nested'
<1>1. ASSUME NEW t \in Tocs, BuildClosure(t)
      PROVE  Nested'
  <2>1. stack' = <<>> \/ stack' = <<[in |-> Root', at |-> 1]>>
    BY <1>1, BuildFacts
  <2>2. CASE stack' = <<>>
    BY <2>2 DEF Nested
  <2>3. CASE stack' = <<[in |-> Root', at |-> 1]>>
    <3>1. DOMAIN stack' = {1} /\ Len(stack') = 1 /\ stack'[1].in = Root'
      BY <2>3
    <3>2. QED
      BY <3>1 DEF Nested
  <2>4. QED
    BY <2>1, <2>2, <2>3
<1>2. CASE Loading
  <2>0. /\ stack \in Seq(Frames) /\ stack' \in Seq(Frames)
        /\ stack # <<>> /\ Len(stack) \in DOMAIN stack
    BY <1>2, StackFacts, StepKinds DEF Typed
  <2>1. ASSUME NEW k \in DOMAIN stack \ {Len(stack)}, k \in DOMAIN stack', k + 1 \in DOMAIN stack',
               stack'[k] = stack[k], stack'[k + 1].in = stack[k + 1].in
        PROVE  Handed(k)'
    <3>1. Handed(k) /\ disk' = disk
      BY <1>2, <2>1, StackFacts DEF Nested
    <3>2. k + 1 \in DOMAIN stack /\ k + 1 # 1
      BY <2>1 DEF Typed
    <3>3. stack[k + 1].in \in Loaded
      BY <3>2 DEF Rooted, Nested
    <3>4. QED
      BY <1>2, <2>1, <3>1, <3>3, FirstKept, SameDisk DEF Handed
  <2>2. CASE Skip
    <3>1. DOMAIN stack' = DOMAIN stack /\ \A k \in DOMAIN stack : stack'[k].in = stack[k].in
      BY <1>2, <2>2, StackFacts DEF Skip, Passed
    <3>2. \A k \in DOMAIN stack \ {Len(stack)} : stack'[k] = stack[k]
      <4>1. SUFFICES ASSUME NEW k \in DOMAIN stack \ {Len(stack)}
                     PROVE  stack'[k] = stack[k]
        OBVIOUS
      <4>2. stack[k] \in Frames /\ stack'[k] \in Frames
        BY <1>2, <3>1, StepKinds DEF Typed
      <4>3. stack'[k].in = stack[k].in /\ stack'[k].at = stack[k].at
        BY <2>2 DEF Skip, Passed
      <4>4. QED
        BY <4>2, <4>3 DEF Frames, Places
    <3>3. \A k \in DOMAIN stack' \ {Len(stack')} : Handed(k)'
      BY <2>0, <2>1, <2>2, <3>1, <3>2 DEF Skip
    <3>4. QED
      BY <1>2, <3>1, <3>3, StackFacts DEF Nested
  <2>3. CASE Enter
    <3>1. DOMAIN stack \subseteq DOMAIN stack' /\ \A k \in DOMAIN stack : stack'[k].in = stack[k].in
      BY <1>2, <2>3, StackFacts DEF Enter, Passed
    <3>2. \A k \in DOMAIN stack \ {Len(stack)} : stack'[k] = stack[k]
      <4>1. SUFFICES ASSUME NEW k \in DOMAIN stack \ {Len(stack)}
                     PROVE  stack'[k] = stack[k]
        OBVIOUS
      <4>2. stack[k] \in Frames /\ stack'[k] \in Frames
        BY <1>2, <3>1, StepKinds DEF Typed
      <4>3. stack'[k].in = stack[k].in /\ stack'[k].at = stack[k].at
        BY <2>3 DEF Enter, Passed
      <4>4. QED
        BY <4>2, <4>3 DEF Frames, Places
    <3>3. \A k \in DOMAIN stack \ {Len(stack)} : Handed(k)'
      BY <2>0, <2>1, <3>1, <3>2
    <3>4. CASE Len(stack') = Len(stack)
      BY <1>2, <3>1, <3>3, <3>4, StackFacts DEF Nested
    <3>5. CASE /\ Len(stack') = Len(stack) + 1
               /\ stack'[Len(stack) + 1] = [in |-> Target, at |-> 1]
      <4>0. PICK n : n = Len(stack)
        OBVIOUS
      <4>1. DOMAIN stack' = DOMAIN stack \cup {Len(stack) + 1} /\ Len(stack) + 1 \notin DOMAIN stack
        BY <2>0, <3>5
      <4>2. Target \in Paths \ Loaded /\ Resolved
        BY <2>3 DEF Enter
      <4>3. Target # Root /\ \A k \in DOMAIN stack : stack[k].in # Target
        BY <1>2, <4>2, StackFacts, RootNotLoadable DEF Rooted
      <4>4. Handed(n)'
        <5>1. RecordSource
          BY <1>2, <2>3, StepKinds DEF Rejects, Repeats, Enters, Ends, Skip, Enter, Leave
        <5>2. loadedBy'[Target] = Append(loadedBy[Target], Top) /\ loadedBy[Target] = <<>>
          BY <4>2, <5>1 DEF RecordSource, Loaded, Typed
        <5>3. loadedBy'[Target] # <<>> /\ loadedBy'[Target][1] = Top
          BY <5>2
        <5>4. stack'[Len(stack)].in = Top.in /\ stack'[Len(stack)].at - 1 = Top.at
          <6>1. /\ stack'[Len(stack)].in = Top.in /\ stack'[Len(stack)].at = Top.at + 1
                /\ Top.at \in Nat
            BY <1>2, <2>0, <2>3, StackFacts DEF Enter, Passed
          <6>2. QED
            BY <6>1
        <5>5. Top.at \in Positions(Top.in) /\ LeadsTo(Top.in, Top.at, Target)
          BY <4>2, TargetFacts DEF Resolved
        <5>6. PICK p : p = Top.in
          OBVIOUS
        <5>7. PICK i, q : i = Top.at /\ q = Target
          OBVIOUS
        <5>8. (i \in Positions(p))' /\ LeadsTo(p, i, q)'
          BY <1>2, <5>5, <5>6, <5>7, StackFacts, SameDisk
        <5>9. /\ stack'[n].in = p /\ stack'[n].at - 1 = i
              /\ stack'[n + 1].in = q
              /\ Top = [in |-> p, at |-> i]
          BY <1>2, <3>5, <4>0, <5>4, <5>6, <5>7, StackFacts
        <5>10. QED
          BY <5>3, <5>6, <5>7, <5>8, <5>9 DEF Handed
      <4>5. QED
        BY <1>2, <2>0, <3>1, <3>3, <3>5, <4>0, <4>1, <4>3, <4>4, StackFacts DEF Nested
    <3>6. QED
      BY <2>3, <3>4, <3>5 DEF Enter
  <2>4. CASE Leave
    <3>1. \A k \in DOMAIN stack' : k \in DOMAIN stack /\ stack'[k] = stack[k]
      BY <1>2, <2>4, StackFacts
    <3>2. \A k \in DOMAIN stack' \ {Len(stack')} : Handed(k)'
      BY <1>2, <2>1, <2>4, <3>1, StackFacts
    <3>3. QED
      BY <1>2, <3>1, <3>2, StackFacts DEF Nested
  <2>5. QED
    BY <1>2, <2>2, <2>3, <2>4, StepKinds
<1>3. CASE UNCHANGED closureVars
  <2>1. \A k : Handed(k)' = Handed(k)
    BY <1>3, SameDisk DEF closureVars, Handed
  <2>2. QED
    BY <1>3, <2>1 DEF closureVars, Nested, Root
<1>4. QED
  BY <1>1, <1>2, <1>3 DEF Next

(***************************************************************************)
(* EveryReferenceAnswered: a reference has no answer as long as it is to   *)
(* be read, and one from then on.                                          *)
(***************************************************************************)
OnStack(p) == \E k \in DOMAIN stack : stack[k].in = p
(* The files that were read so far or are being read; references in them    *)
(* that were read, and the ends of torn files.                              *)
Visited == Loaded \cup {Root}
Past(o) == o.in \in Visited /\ o.at \in Positions(o.in) /\ ~ToBeRead(o.in, o.at)
End(o)  == /\ o.in \in Visited /\ o.in.file \in disk.torn \cap Readers
           /\ o.at = Len(Says(o.in)) + 1
           /\ ~OnStack(o.in)

(* What a reference is recorded to lead to is where it leads; an error      *)
(* stands at a reference that leads nowhere, or at the end of a torn file;  *)
(* every reference that was read has an answer.                             *)
RecordsRight == \A o : \A q \in Recorded(o) : Past(o) /\ LeadsTo(o.in, o.at, q)
ErrorsRight  == \A o : Reported(o) # {} =>
                  (Past(o) /\ \A q \in Paths : ~LeadsTo(o.in, o.at, q)) \/ End(o)
ErrorsOnce   == \A o : \A m, n \in Reported(o) : m = n
AllAnswered  == \A p \in Visited : \A i \in Positions(p) :
                  \/ ToBeRead(p, i)
                  \/ Recorded([in |-> p, at |-> i]) # {}
                  \/ Reported([in |-> p, at |-> i]) # {}
EndsReported == \A p \in Visited : p.file \in disk.torn \cap Readers =>
                  OnStack(p) \/ Reported([in |-> p, at |-> Len(Says(p)) + 1]) # {}

Answers == toc # NoToc /\ toc \in disk.there =>
             RecordsRight /\ ErrorsRight /\ ErrorsOnce /\ AllAnswered /\ EndsReported

(* How the answers to a reference change.                                   *)
LEMMA ReportedGrows ==
  ASSUME Typed, NEW code \in Codes, NEW o \in Places, Report(code, o)
  PROVE  \A r : Reported(r)' = Reported(r) \cup
           IF r = o /\ code \notin Warnings THEN {Len(diagnostics) + 1} ELSE {}
BY ReportGives DEF Reported

(* The reference at the top is answered, and no other.                      *)
LEMMA AnswersChange ==
  ASSUME Typed, Loading
  PROVE  /\ Rejects =>
              /\ \A o : Recorded(o)' = Recorded(o)
              /\ \A o : Reported(o)' = Reported(o) \cup
                          IF o = Top THEN {Len(diagnostics) + 1} ELSE {}
         /\ Repeats \/ Enters =>
              /\ \A o : Recorded(o)' = Recorded(o) \cup IF o = Top THEN {Target} ELSE {}
              /\ \A o : Reported(o)' = Reported(o)
         /\ Ends =>
              /\ \A o : Recorded(o)' = Recorded(o)
              /\ \A o : Reported(o)' = Reported(o) \cup
                          IF o = Top /\ Top.in.file \in disk.torn
                          THEN {Len(diagnostics) + 1} ELSE {}
<1>1. Top \in Places /\ stack # <<>>
  BY StackFacts, AtTop DEF Frames
<1>2. UNCHANGED loadedBy => \A o : Recorded(o)' = Recorded(o)
  BY DEF Recorded
<1>3. UNCHANGED diagnostics => \A o : Reported(o)' = Reported(o)
  BY DEF Reported
<1>5. ASSUME Repeats
      PROVE  \A o : Reported(o)' = Reported(o)
  <2>1. Warning \in Codes /\ Warning \in Warnings
    BY DEF Warning, Warnings, Codes
  <2>2. QED
    BY <1>1, <1>5, <2>1, ReportedGrows DEF Repeats
<1>6. Repeats \/ Enters =>
        \A o : Recorded(o)' = Recorded(o) \cup IF o = Top THEN {Target} ELSE {}
  BY RecordGives DEF Repeats, Enters, Enter
<1>8. QED
  <2>1. Rejects => /\ \A o : Recorded(o)' = Recorded(o)
              /\ \A o : Reported(o)' = Reported(o) \cup
                          IF o = Top THEN {Len(diagnostics) + 1} ELSE {}
    BY <1>1, <1>2, ReportedGrows DEF Rejects
  <2>2. Ends =>
              /\ \A o : Recorded(o)' = Recorded(o)
              /\ \A o : Reported(o)' = Reported(o) \cup
                          IF o = Top /\ Top.in.file \in disk.torn
                          THEN {Len(diagnostics) + 1} ELSE {}
    BY <1>1, <1>2, <1>3, ReportedGrows DEF Ends
  <2>3. QED
    BY <2>1, <2>2, <1>3, <1>5, <1>6 DEF Enters

(* What is still to be read after a step.                                   *)
LEMMA ReadingGoesOn ==
  ASSUME Typed, Rooted, Nested, Loading
  PROVE  /\ toc # NoToc /\ toc \in disk.there
         /\ Top.in \in Visited /\ ToBeRead(Top.in, Top.at) /\ OnStack(Top.in)
         /\ ~Leave => \A p \in Visited : \A i \in Nat :
              /\ ToBeRead(p, i)' <=> ToBeRead(p, i) /\ [in |-> p, at |-> i] # Top
              /\ OnStack(p)' <=> OnStack(p)
         /\ Leave => \A p \in Visited :
              /\ \A i \in Positions(p) : ToBeRead(p, i)' <=> ToBeRead(p, i)
              /\ OnStack(p)' <=> OnStack(p) /\ p # Top.in
<1>1. /\ stack \in Seq(Frames) /\ stack' \in Seq(Frames) /\ stack # <<>>
      /\ Len(stack) \in Nat \ {0} /\ Len(stack) \in DOMAIN stack
      /\ stack[Len(stack)] = Top
      /\ Top.at \in Nat /\ Top = [in |-> Top.in, at |-> Top.at]
  BY StackFacts, StepKinds DEF Typed
<1>2. toc # NoToc /\ toc \in disk.there
  <2>1. 1 \in DOMAIN stack
    BY <1>1
  <2>2. QED
    BY <1>1, <2>1 DEF Rooted, Nested
<1>3. Top.in \in Visited /\ ToBeRead(Top.in, Top.at) /\ OnStack(Top.in)
  BY <1>1 DEF Rooted, ToBeRead, OnStack, Visited
<1>4. \A p, k : k \in DOMAIN stack /\ stack[k].in = p => OnStack(p)
  BY DEF OnStack
<1>5. ASSUME ~Leave, NEW p \in Visited, NEW i \in Nat
      PROVE  /\ ToBeRead(p, i)' <=> ToBeRead(p, i) /\ [in |-> p, at |-> i] # Top
             /\ OnStack(p)' <=> OnStack(p)
  <2>1. Passed /\ \A k \in DOMAIN stack' \ DOMAIN stack : stack'[k].in = Target /\ Enter
    <3>1. CASE Skip
      BY <1>1, <3>1 DEF Skip
    <3>2. CASE Enter
      BY <1>1, <3>2 DEF Enter
    <3>3. QED
      BY <1>5, <3>1, <3>2, StepKinds
  <2>2. Enter => Target # p
    BY <1>2, RootNotLoadable DEF Enter, Visited
  <2>3. \A k \in DOMAIN stack : k \in DOMAIN stack' /\ stack'[k].in = stack[k].in
    BY <2>1 DEF Passed
  <2>4. \A k \in DOMAIN stack' : stack'[k].in = p => k \in DOMAIN stack
    BY <2>1, <2>2
  <2>5. \A k \in DOMAIN stack : stack[k].at \in Nat
    BY <1>1 DEF Frames, Places
  <2>6. \A k \in DOMAIN stack : stack[k].in = Top.in => k = Len(stack)
    BY <1>1 DEF Nested
  <2>7. \A k \in DOMAIN stack \ {Len(stack)} : stack'[k].at = stack[k].at
    BY <2>1 DEF Passed
  <2>8. stack'[Len(stack)].at = Top.at + 1
    BY <1>1, <2>1 DEF Passed
  <2>9. ASSUME NEW k \in DOMAIN stack, stack[k].in = p
        PROVE  i >= stack'[k].at <=> i >= stack[k].at /\ [in |-> p, at |-> i] # Top
    <3>1. CASE k = Len(stack)
      <4>1. p = Top.in /\ stack'[k].at = Top.at + 1 /\ stack[k].at = Top.at
        BY <1>1, <2>8, <2>9, <3>1
      <4>2. [in |-> p, at |-> i] # Top <=> i # Top.at
        BY <1>1, <4>1
      <4>3. QED
        BY <1>1, <4>1, <4>2
    <3>2. CASE k # Len(stack)
      BY <2>6, <2>7, <2>9, <3>2
    <3>3. QED
      BY <3>1, <3>2
  <2>10. ToBeRead(p, i)' <=> ToBeRead(p, i) /\ [in |-> p, at |-> i] # Top
    BY <2>3, <2>4, <2>9 DEF ToBeRead
  <2>11. OnStack(p)' <=> OnStack(p)
    BY <2>3, <2>4 DEF OnStack
  <2>12. QED
    BY <2>10, <2>11
<1>6. ASSUME Leave, NEW p \in Visited
      PROVE  /\ \A i \in Positions(p) : ToBeRead(p, i)' <=> ToBeRead(p, i)
             /\ OnStack(p)' <=> OnStack(p) /\ p # Top.in
  <2>1. /\ Len(stack') = Len(stack) - 1
        /\ \A k \in DOMAIN stack' : stack'[k] = stack[k]
    BY <1>6, StackFacts
  <2>2. DOMAIN stack = DOMAIN stack' \cup {Len(stack)} /\ Len(stack) \notin DOMAIN stack'
    BY <1>1, <2>1
  <2>3. \A k \in DOMAIN stack : stack[k].in = Top.in => k = Len(stack)
    BY <1>1 DEF Nested
  <2>4. OnStack(p)' <=> OnStack(p) /\ p # Top.in
    BY <1>1, <2>1, <2>2, <2>3 DEF OnStack
  <2>5. ASSUME NEW i \in Positions(p), p = Top.in
        PROVE  ~(i >= Top.at)
    <3>1. Says(Top.in) \in Seq(References) /\ i \in DOMAIN Says(Top.in)
      BY <1>1, <2>5, AtTop DEF Positions
    <3>2. QED
      BY <1>1, <1>6, <3>1 DEF Leave
  <2>6. \A i \in Positions(p) : ToBeRead(p, i)' <=> ToBeRead(p, i)
    BY <1>1, <2>1, <2>2, <2>5 DEF ToBeRead
  <2>7. QED
    BY <2>4, <2>6
<1>7. QED
  BY <1>2, <1>3, <1>5, <1>6

(* Of a new file everything is still to be read.                            *)
LEMMA EnteredIsRead ==
  ASSUME Typed, Loading, Enter, NEW p, p = Target
  PROVE  /\ \A i \in Positions(p) : ToBeRead(p, i)'
         /\ p.file \in Readers => OnStack(p)'
<1>1. SUFFICES ASSUME p.file \in Readers
               PROVE  (\A i \in Positions(p) : ToBeRead(p, i)') /\ OnStack(p)'
  BY DEF Positions
<1>2. Target.file \notin Lua
  BY <1>1, ClosureDistinct DEF Enter, Paths, Readers, Loadable
<1>3. PICK k : k = Len(stack) + 1
  OBVIOUS
<1>4. k \in DOMAIN stack' /\ stack'[k] = [in |-> p, at |-> 1]
  <2>1. stack \in Seq(Frames) /\ stack' \in Seq(Frames)
    BY StepKinds DEF Typed
  <2>2. QED
    BY <1>2, <1>3, <2>1 DEF Enter
<1>5. ASSUME NEW i \in Positions(p)
      PROVE  i >= 1
  <2>1. Says(p) \in Seq(References)
    BY <1>1, ClosureAssumption DEF Says, Typed
  <2>2. QED
    BY <1>5, <2>1 DEF Positions
<1>6. QED
  BY <1>4, <1>5 DEF ToBeRead, OnStack

(* No position on the stack is beyond the end of its file.                  *)
Within == \A k \in DOMAIN stack : stack[k].at <= Len(Says(stack[k].in)) + 1

LEMMA WithinStep ==
  ASSUME Typed, Within, [Next]_closureVars
  PROVE  Within'
<1>1. ASSUME NEW t \in Tocs, BuildClosure(t)
      PROVE  Within'
  <2>1. Typed' /\ (stack' = <<>> \/ stack' = <<[in |-> Root', at |-> 1]>>)
    BY <1>1, BuildFacts
  <2>2. CASE stack' = <<>>
    BY <2>2 DEF Within
  <2>3. CASE stack' = <<[in |-> Root', at |-> 1]>>
    <3>1. Len(Says(Root)') \in Nat
      <4>1. toc' \in Tocs /\ disk' \in Disks
        BY <1>1, <2>1, BuildFacts DEF Typed
      <4>2. QED
        BY <4>1, ClosureAssumption DEF Says, Root, Readers
    <3>2. DOMAIN stack' = {1} /\ stack'[1].in = Root' /\ stack'[1].at = 1
      BY <2>3
    <3>3. Len(Says(Root)') + 1 >= 1 /\ (stack[1].in)' = Root'
      BY <3>1, <3>2
    <3>4. Says(stack[1].in)' = Says(Root)'
      BY <3>2 DEF Says
    <3>5. QED
      BY <3>1, <3>2, <3>3, <3>4 DEF Within
  <2>4. QED
    BY <2>1, <2>2, <2>3
<1>2. CASE Loading
  <2>1. /\ stack \in Seq(Frames) /\ stack' \in Seq(Frames) /\ UNCHANGED disk
        /\ Len(stack) \in DOMAIN stack /\ stack[Len(stack)] = Top
        /\ Top.at \in Nat
    BY <1>2, StackFacts, StepKinds DEF Typed
  <2>2. \A p : Says(p)' = Says(p)
    BY <2>1, SameDisk
  <2>3. SUFFICES ASSUME NEW k \in DOMAIN stack'
                 PROVE  stack'[k].at <= Len(Says(stack'[k].in)) + 1
    BY <2>1 DEF Within, Says
  <2>4. CASE Leave
    BY <1>2, <2>3, <2>4, StackFacts DEF Within
  <2>5. CASE k \in DOMAIN stack /\ ~Leave
    <3>1. Passed /\ Pending
      BY <1>2, <2>5, StepKinds DEF Skip, Enter, Resolved
    <3>2. CASE k = Len(stack)
      <4>1. Says(Top.in) \in Seq(References) /\ Top.at <= Len(Says(Top.in))
        BY <2>1, <3>1, AtTop DEF Pending
      <4>2. stack'[k].in = Top.in /\ stack'[k].at = Top.at + 1
        BY <2>1, <2>5, <3>1, <3>2 DEF Passed
      <4>3. QED
        BY <2>1, <4>1, <4>2
    <3>3. CASE k # Len(stack)
      BY <2>5, <3>1, <3>3 DEF Passed, Within
    <3>4. QED
      BY <3>2, <3>3
  <2>6. CASE k \notin DOMAIN stack /\ ~Leave
    <3>1. Enter /\ stack'[k] = [in |-> Target, at |-> 1] /\ Target.file \notin Lua
      <4>1. CASE Skip
        BY <2>1, <2>3, <2>6, <4>1 DEF Skip
      <4>2. CASE Enter
        <5>1. Len(stack') = Len(stack) + 1 /\ stack'[Len(stack) + 1] = [in |-> Target, at |-> 1]
          BY <2>1, <2>3, <2>6, <4>2 DEF Enter
        <5>2. k = Len(stack) + 1
          BY <2>1, <2>3, <2>6, <5>1
        <5>3. Target.file \in Readers
          <6>1. [in |-> Target, at |-> 1] \in Frames
            BY <2>1, <2>3, <5>1, <5>2
          <6>2. QED
            BY <6>1 DEF Frames
        <5>4. QED
          BY <4>2, <5>1, <5>2, <5>3, ClosureDistinct DEF Readers, Loadable
      <4>3. QED
        BY <1>2, <2>6, <4>1, <4>2, StepKinds
    <3>2. Target.file \in Readers
      BY <3>1, ClosureDistinct DEF Enter, Paths, Loadable, Readers
    <3>3. Len(Says(Target)) \in Nat
      BY <3>2, ClosureAssumption DEF Typed, Says
    <3>4. QED
      BY <3>1, <3>3
  <2>7. QED
    BY <2>4, <2>5, <2>6
<1>3. CASE UNCHANGED closureVars
  BY <1>3, SameDisk DEF closureVars, Within, Says
<1>4. QED
  BY <1>1, <1>2, <1>3 DEF Next

(* What was answered stays answered.                                        *)
LEMMA PositionsAreNumbers ==
  ASSUME Typed, NEW p
  PROVE  Positions(p) \subseteq Nat \ {0}
<1>1. CASE p.file \in Readers
  <2>1. Says(p) \in Seq(References)
    BY <1>1, ClosureAssumption DEF Typed, Says
  <2>2. QED
    BY <2>1 DEF Positions
<1>2. QED
  BY <1>1 DEF Positions

(* What was read stays read.                                                *)
LEMMA PastStays ==
  ASSUME Typed, Rooted, Nested, Loading, NEW o
  PROVE  /\ Visited' = Visited \cup IF Enter THEN {Target} ELSE {}
         /\ Past(o) => Past(o)'
         /\ End(o) => End(o)'
         /\ ~Leave /\ o = Top => Past(o)'
<1>1. Visited' = Visited \cup IF Enter THEN {Target} ELSE {}
  BY StepKinds, StackFacts DEF Visited, Skip, Enter, Leave
<1>2. /\ Positions(o.in)' = Positions(o.in) /\ Says(o.in)' = Says(o.in)
      /\ UNCHANGED disk
  BY StackFacts, SameDisk
<1>3. Past(o) => Past(o)'
  BY <1>1, <1>2, ReadingGoesOn, PositionsAreNumbers DEF Past
<1>4. End(o) => End(o)'
  BY <1>1, <1>2, ReadingGoesOn DEF End
<1>5. ASSUME ~Leave, o = Top
      PROVE  Past(o)'
  <2>1. o.in \in Visited /\ o = [in |-> o.in, at |-> o.at] /\ o.at \in Nat
    BY <1>5, ReadingGoesOn, StackFacts
  <2>2. Pending
    BY <1>5, StepKinds DEF Skip, Enter, Resolved
  <2>3. o.at \in Positions(o.in)
    BY <1>5, <2>2, TargetFacts
  <2>4. ~ToBeRead(o.in, o.at)'
    BY <1>5, <2>1, ReadingGoesOn
  <2>5. QED
    BY <1>1, <1>2, <2>1, <2>3, <2>4 DEF Past
<1>6. QED
  BY <1>1, <1>3, <1>4, <1>5

LEMMA AnswersStep ==
  ASSUME Typed, Rooted, Nested, Within, Answers, [Next]_closureVars
  PROVE  Answers'
<1>1. ASSUME NEW t \in Tocs, BuildClosure(t)
      PROVE  Answers'
  <2>1. SUFFICES ASSUME t \in disk.there
                 PROVE  (RecordsRight /\ ErrorsRight /\ ErrorsOnce /\ AllAnswered /\ EndsReported)'
    BY <1>1, BuildFacts DEF Answers
  <2>2. /\ Typed' /\ Visited' = {Root'} /\ stack' = <<[in |-> Root', at |-> 1]>>
        /\ diagnostics' = <<>>
    BY <1>1, <2>1, BuildFacts DEF Visited
  <2>3. \A o : Recorded(o)' = {}
    <3>1. \A p \in Paths : loadedBy'[p] = <<>>
      BY <1>1 DEF BuildClosure
    <3>2. QED
      BY <3>1 DEF Recorded
  <2>4. \A o : Reported(o)' = {}
    BY <2>2 DEF Reported
  <2>5. PICK r : r = Root'
    OBVIOUS
  <2>6. 1 \in DOMAIN stack' /\ stack'[1].in = r /\ stack'[1].at = 1
    BY <2>2, <2>5
  <2>7. (Positions(r) \subseteq Nat \ {0})'
    <3>1. disk' \in Disks /\ r.file \in Readers
      BY <1>1, <2>2, <2>5, BuildFacts DEF Typed, Root, Readers
    <3>2. disk'.says[r.file] \in Seq(References)
      BY <3>1, ClosureAssumption
    <3>3. QED
      BY <3>1, <3>2 DEF Positions, Says
  <2>8. (\A i \in Positions(r) : ToBeRead(r, i))' /\ OnStack(r)'
    BY <2>6, <2>7 DEF ToBeRead, OnStack
  <2>9. QED
    BY <2>2, <2>3, <2>4, <2>5, <2>8
       DEF RecordsRight, ErrorsRight, ErrorsOnce, AllAnswered, EndsReported
<1>2. CASE Loading
  <2>1. SUFFICES ASSUME RecordsRight, ErrorsRight, ErrorsOnce, AllAnswered, EndsReported
                 PROVE  (RecordsRight /\ ErrorsRight /\ ErrorsOnce /\ AllAnswered /\ EndsReported)'
    BY <1>2, StackFacts, ReadingGoesOn DEF Answers
  <2>2. /\ Top = [in |-> Top.in, at |-> Top.at] /\ UNCHANGED disk
        /\ Top.in \in Visited /\ ToBeRead(Top.in, Top.at) /\ OnStack(Top.in)
    BY <1>2, StackFacts, ReadingGoesOn
  <2>3. /\ ~Past(Top) /\ ~End(Top)
        /\ Reported(Top) = {}
    BY <2>1, <2>2 DEF Past, End, ErrorsRight
  <2>4. \A p : Says(p)' = Says(p) /\ Positions(p)' = Positions(p)
    BY <2>2, SameDisk
  <2>5. \A p, i, q : LeadsTo(p, i, q)' = LeadsTo(p, i, q)
    BY <2>2, SameDisk
  <2>6. Leave => Ends
    BY <1>2, StepKinds DEF Rejects, Repeats, Enters, Skip, Enter, Leave, Resolved, Pending
  <2>7. ~Leave => Rejects \/ Repeats \/ Enters
    BY <1>2, StepKinds DEF Ends
  <2>8. RecordsRight'
    <3>1. SUFFICES ASSUME NEW o, NEW q \in Recorded(o)'
                   PROVE  Past(o)' /\ LeadsTo(o.in, o.at, q)
      BY <2>5 DEF RecordsRight
    <3>2. CASE q \in Recorded(o)
      BY <1>2, <2>1, <3>2, PastStays DEF RecordsRight
    <3>3. CASE q \notin Recorded(o)
      <4>1. o = Top /\ q = Target /\ (Repeats \/ Enters)
        BY <1>2, <3>1, <3>3, AnswersChange, StepKinds
      <4>2. Resolved /\ ~Leave
        BY <4>1 DEF Repeats, Enters, Enter, Leave, Resolved, Pending, Skip
      <4>3. QED
        BY <1>2, <4>1, <4>2, PastStays, TargetFacts DEF Resolved
    <3>4. QED
      BY <3>2, <3>3
  <2>9. ErrorsRight'
    <3>1. SUFFICES ASSUME NEW o, Reported(o)' # {}
                   PROVE  \/ Past(o)' /\ \A q \in Paths : ~LeadsTo(o.in, o.at, q)
                          \/ End(o)'
      BY <2>5 DEF ErrorsRight
    <3>2. CASE Reported(o) # {}
      BY <1>2, <2>1, <3>2, PastStays DEF ErrorsRight
    <3>3. CASE Reported(o) = {} /\ Rejects
      <4>1. o = Top /\ ~Leave /\ \A q \in Paths : ~LeadsTo(Top.in, Top.at, q)
        BY <1>2, <3>1, <3>3, AnswersChange DEF Rejects, Skip, Leave, Pending
      <4>2. QED
        BY <1>2, <4>1, PastStays
    <3>4. CASE Reported(o) = {} /\ Ends
      <4>1. o = Top /\ Leave /\ Top.in.file \in disk.torn
        BY <1>2, <3>1, <3>4, AnswersChange DEF Ends
      <4>2. o.in.file \in Readers /\ o.at = Len(Says(o.in)) + 1
        <5>1. Top \in Frames /\ Says(Top.in) \in Seq(References)
          BY <1>2, StackFacts, AtTop
        <5>2. Top.at > Len(Says(Top.in)) /\ Top.at <= Len(Says(Top.in)) + 1
          BY <1>2, <4>1, StackFacts DEF Leave, Within
        <5>3. QED
          BY <4>1, <5>1, <5>2 DEF Frames, Places
      <4>3. o.in \in Visited' /\ ~OnStack(o.in)'
        BY <1>2, <2>2, <4>1, ReadingGoesOn, PastStays
      <4>4. QED
        BY <2>2, <2>4, <4>1, <4>2, <4>3 DEF End
    <3>5. QED
      BY <1>2, <3>1, <3>2, <3>3, <3>4, AnswersChange, StepKinds
  <2>10. ErrorsOnce'
    <3>1. \A o : Reported(o)' = Reported(o) \/ o = Top
      BY <1>2, AnswersChange, StepKinds
    <3>2. \A o : o = Top => Reported(o)' \subseteq {Len(diagnostics) + 1}
      BY <1>2, <2>3, AnswersChange, StepKinds
    <3>3. QED
      BY <2>1, <3>1, <3>2 DEF ErrorsOnce
  <2>11. AllAnswered'
    <3>1. SUFFICES ASSUME NEW p \in Visited', NEW i \in Positions(p), ~ToBeRead(p, i)'
                   PROVE  \/ Recorded([in |-> p, at |-> i])' # {}
                          \/ Reported([in |-> p, at |-> i])' # {}
      BY <2>4 DEF AllAnswered
    <3>2. p \in Visited
      <4>1. p \in Visited \/ (Enter /\ p = Target)
        BY <1>2, <3>1, PastStays
      <4>2. ~(Enter /\ p = Target)
        BY <1>2, <3>1, EnteredIsRead
      <4>3. QED
        BY <4>1, <4>2
    <3>3. CASE [in |-> p, at |-> i] = Top /\ ~Leave
      BY <1>2, <2>7, <3>3, AnswersChange
    <3>4. CASE ~([in |-> p, at |-> i] = Top /\ ~Leave)
      <4>1. i \in Nat
        BY PositionsAreNumbers
      <4>2. ~ToBeRead(p, i)
        BY <1>2, <3>1, <3>2, <3>4, <4>1, ReadingGoesOn
      <4>3. Recorded([in |-> p, at |-> i]) # {} \/ Reported([in |-> p, at |-> i]) # {}
        BY <2>1, <3>1, <3>2, <4>2 DEF AllAnswered
      <4>4. QED
        BY <1>2, <4>3, AnswersChange, StepKinds
    <3>5. QED
      BY <3>3, <3>4
  <2>12. EndsReported'
    <3>1. SUFFICES ASSUME NEW p \in Visited', p.file \in disk.torn \cap Readers, ~OnStack(p)'
                   PROVE  Reported([in |-> p, at |-> Len(Says(p)) + 1])' # {}
      BY <2>2, <2>4 DEF EndsReported
    <3>2. p \in Visited
      <4>1. p \in Visited \/ (Enter /\ p = Target)
        BY <1>2, <3>1, PastStays
      <4>2. ~(Enter /\ p = Target)
        BY <1>2, <3>1, EnteredIsRead
      <4>3. QED
        BY <4>1, <4>2
    <3>3. CASE OnStack(p)
      <4>1. p = Top.in /\ Leave /\ Ends
        BY <1>2, <2>6, <3>1, <3>2, <3>3, ReadingGoesOn
      <4>2. Top.at = Len(Says(Top.in)) + 1
        <5>1. Top \in Frames /\ Says(Top.in) \in Seq(References)
          BY <1>2, StackFacts, AtTop
        <5>2. Top.at > Len(Says(Top.in)) /\ Top.at <= Len(Says(Top.in)) + 1
          BY <1>2, <4>1, StackFacts DEF Leave, Within
        <5>3. QED
          BY <5>1, <5>2 DEF Frames, Places
      <4>3. [in |-> p, at |-> Len(Says(p)) + 1] = Top
        BY <2>2, <4>1, <4>2
      <4>4. PICK o : o = [in |-> p, at |-> Len(Says(p)) + 1]
        OBVIOUS
      <4>5. Reported(o)' # {}
        BY <1>2, <3>1, <4>1, <4>3, <4>4, AnswersChange
      <4>6. o = [in |-> p, at |-> Len(Says(p)') + 1]
        BY <2>4, <4>4
      <4>7. QED
        BY <4>5, <4>6 DEF Reported
    <3>4. CASE ~OnStack(p)
      <4>1. PICK o : o = [in |-> p, at |-> Len(Says(p)) + 1]
        OBVIOUS
      <4>2. Reported(o) # {}
        BY <2>1, <3>1, <3>2, <3>4, <4>1 DEF EndsReported
      <4>3. Reported(o)' # {}
        BY <1>2, <4>2, AnswersChange, StepKinds
      <4>4. o = [in |-> p, at |-> Len(Says(p)') + 1]
        BY <2>4, <4>1
      <4>5. QED
        BY <4>3, <4>4 DEF Reported
    <3>5. QED
      BY <3>3, <3>4
  <2>13. QED
    BY <2>8, <2>9, <2>10, <2>11, <2>12
<1>3. CASE UNCHANGED closureVars
  <2>1. UNCHANGED <<disk, toc, stack, loadedBy, diagnostics>>
    BY <1>3 DEF closureVars
  <2>2. \A o : Recorded(o)' = Recorded(o) /\ Reported(o)' = Reported(o)
    BY <2>1 DEF Recorded, Reported
  <2>3. Visited' = Visited
    BY <2>1 DEF Visited, Loaded, Root
  <2>4. \A p : Says(p)' = Says(p) /\ Positions(p)' = Positions(p)
    BY <2>1, SameDisk
  <2>5. \A p, i, q : LeadsTo(p, i, q)' = LeadsTo(p, i, q)
    BY <2>1, SameDisk
  <2>6. \A p, i : ToBeRead(p, i)' = ToBeRead(p, i) /\ OnStack(p)' = OnStack(p)
    BY <2>1 DEF ToBeRead, OnStack
  <2>7. \A o : Past(o)' = Past(o) /\ End(o)' = End(o)
    BY <2>1, <2>3, <2>4, <2>6 DEF Past, End
  <2>8. \A p : Reported([in |-> p, at |-> Len(Says(p)) + 1])'
                 = Reported([in |-> p, at |-> Len(Says(p)) + 1])
    BY <2>1, <2>4 DEF Reported
  <2>9. QED
    BY <2>1, <2>2, <2>3, <2>4, <2>5, <2>6, <2>7, <2>8
       DEF Answers, RecordsRight, ErrorsRight, ErrorsOnce, AllAnswered, EndsReported
<1>4. QED
  BY <1>1, <1>2, <1>3 DEF Next

(***************************************************************************)
(* CyclesFound: a reference that does not close a cycle leads to a file    *)
(* that was read before, or to the one that is being read because of it.   *)
(***************************************************************************)
(* The files that were read to their end.                                   *)
Done == {p \in Loaded : ~OnStack(p)}

(* A reference that was read and closes no cycle leads to such a file, or   *)
(* to the one above it on the stack.                                        *)
Inwards ==
  \A p \in Visited : \A i \in Positions(p) : \A q \in Paths :
    LeadsTo(p, i, q) /\ ~ToBeRead(p, i) /\ [in |-> p, at |-> i] \notin Closing =>
      \/ q \in Done
      \/ \E k \in DOMAIN stack \ {Len(stack)} :
           stack[k].in = p /\ stack[k].at = i + 1 /\ stack[k + 1].in = q

DoneAcyclic == \A S \in SUBSET Done : LeavesAcyclic(S)

ClosingRight == \A o \in Closing : ReachesItself(o)

(* What a file on the stack reaches contains the files above it.            *)
Downwards ==
  \A S \in SUBSET Paths :
    (\A p \in S : ClosedFor(S, p)) =>
      \A j, k \in DOMAIN stack : j <= k /\ stack[j].in \in S => stack[k].in \in S

Cycles == toc # NoToc /\ toc \in disk.there =>
            Inwards /\ DoneAcyclic /\ ClosingRight /\ Downwards

(* A TOC file that is not there ends the closure at once, with an error.    *)
Missing ==
  toc # NoToc /\ toc \notin disk.there =>
    /\ stack = <<>> /\ Loaded = {} /\ files = <<>>
    /\ \A n \in DOMAIN diagnostics : diagnostics[n].code \notin Warnings
    /\ 1 \in DOMAIN diagnostics

(* The references that are reported as closing a cycle.                     *)
LEMMA InClosing ==
  ASSUME NEW o
  PROVE  o \in Closing <=> \E n \in DOMAIN diagnostics :
           diagnostics[n].code = "circular_load_reference" /\ diagnostics[n].at = o
BY DEF Closing

(* A reference is added to them by the diagnostic for a cycle.              *)
LEMMA ClosingGrows ==
  ASSUME Typed, NEW code \in Codes, NEW o \in Places, Report(code, o)
  PROVE  Closing' = Closing \cup IF code = "circular_load_reference" THEN {o} ELSE {}
<1>1. ASSUME NEW r
      PROVE  r \in Closing' <=> r \in Closing \/ (code = "circular_load_reference" /\ r = o)
  <2>1. r \in Closing' <=> \E n \in DOMAIN diagnostics' :
          diagnostics'[n].code = "circular_load_reference" /\ diagnostics'[n].at = r
    BY DEF Closing
  <2>2. QED
    BY <2>1, InClosing, ReportGives
<1>2. QED
  BY <1>1

(* It is the one at the top, if it leads to a file that is being read.      *)
LEMMA ClosingChange ==
  ASSUME Typed, Loading
  PROVE  /\ Rejects \/ Enters \/ Ends => Closing' = Closing
         /\ Repeats => Closing' = Closing \cup IF OnStack(Target) THEN {Top} ELSE {}
<1>1. Top \in Places /\ stack # <<>>
  BY StackFacts, AtTop DEF Frames
<1>2. UNCHANGED diagnostics => Closing' = Closing
  BY DEF Closing
<1>3. "circular_load_reference" \in Warnings
  BY DEF Warnings
<1>4. Rejects \/ Enters \/ Ends => Closing' = Closing
  BY <1>1, <1>2, <1>3, ClosingGrows DEF Rejects, Enters, Ends
<1>5. ASSUME Repeats
      PROVE  Closing' = Closing \cup IF OnStack(Target) THEN {Top} ELSE {}
  <2>1. Warning \in Codes
    BY DEF Warning, Warnings, Codes
  <2>2. Warning = "circular_load_reference" <=> OnStack(Target)
    BY DEF Warning, Active, OnStack
  <2>3. QED
    BY <1>1, <1>5, <2>1, <2>2, ClosingGrows DEF Repeats
<1>6. QED
  BY <1>4, <1>5

(* Which files are done after a step.                                       *)
LEMMA DoneChange ==
  ASSUME Typed, Rooted, Nested, Loading
  PROVE  /\ Loaded \subseteq Visited
         /\ Skip => Done' = Done
         /\ Enter => Done' = Done \cup IF Target.file \in Lua THEN {Target} ELSE {}
         /\ Leave => Done' = Done \cup ({Top.in} \ {Root})
<1>1. Loaded \subseteq Visited
  BY DEF Visited
<1>2. ASSUME Skip
      PROVE  Done' = Done
  <2>1. Loaded' = Loaded /\ ~Leave
    BY <1>2 DEF Skip, Leave, Pending
  <2>2. \A p \in Loaded : OnStack(p)' <=> OnStack(p)
    BY <1>1, <2>1, ReadingGoesOn
  <2>3. QED
    BY <2>1, <2>2 DEF Done
<1>3. ASSUME Leave
      PROVE  Done' = Done \cup ({Top.in} \ {Root})
  <2>1. Loaded' = Loaded /\ (Top.in \in Loaded \/ Top.in = Root) /\ OnStack(Top.in)
    BY <1>3, ReadingGoesOn DEF Leave, Visited
  <2>2. Root \notin Loaded
    BY ReadingGoesOn, RootNotLoadable DEF Loaded
  <2>3. \A p \in Loaded : OnStack(p)' <=> OnStack(p) /\ p # Top.in
    BY <1>1, <1>3, ReadingGoesOn
  <2>4. Done = {p \in Loaded : ~OnStack(p)} /\ Done' = {p \in Loaded : ~OnStack(p)'}
    BY <2>1 DEF Done
  <2>5. ASSUME NEW p
        PROVE  p \in Done' <=> p \in Done \/ (p = Top.in /\ p # Root)
    BY <2>1, <2>2, <2>3, <2>4
  <2>6. QED
    BY <2>5
<1>4. ASSUME Enter
      PROVE  Done' = Done \cup IF Target.file \in Lua THEN {Target} ELSE {}
  <2>1. Loaded' = Loaded \cup {Target} /\ Target \in Paths \ Loaded /\ ~Leave
    BY <1>4 DEF Enter, Leave, Resolved, Pending
  <2>2. \A p \in Loaded : OnStack(p)' <=> OnStack(p)
    BY <1>1, <2>1, ReadingGoesOn
  <2>3. PICK p : p = Target
    OBVIOUS
  <2>4. Done' = {q \in Loaded \cup {p} : ~OnStack(q)'}
    BY <2>1, <2>3 DEF Done
  <2>5. CASE p.file \in Lua
    <3>1. p.file \notin Readers
      BY <2>5, ClosureDistinct DEF Readers, Loadable
    <3>2. \A k \in DOMAIN stack' : stack'[k].in.file \in Readers
      BY StepKinds DEF Typed, Frames
    <3>3. ~OnStack(p)'
      BY <3>1, <3>2 DEF OnStack
    <3>4. QED
      BY <2>1, <2>2, <2>3, <2>4, <2>5, <3>3 DEF Done
  <2>6. CASE p.file \notin Lua
    <3>1. p.file \in Readers
      BY <2>1, <2>3, <2>6 DEF Paths, Loadable, Readers
    <3>2. OnStack(p)'
      BY <1>4, <2>3, <3>1, EnteredIsRead
    <3>3. QED
      BY <2>1, <2>2, <2>3, <2>4, <2>6, <3>2 DEF Done
  <2>7. QED
    BY <2>5, <2>6
<1>5. QED
  BY <1>1, <1>2, <1>3, <1>4

LEMMA MissingStep ==
  ASSUME Typed, Rooted, Nested, Missing, [Next]_closureVars
  PROVE  Missing'
<1>1. ASSUME NEW t \in Tocs, BuildClosure(t)
      PROVE  Missing'
  BY <1>1, BuildFacts DEF Missing
<1>2. CASE Loading
  BY <1>2, ReadingGoesOn, StackFacts DEF Missing
<1>3. CASE UNCHANGED closureVars
  BY <1>3 DEF closureVars, Missing, Loaded
<1>4. QED
  BY <1>1, <1>2, <1>3 DEF Next

(* What a file that is done names is done, but for what closes a cycle.     *)
LEMMA DoneInwards ==
  ASSUME Inwards, NEW p \in Done, NEW i \in Positions(p), NEW q \in Paths,
         LeadsTo(p, i, q), [in |-> p, at |-> i] \notin Closing
  PROVE  q \in Done
BY DEF Inwards, Done, Visited, OnStack, ToBeRead

LEMMA InwardsStep ==
  ASSUME Typed, Rooted, Nested, Inwards, Loading
  PROVE  Inwards'
<1>1. /\ stack \in Seq(Frames) /\ stack' \in Seq(Frames) /\ stack # <<>>
      /\ Len(stack) \in Nat \ {0} /\ Len(stack) \in DOMAIN stack
      /\ stack[Len(stack)] = Top
      /\ Top.at \in Nat /\ Top = [in |-> Top.in, at |-> Top.at]
      /\ UNCHANGED disk
  BY StackFacts, StepKinds DEF Typed
<1>2. Closing \subseteq Closing'
  BY ClosingChange, StepKinds
<1>3. Done \subseteq Done'
  BY DoneChange, StepKinds
<1>4. SUFFICES ASSUME NEW p \in Visited', NEW i \in Positions(p), NEW q \in Paths,
                      LeadsTo(p, i, q), ~ToBeRead(p, i)', [in |-> p, at |-> i] \notin Closing'
               PROVE  \/ q \in Done'
                      \/ \E k \in DOMAIN stack' \ {Len(stack')} :
                           stack'[k].in = p /\ stack'[k].at = i + 1 /\ stack'[k + 1].in = q
  <2>1. \A x : Positions(x)' = Positions(x)
    BY <1>1, SameDisk
  <2>2. \A x, j, y : LeadsTo(x, j, y)' = LeadsTo(x, j, y)
    BY <1>1, SameDisk
  <2>3. QED
    BY <2>1, <2>2 DEF Inwards
<1>5. p \in Visited
  <2>1. p \in Visited \/ (Enter /\ p = Target)
    BY PastStays
  <2>2. ~(Enter /\ p = Target)
    BY <1>4, EnteredIsRead
  <2>3. QED
    BY <2>1, <2>2
<1>6. i \in Nat
  BY PositionsAreNumbers
<1>7. CASE ToBeRead(p, i)
  <2>1. [in |-> p, at |-> i] = Top /\ ~Leave
    BY <1>4, <1>5, <1>6, <1>7, ReadingGoesOn
  <2>2. p = Top.in /\ i = Top.at
    BY <1>1, <2>1
  <2>3. Pending
    BY <2>1, StepKinds DEF Skip, Enter, Resolved
  <2>4. Resolved /\ q = Target
    BY <1>4, <2>2, <2>3, TargetFacts
  <2>5. Repeats \/ Enters
    BY <1>4, <2>1, <2>2, StepKinds DEF Rejects, Ends
  <2>6. CASE Repeats
    <3>1. ~OnStack(Target) /\ Target \in Loaded
      BY <1>4, <2>1, <2>6, ClosingChange DEF Repeats
    <3>2. QED
      BY <1>3, <2>4, <3>1 DEF Done
  <2>7. CASE Enters /\ Target.file \in Lua
    BY <2>4, <2>7, DoneChange DEF Enters
  <2>8. CASE Enters /\ Target.file \notin Lua
    <3>1. /\ Len(stack') = Len(stack) + 1
          /\ stack'[Len(stack) + 1] = [in |-> Target, at |-> 1]
          /\ Passed
      BY <2>8, ClosureDistinct DEF Enters, Enter
    <3>2. Len(stack) \in DOMAIN stack' \ {Len(stack')}
      BY <1>1, <3>1
    <3>3. stack'[Len(stack)].in = p /\ stack'[Len(stack)].at = i + 1
      BY <1>1, <2>2, <3>1 DEF Passed
    <3>4. stack'[Len(stack) + 1].in = q
      BY <2>4, <3>1
    <3>5. QED
      BY <3>2, <3>3, <3>4
  <2>9. QED
    BY <2>5, <2>6, <2>7, <2>8
<1>8. CASE ~ToBeRead(p, i)
  <2>1. CASE q \in Done
    BY <1>3, <2>1
  <2>2. CASE q \notin Done
    <3>1. PICK k \in DOMAIN stack \ {Len(stack)} :
            stack[k].in = p /\ stack[k].at = i + 1 /\ stack[k + 1].in = q
      BY <1>2, <1>4, <1>5, <1>8, <2>2 DEF Inwards
    <3>2. k + 1 \in DOMAIN stack /\ k \in Nat
      BY <1>1
    <3>3. CASE ~Leave
      <4>1. Passed
        BY <3>3, StepKinds DEF Skip, Enter
      <4>2. k \in DOMAIN stack' /\ k + 1 \in DOMAIN stack' /\ k # Len(stack')
        BY <1>1, <3>2, <4>1 DEF Passed
      <4>3. QED
        BY <3>1, <3>2, <4>1, <4>2 DEF Passed
    <3>4. CASE Leave /\ k + 1 = Len(stack)
      <4>1. q = Top.in /\ q # Root
        BY <1>1, <3>1, <3>4, RootNotLoadable, ReadingGoesOn
      <4>2. QED
        BY <3>4, <4>1, DoneChange
    <3>5. CASE Leave /\ k + 1 # Len(stack)
      <4>1. Len(stack') = Len(stack) - 1 /\ \A j \in DOMAIN stack' : stack'[j] = stack[j]
        BY <3>5, StackFacts
      <4>2. k \in DOMAIN stack' \ {Len(stack')} /\ k + 1 \in DOMAIN stack'
        BY <1>1, <3>2, <3>5, <4>1
      <4>3. QED
        BY <3>1, <4>1, <4>2
    <3>6. QED
      BY <3>3, <3>4, <3>5
  <2>3. QED
    BY <2>1, <2>2
<1>9. QED
  BY <1>7, <1>8

(* One more file is done that nothing done leads to: it is the first of     *)
(* every set that it is in.                                                 *)
LEMMA OneMoreDone ==
  ASSUME Typed, UNCHANGED disk, Inwards, DoneAcyclic, Closing \subseteq Closing',
         NEW x \in Paths, x \notin Done, Done' \subseteq Done \cup {x},
         \A i \in Positions(x) : LeadsTo(x, i, x) => [in |-> x, at |-> i] \in Closing'
  PROVE  DoneAcyclic'
<1>1. SUFFICES ASSUME NEW S \in SUBSET Done', S # {}
               PROVE  \E p \in S : \A i \in Positions(p) : \A q \in S :
                        LeadsTo(p, i, q) => [in |-> p, at |-> i] \in Closing'
  <2>1. \A p : Positions(p)' = Positions(p)
    BY SameDisk
  <2>2. \A p, i, q : LeadsTo(p, i, q)' = LeadsTo(p, i, q)
    BY SameDisk
  <2>3. QED
    BY <2>1, <2>2 DEF DoneAcyclic, LeavesAcyclic
<1>2. CASE S \subseteq {x}
  BY <1>1, <1>2
<1>3. CASE ~(S \subseteq {x})
  <2>1. S \ {x} \in SUBSET Done /\ S \ {x} # {}
    BY <1>1, <1>3
  <2>2. PICK p \in S \ {x} : \A i \in Positions(p) : \A q \in S \ {x} :
          LeadsTo(p, i, q) => [in |-> p, at |-> i] \in Closing
    BY <2>1 DEF DoneAcyclic, LeavesAcyclic
  <2>3. \A i \in Positions(p) : LeadsTo(p, i, x) => [in |-> p, at |-> i] \in Closing
    BY <2>1, DoneInwards
  <2>4. QED
    BY <2>2, <2>3
<1>4. QED
  BY <1>2, <1>3

LEMMA DoneAcyclicStep ==
  ASSUME Typed, Rooted, Nested, Inwards, DoneAcyclic, Loading
  PROVE  DoneAcyclic'
<1>1. UNCHANGED disk /\ Closing \subseteq Closing'
  BY StackFacts, ClosingChange, StepKinds
<1>2. CASE Done' = Done
  <2>1. \A p : Positions(p)' = Positions(p)
    BY <1>1, SameDisk
  <2>2. \A p, i, q : LeadsTo(p, i, q)' = LeadsTo(p, i, q)
    BY <1>1, SameDisk
  <2>3. QED
    BY <1>1, <1>2, <2>1, <2>2 DEF DoneAcyclic, LeavesAcyclic
<1>3. CASE Enter /\ Target.file \in Lua
  <2>1. PICK x : x = Target
    OBVIOUS
  <2>2. x \in Paths /\ x \notin Done /\ Done' \subseteq Done \cup {x}
    BY <1>3, <2>1, DoneChange DEF Enter, Done
  <2>3. Positions(x) = {}
    BY <1>3, <2>1, ClosureDistinct DEF Positions, Readers, Loadable
  <2>4. QED
    BY <1>1, <2>2, <2>3, OneMoreDone
<1>4. CASE Leave /\ Top.in # Root
  <2>1. PICK x : x = Top.in
    OBVIOUS
  <2>2. x \in Visited /\ OnStack(x)
    BY <2>1, ReadingGoesOn
  <2>3. x \in Paths /\ x \notin Done /\ Done' \subseteq Done \cup {x}
    BY <1>4, <2>1, <2>2, DoneChange DEF Done, Visited, Loaded
  <2>4. ASSUME NEW i \in Positions(x), LeadsTo(x, i, x)
        PROVE  [in |-> x, at |-> i] \in Closing
    <3>1. SUFFICES ASSUME [in |-> x, at |-> i] \notin Closing
                   PROVE  FALSE
      OBVIOUS
    <3>2. ~ToBeRead(x, i)
      <4>1. Says(x) \in Seq(References) /\ i \in DOMAIN Says(x)
        BY <2>1, <2>4, StackFacts, AtTop DEF Positions
      <4>2. ~(i >= Top.at)
        BY <1>4, <2>1, <4>1, StackFacts DEF Leave
      <4>3. \A k \in DOMAIN stack : stack[k].in = x => k = Len(stack)
        BY <2>1, StackFacts DEF Nested
      <4>4. QED
        BY <2>1, <4>2, <4>3, StackFacts DEF ToBeRead
    <3>3. PICK k \in DOMAIN stack \ {Len(stack)} : stack[k].in = x
      BY <2>2, <2>3, <2>4, <3>1, <3>2 DEF Inwards
    <3>4. QED
      BY <2>1, <3>3, StackFacts DEF Nested
  <2>5. QED
    BY <1>1, <2>3, <2>4, OneMoreDone
<1>5. QED
  BY <1>2, <1>3, <1>4, DoneChange, StepKinds

LEMMA DownwardsStep ==
  ASSUME Typed, Downwards, Loading
  PROVE  Downwards'
<1>1. /\ stack \in Seq(Frames) /\ stack' \in Seq(Frames) /\ stack # <<>>
      /\ Len(stack) \in Nat \ {0} /\ Len(stack) \in DOMAIN stack
      /\ stack[Len(stack)] = Top /\ UNCHANGED disk
  BY StackFacts, StepKinds DEF Typed
<1>2. SUFFICES ASSUME NEW S \in SUBSET Paths, \A p \in S : ClosedFor(S, p),
                      NEW j \in DOMAIN stack', NEW k \in DOMAIN stack',
                      j <= k, stack'[j].in \in S
               PROVE  stack'[k].in \in S
  <2>1. \A Q, p : ClosedFor(Q, p)' = ClosedFor(Q, p)
    BY <1>1, SameDisk
  <2>2. QED
    BY <2>1 DEF Downwards
<1>3. CASE Leave
  <2>1. \A i \in DOMAIN stack' : i \in DOMAIN stack /\ stack'[i] = stack[i]
    BY <1>1, <1>3, StackFacts
  <2>2. QED
    BY <1>2, <2>1 DEF Downwards
<1>4. CASE ~Leave
  <2>1. Passed
    BY <1>4, StepKinds DEF Skip, Enter
  <2>2. CASE k \in DOMAIN stack
    <3>1. j \in DOMAIN stack
      BY <1>1, <1>2, <2>2
    <3>2. stack[j].in \in S /\ stack'[k].in = stack[k].in
      BY <1>2, <2>1, <2>2, <3>1 DEF Passed
    <3>3. QED
      BY <1>2, <2>2, <3>1, <3>2 DEF Downwards
  <2>3. CASE k \notin DOMAIN stack /\ j # k
    <3>1. /\ Enter /\ Len(stack') = Len(stack) + 1
          /\ stack'[Len(stack) + 1] = [in |-> Target, at |-> 1]
      BY <1>1, <1>4, <2>3, StepKinds DEF Skip, Enter
    <3>2. j \in DOMAIN stack /\ j <= Len(stack) /\ k = Len(stack) + 1
      BY <1>1, <1>2, <2>3, <3>1
    <3>3. stack[j].in \in S
      BY <1>2, <2>1, <3>2 DEF Passed
    <3>4. Top.in \in S
      BY <1>1, <1>2, <3>2, <3>3 DEF Downwards
    <3>5. Resolved /\ Pending /\ Target \in Paths
      BY <3>1 DEF Enter, Resolved
    <3>6. Top.at \in Positions(Top.in) /\ LeadsTo(Top.in, Top.at, Target)
      BY <3>5, TargetFacts
    <3>7. QED
      BY <1>2, <3>1, <3>2, <3>4, <3>5, <3>6 DEF ClosedFor
  <2>4. QED
    BY <1>2, <2>2, <2>3
<1>5. QED
  BY <1>3, <1>4

LEMMA ClosingRightStep ==
  ASSUME Typed, ClosingRight, Downwards, Loading
  PROVE  ClosingRight'
<1>1. UNCHANGED disk
  BY StackFacts
<1>2. \A o : ReachesItself(o)' = ReachesItself(o)
  <2>1. \A S, p : ClosedFor(S, p)' = ClosedFor(S, p)
    BY <1>1, SameDisk
  <2>2. \A p, i, q : LeadsTo(p, i, q)' = LeadsTo(p, i, q)
    BY <1>1, SameDisk
  <2>3. QED
    BY <2>1, <2>2 DEF ReachesItself
<1>3. ASSUME NEW o \in Closing', o \notin Closing
      PROVE  ReachesItself(o)
  <2>1. Repeats /\ OnStack(Target) /\ o = Top
    BY <1>3, ClosingChange, StepKinds
  <2>2. SUFFICES ASSUME NEW S \in SUBSET Paths, NEW q \in S, LeadsTo(o.in, o.at, q),
                        \A p \in S : ClosedFor(S, p)
                 PROVE  o.in \in S
    BY DEF ReachesItself
  <2>3. q = Target
    BY <2>1, <2>2, TargetFacts DEF Repeats, Resolved
  <2>4. PICK j \in DOMAIN stack : stack[j].in = Target
    BY <2>1 DEF OnStack
  <2>5. Len(stack) \in DOMAIN stack /\ j <= Len(stack) /\ stack[Len(stack)] = Top
    <3>1. stack \in Seq(Frames)
      BY DEF Typed
    <3>2. j <= Len(stack)
      BY <3>1
    <3>3. QED
      BY <3>2, StackFacts
  <2>6. QED
    BY <2>1, <2>2, <2>3, <2>4, <2>5 DEF Downwards
<1>4. QED
  BY <1>2, <1>3 DEF ClosingRight

LEMMA CyclesStep ==
  ASSUME Typed, Rooted, Nested, Cycles, [Next]_closureVars
  PROVE  Cycles'
<1>1. ASSUME NEW t \in Tocs, BuildClosure(t)
      PROVE  Cycles'
  <2>1. SUFFICES ASSUME t \in disk.there
                 PROVE  (Inwards /\ DoneAcyclic /\ ClosingRight /\ Downwards)'
    BY <1>1, BuildFacts DEF Cycles
  <2>2. /\ Typed' /\ Loaded' = {} /\ diagnostics' = <<>>
        /\ stack' = <<[in |-> Root', at |-> 1]>>
    BY <1>1, <2>1, BuildFacts
  <2>3. Closing' = {} /\ Done' = {} /\ Visited' = {Root'}
    BY <2>2 DEF Closing, Done, Visited
  <2>4. PICK r : r = Root'
    OBVIOUS
  <2>5. DOMAIN stack' = {1} /\ stack'[1].in = r /\ stack'[1].at = 1
    BY <2>2, <2>4
  <2>6. \A i \in Positions(r)' : ToBeRead(r, i)'
    <3>1. disk' \in Disks /\ r.file \in Readers
      BY <1>1, <2>2, <2>4, BuildFacts DEF Typed, Root, Readers
    <3>2. disk'.says[r.file] \in Seq(References)
      BY <3>1, ClosureAssumption
    <3>3. Positions(r)' \subseteq Nat \ {0}
      BY <3>1, <3>2 DEF Positions, Says
    <3>4. QED
      BY <2>5, <3>3 DEF ToBeRead
  <2>7. Inwards'
    BY <2>3, <2>4, <2>6 DEF Inwards
  <2>8. DoneAcyclic' /\ ClosingRight'
    BY <2>3 DEF DoneAcyclic, ClosingRight, LeavesAcyclic
  <2>9. Downwards'
    BY <2>5 DEF Downwards
  <2>10. QED
    BY <2>7, <2>8, <2>9
<1>2. CASE Loading
  BY <1>2, ReadingGoesOn, InwardsStep, DoneAcyclicStep, DownwardsStep, ClosingRightStep DEF Cycles
<1>3. CASE UNCHANGED closureVars
  <2>1. UNCHANGED <<disk, toc, stack, loadedBy, diagnostics>>
    BY <1>3 DEF closureVars
  <2>2. Visited' = Visited /\ Closing' = Closing /\ Done' = Done
    BY <2>1 DEF Visited, Loaded, Root, Closing, Done, OnStack
  <2>3. \A p : Positions(p)' = Positions(p)
    BY <2>1, SameDisk
  <2>4. \A p, i, q : LeadsTo(p, i, q)' = LeadsTo(p, i, q)
    BY <2>1, SameDisk
  <2>5. \A p, i : ToBeRead(p, i)' = ToBeRead(p, i)
    BY <2>1 DEF ToBeRead
  <2>6. \A S, p : ClosedFor(S, p)' = ClosedFor(S, p)
    BY <2>1, SameDisk
  <2>7. Inwards' = Inwards
    BY <2>1, <2>2, <2>3, <2>4, <2>5 DEF Inwards
  <2>8. DoneAcyclic' = DoneAcyclic
    BY <2>2, <2>3, <2>4 DEF DoneAcyclic, LeavesAcyclic
  <2>9. ClosingRight' = ClosingRight
    BY <2>2, <2>4, <2>6 DEF ClosingRight, ReachesItself
  <2>10. Downwards' = Downwards
    BY <2>1, <2>6 DEF Downwards
  <2>11. QED
    BY <2>1, <2>7, <2>8, <2>9, <2>10 DEF Cycles
<1>4. QED
  BY <1>1, <1>2, <1>3 DEF Next

(***************************************************************************)
(* The inductive invariant of the load closure.                            *)
(***************************************************************************)
ClosureInv ==
  /\ Typed /\ Rooted /\ Nested /\ Within
  /\ NothingExtra /\ Covered
  /\ Answers /\ Cycles /\ Missing

LEMMA ClosureInit == Init => ClosureInv
<1> SUFFICES ASSUME Init
             PROVE  ClosureInv
  OBVIOUS
<1>1. Typed
  BY DEF Init, Typed
<1>2. Loaded = {} /\ stack = <<>> /\ toc = NoToc
  BY DEF Init, Loaded
<1>3. Rooted /\ NothingExtra /\ Covered
  BY <1>2 DEF Rooted, NothingExtra, Covered
<1>4. QED
  BY <1>1, <1>2, <1>3 DEF ClosureInv, Nested, Within, Answers, Cycles, Missing

LEMMA TypedStep ==
  ASSUME Typed, [Next]_closureVars
  PROVE  Typed'
<1>1. CASE Loading
  BY <1>1, StepKinds
<1>2. ASSUME NEW t \in Tocs, BuildClosure(t)
      PROVE  Typed'
  BY <1>2, BuildFacts
<1>3. CASE UNCHANGED closureVars
  BY <1>3 DEF closureVars, Typed
<1>4. QED
  BY <1>1, <1>2, <1>3 DEF Next

LEMMA ClosureStep ==
  ASSUME ClosureInv, [Next]_closureVars
  PROVE  ClosureInv'
<1>1. Typed' /\ Rooted' /\ NothingExtra' /\ Covered'
  BY TypedStep, RootedStep, NothingExtraStep, CoveredStep DEF ClosureInv
<1>2. Nested' /\ Within' /\ Missing'
  BY NestedStep, WithinStep, MissingStep DEF ClosureInv
<1>3. Answers' /\ Cycles'
  BY AnswersStep, CyclesStep DEF ClosureInv
<1>4. QED
  BY <1>1, <1>2, <1>3 DEF ClosureInv

(* The inductive invariant holds in every load closure: for every AddOn     *)
(* directory, every depth of inclusion and every cycle (closure.go          *)
(* BuildClosure, load).                                                     *)
THEOREM ClosureInvariant == Spec => []ClosureInv
<1>1. Init => ClosureInv
  BY ClosureInit
<1>2. ClosureInv /\ [Next]_closureVars => ClosureInv'
  BY ClosureStep
<1>3. QED
  BY <1>1, <1>2, PTL DEF Spec

(* A set with a single element.                                             *)
LEMMA AtMostOne ==
  ASSUME NEW S, NEW e \in S, \A x \in S : x = e
  PROVE  Cardinality(S) = 1
<1>1. S = {e}
  OBVIOUS
<1>2. QED
  BY <1>1, FS_Singleton

(* In the end nothing is left to be read.                                   *)
LEMMA InvExact == ClosureInv => ClosureExact
<1> SUFFICES ASSUME ClosureInv, Finished, toc \in disk.there
             PROVE  Closed(Loaded)
  BY DEF ClosureExact, ClosureInv
<1>1. \A p, i : ~ToBeRead(p, i)
  BY DEF Finished, ToBeRead
<1>2. QED
  BY <1>1 DEF ClosureInv, Covered, Finished, Closed, ClosedFor

(* In the end every reference was read.                                     *)
LEMMA InvAnswers == ClosureInv => EveryReferenceAnswered
<1> SUFFICES ASSUME ClosureInv, Finished, toc \in disk.there, NEW p \in {Root} \cup Loaded
             PROVE
      /\ \A i \in Positions(p) :
           LET o == [in |-> p, at |-> i]
           IN  /\ Cardinality(Recorded(o)) + Cardinality(Reported(o)) = 1
               /\ \A q \in Recorded(o) : LeadsTo(p, i, q)
      /\ p.file \in disk.torn \cap Readers =>
           Reported([in |-> p, at |-> Len(Says(p)) + 1]) # {}
  BY DEF EveryReferenceAnswered
<1>1. /\ RecordsRight /\ ErrorsRight /\ ErrorsOnce /\ AllAnswered /\ EndsReported
      /\ Typed /\ p \in Visited
  BY DEF ClosureInv, Answers, Finished, Visited
<1>2. \A x, i : ~ToBeRead(x, i) /\ ~OnStack(x)
  BY DEF Finished, ToBeRead, OnStack
<1>3. p.file \in disk.torn \cap Readers => Reported([in |-> p, at |-> Len(Says(p)) + 1]) # {}
  BY <1>1, <1>2 DEF EndsReported
<1>4. ASSUME NEW i \in Positions(p), NEW o, o = [in |-> p, at |-> i]
      PROVE  /\ Cardinality(Recorded(o)) + Cardinality(Reported(o)) = 1
             /\ \A q \in Recorded(o) : LeadsTo(p, i, q)
  <2>1. \A q \in Recorded(o) : LeadsTo(p, i, q) /\ q \in Paths
    BY <1>1, <1>4 DEF RecordsRight, Recorded
  <2>2. \A q, r \in Recorded(o) : q = r
    BY <2>1 DEF LeadsTo
  <2>3. Recorded(o) # {} \/ Reported(o) # {}
    BY <1>1, <1>2, <1>4 DEF AllAnswered
  <2>4. ~End(o)
    <3>1. Positions(p) \subseteq 1 .. Len(Says(p)) /\ Len(Says(p)) \in Nat
      <4>1. Says(p) \in Seq(References)
        BY <1>1, <1>4, ClosureAssumption DEF Positions, Says, Typed
      <4>2. QED
        BY <4>1 DEF Positions
    <3>2. QED
      BY <1>4, <3>1 DEF End
  <2>5. Recorded(o) = {} \/ Reported(o) = {}
    BY <1>1, <1>4, <2>1, <2>4 DEF ErrorsRight
  <2>6. CASE Reported(o) = {}
    <3>1. Cardinality(Recorded(o)) = 1 /\ Cardinality(Reported(o)) = 0
      BY <2>2, <2>3, <2>6, AtMostOne, FS_EmptySet
    <3>2. QED
      BY <2>1, <3>1
  <2>7. CASE Recorded(o) = {}
    <3>1. \A m, n \in Reported(o) : m = n
      BY <1>1 DEF ErrorsOnce
    <3>2. Cardinality(Reported(o)) = 1 /\ Cardinality(Recorded(o)) = 0
      BY <2>3, <2>7, <3>1, AtMostOne, FS_EmptySet
    <3>3. QED
      BY <2>1, <3>2
  <2>8. QED
    BY <2>5, <2>6, <2>7
<1>5. QED
  BY <1>3, <1>4

(* In the end every file is done.                                           *)
LEMMA InvCycles == ClosureInv => CyclesFound
<1> SUFFICES ASSUME ClosureInv, Finished
             PROVE  /\ \A S \in SUBSET Loaded : LeavesAcyclic(S)
                    /\ \A o \in Closing : ReachesItself(o)
  BY DEF CyclesFound
<1>1. CASE toc \in disk.there
  <2>1. Done = Loaded
    BY DEF Done, OnStack, Finished
  <2>2. DoneAcyclic /\ ClosingRight
    BY <1>1 DEF ClosureInv, Cycles, Finished
  <2>3. QED
    BY <2>1, <2>2 DEF DoneAcyclic, ClosingRight
<1>2. CASE toc \notin disk.there
  <2>1. Loaded = {} /\ Closing = {}
    <3>1. Loaded = {} /\ \A n \in DOMAIN diagnostics : diagnostics[n].code \notin Warnings
      BY <1>2 DEF ClosureInv, Missing, Finished
    <3>2. "circular_load_reference" \in Warnings
      BY DEF Warnings
    <3>3. \A o : o \notin Closing
      BY <3>1, <3>2, InClosing
    <3>4. QED
      BY <3>1, <3>3
  <2>2. QED
    BY <2>1 DEF LeavesAcyclic
<1>3. QED
  BY <1>1, <1>2

(* Nothing is loaded that the TOC file does not lead to, and in the end     *)
(* everything is that it leads to: neither a cycle nor a duplicate nor a    *)
(* reference that leads nowhere loses a file or adds one (closure.go        *)
(* load).                                                                   *)
THEOREM ClosureIsExact == Spec => []ClosureExact
BY ClosureInvariant, InvExact, PTL

(* Every reference in a file that was read has exactly one answer, the      *)
(* file it leads to or an error with its position, and a file that could    *)
(* not be read to its end is reported (closure.go load, appendError).       *)
THEOREM ReferencesAreAnswered == Spec => []EveryReferenceAnswered
BY ClosureInvariant, InvAnswers, PTL

(* Without the references that are reported as circular nothing that was    *)
(* loaded is on a cycle, and each of these is on one (closure.go load,      *)
(* b.active).                                                               *)
THEOREM CyclesAreFound == Spec => []CyclesFound
BY ClosureInvariant, InvCycles, PTL

(***************************************************************************)
(* LoadOrder: the way to the reference at the top of the stack is beyond   *)
(* all others, and moves on with every step.                               *)
(***************************************************************************)
(* f gives the ways to the loaded files: each is the way to the first       *)
(* reference that leads there.                                              *)
WayBy(r, f, o) == IF o.in = r THEN <<o.at>> ELSE Append(f[o.in], o.at)
IsWay(f) == f = [p \in Loaded |-> WayBy(Root, f, loadedBy[p][1])]

(* LoadOrder for the ways f, and all ways before the one to the top of the  *)
(* stack.                                                                   *)
Ordered(f) ==
  /\ f \in [Loaded -> Seq(Nat)]
  /\ stack # <<>> => \A p \in Loaded : \A n \in DOMAIN loadedBy[p] :
       Before(WayBy(Root, f, loadedBy[p][n]), WayBy(Root, f, Top))
  /\ \A n \in DOMAIN files : files[n] \in Loaded
  /\ \A i, j \in DOMAIN files : i < j => Before(f[files[i]], f[files[j]])
  /\ \A p \in Loaded : \A n \in DOMAIN loadedBy[p] \ {1} :
       Before(WayBy(Root, f, loadedBy[p][n - 1]), WayBy(Root, f, loadedBy[p][n]))

(* There are such ways (Way is well-defined), and they are ordered.         *)
OrderInv == (\E f : IsWay(f)) /\ \A f : IsWay(f) => Ordered(f)

(* d is behind c and all that is behind c.                                  *)
Beyond(c, d) == \A x \in Seq(Nat) : Before(x, c) \/ x = c => Before(x, d)

(* s and t agree up to position k.                                          *)
Agree(s, t, k) == \A m \in Nat \ {0} : m <= k => m <= Len(s) /\ s[m] = t[m]

(* The order of ways, by the number of positions on which they agree.       *)
LEMMA BeforeMeans ==
  ASSUME NEW s, NEW t, Len(s) \in Nat, Len(t) \in Nat
  PROVE  Before(s, t) <=>
           \E k \in Nat : k < Len(t) /\ Agree(s, t, k) /\ (k >= Len(s) \/ s[k + 1] < t[k + 1])
<1>1. ASSUME NEW k \in Nat, k < Len(t), Agree(s, t, k), k >= Len(s) \/ s[k + 1] < t[k + 1]
      PROVE  Before(s, t)
  <2>1. PICK n : n = k + 1
    OBVIOUS
  <2>2. n \in 1 .. Len(t) /\ (n > Len(s) \/ s[n] < t[n])
    BY <1>1, <2>1
  <2>3. ASSUME NEW m \in 1 .. n - 1
        PROVE  m <= Len(s) /\ s[m] = t[m]
    <3>1. m \in Nat \ {0} /\ m <= k
      BY <2>1
    <3>2. QED
      BY <1>1, <3>1 DEF Agree
  <2>4. QED
    BY <2>2, <2>3 DEF Before
<1>2. ASSUME Before(s, t)
      PROVE  \E k \in Nat : k < Len(t) /\ Agree(s, t, k) /\ (k >= Len(s) \/ s[k + 1] < t[k + 1])
  <2>1. PICK n \in 1 .. Len(t) :
          (\A m \in 1 .. n - 1 : m <= Len(s) /\ s[m] = t[m]) /\ (n > Len(s) \/ s[n] < t[n])
    BY <1>2 DEF Before
  <2>2. PICK k \in Nat : n = k + 1
    <3>1. n - 1 \in Nat /\ n = (n - 1) + 1
      OBVIOUS
    <3>2. QED
      BY <3>1
  <2>3. k < Len(t) /\ (k >= Len(s) \/ s[k + 1] < t[k + 1])
    BY <2>1, <2>2
  <2>4. ASSUME NEW m \in Nat \ {0}, m <= k
        PROVE  m <= Len(s) /\ s[m] = t[m]
    <3>1. m \in 1 .. n - 1
      BY <2>2, <2>4
    <3>2. QED
      BY <2>1, <3>1
  <2>5. QED
    BY <2>3, <2>4 DEF Agree
<1>3. QED
  BY <1>1, <1>2

(* One position more.                                                       *)
LEMMA AppendGives ==
  ASSUME NEW s \in Seq(Nat), NEW a \in Nat
  PROVE  /\ Append(s, a) \in Seq(Nat) /\ Len(Append(s, a)) = Len(s) + 1 /\ Len(s) \in Nat
         /\ Append(s, a)[Len(s) + 1] = a
         /\ \A m \in Nat \ {0} : m <= Len(s) => Append(s, a)[m] = s[m]
OBVIOUS

(* The references in a file follow the one that leads to it.                *)
LEMMA DeeperBeyond ==
  ASSUME NEW c \in Seq(Nat), NEW a \in Nat
  PROVE  Beyond(c, Append(c, a))
<1>1. PICK d : d = Append(c, a)
  OBVIOUS
<1>2. /\ Len(d) = Len(c) + 1 /\ Len(c) \in Nat /\ Len(d) \in Nat
      /\ \A m \in Nat \ {0} : m <= Len(c) => d[m] = c[m]
  BY <1>1, AppendGives
<1>3. ASSUME NEW x \in Seq(Nat), Before(x, c) \/ x = c
      PROVE  Before(x, d)
  <2>0. Len(x) \in Nat
    OBVIOUS
  <2>1. \E k \in Nat : k <= Len(c) /\ Agree(x, c, k)
                       /\ (k >= Len(x) \/ (k < Len(c) /\ x[k + 1] < c[k + 1]))
    <3>1. CASE x = c
      <4>1. Len(c) \in Nat /\ Agree(x, c, Len(c)) /\ Len(c) >= Len(x)
        BY <1>2, <3>1 DEF Agree
      <4>2. QED
        BY <4>1
    <3>2. CASE Before(x, c)
      BY <1>2, <2>0, <3>2, BeforeMeans
    <3>3. QED
      BY <1>3, <3>1, <3>2
  <2>2. PICK k \in Nat : k <= Len(c) /\ Agree(x, c, k)
                         /\ (k >= Len(x) \/ (k < Len(c) /\ x[k + 1] < c[k + 1]))
    BY <2>1
  <2>3. Agree(x, d, k)
    BY <1>2, <2>2 DEF Agree
  <2>4. k < Len(d) /\ (k < Len(c) => d[k + 1] = c[k + 1])
    <3>1. k + 1 \in Nat \ {0} /\ (k < Len(c) => k + 1 <= Len(c)) /\ k < Len(d)
      BY <1>2, <2>2
    <3>2. QED
      BY <1>2, <3>1
  <2>5. QED
    BY <1>2, <2>0, <2>2, <2>3, <2>4, BeforeMeans
<1>4. QED
  BY <1>1, <1>3 DEF Beyond

(* The reference that was followed is passed, from below it or at it.       *)
LEMMA NextBeyond ==
  ASSUME NEW s \in Seq(Nat), NEW a \in Nat, NEW b \in Nat, a < b, NEW c \in Seq(Nat),
         Len(c) >= Len(s) + 1, Agree(s, c, Len(s)), c[Len(s) + 1] = a
  PROVE  Beyond(c, Append(s, b))
<1>1. PICK d, n : d = Append(s, b) /\ n = Len(s)
  OBVIOUS
<1>2. /\ Len(d) = n + 1 /\ n \in Nat /\ Len(d) \in Nat /\ d[n + 1] = b
      /\ \A m \in Nat \ {0} : m <= n => d[m] = s[m] /\ c[m] = s[m]
      /\ Len(c) \in Nat /\ Len(c) >= n + 1 /\ c[n + 1] = a
  BY <1>1, AppendGives DEF Agree
<1>3. ASSUME NEW x \in Seq(Nat), Before(x, c) \/ x = c
      PROVE  Before(x, d)
  <2>0. Len(x) \in Nat /\ \A m \in Nat \ {0} : m <= Len(x) => x[m] \in Nat
    OBVIOUS
  <2>1. \E k \in Nat : k <= Len(c) /\ Agree(x, c, k)
                       /\ (k >= Len(x) \/ (k < Len(c) /\ x[k + 1] < c[k + 1]))
    <3>1. CASE x = c
      <4>1. Len(c) \in Nat /\ Agree(x, c, Len(c)) /\ Len(c) >= Len(x)
        BY <1>2, <3>1 DEF Agree
      <4>2. QED
        BY <4>1
    <3>2. CASE Before(x, c)
      BY <1>2, <2>0, <3>2, BeforeMeans
    <3>3. QED
      BY <1>3, <3>1, <3>2
  <2>2. PICK k \in Nat : k <= Len(c) /\ Agree(x, c, k)
                         /\ (k >= Len(x) \/ (k < Len(c) /\ x[k + 1] < c[k + 1]))
    BY <2>1
  <2>3. CASE k < n
    <3>1. Agree(x, d, k)
      BY <1>2, <2>2, <2>3 DEF Agree
    <3>2. d[k + 1] = c[k + 1] /\ k < Len(d)
      BY <1>2, <2>3
    <3>3. QED
      BY <1>2, <2>0, <2>2, <3>1, <3>2, BeforeMeans
  <2>4. CASE k >= n
    <3>1. Agree(x, d, n)
      BY <1>2, <2>2, <2>4 DEF Agree
    <3>2. n >= Len(x) \/ x[n + 1] < b
      <4>1. SUFFICES ASSUME ~(n >= Len(x))
                     PROVE  x[n + 1] < b
        OBVIOUS
      <4>2. x[n + 1] \in Nat
        BY <1>2, <2>0, <4>1
      <4>3. CASE k = n
        BY <1>2, <2>2, <4>1, <4>2, <4>3
      <4>4. CASE k > n
        <5>1. n + 1 \in Nat \ {0} /\ n + 1 <= k
          BY <1>2, <4>4
        <5>2. x[n + 1] = c[n + 1]
          BY <2>2, <5>1 DEF Agree
        <5>3. QED
          BY <1>2, <5>2
      <4>5. QED
        BY <1>2, <2>4, <4>3, <4>4
    <3>3. n < Len(d) /\ n \in Nat /\ (n >= Len(x) \/ x[n + 1] < d[n + 1])
      BY <1>2, <3>2
    <3>4. QED
      BY <1>2, <2>0, <3>1, <3>3, BeforeMeans
  <2>5. QED
    BY <1>2, <2>3, <2>4
<1>4. QED
  BY <1>1, <1>3 DEF Beyond

(* A way is the stem of the file with the position in it.                   *)
Stem(r, f, p) == IF p = r THEN <<>> ELSE f[p]

(* A reference in a file is one position more than the file.                *)
LEMMA WayIsStem ==
  ASSUME NEW f \in [Loaded -> Seq(Nat)], NEW o, o.in \in Visited, o.at \in Nat
  PROVE  /\ Stem(Root, f, o.in) \in Seq(Nat)
         /\ WayBy(Root, f, o) = Append(Stem(Root, f, o.in), o.at)
         /\ WayBy(Root, f, o) \in Seq(Nat)
<1>1. Stem(Root, f, o.in) \in Seq(Nat)
  BY DEF Stem, Visited
<1>2. <<o.at>> = Append(<<>>, o.at)
  OBVIOUS
<1>3. WayBy(Root, f, o) = Append(Stem(Root, f, o.in), o.at)
  BY <1>2 DEF WayBy, Stem
<1>4. QED
  BY <1>1, <1>3, AppendGives

(* The references to a loaded file stand in files that were read.           *)
LEMMA RecordsVisited ==
  ASSUME ClosureInv, Loading, NEW p \in Loaded
  PROVE  /\ 1 \in DOMAIN loadedBy[p] /\ p \in Paths /\ loadedBy[p] \in Seq(Places)
         /\ \A n \in DOMAIN loadedBy[p] : loadedBy[p][n].in \in Visited /\ loadedBy[p][n].at \in Nat
<1>1. p \in Paths /\ loadedBy[p] \in Seq(Places) /\ loadedBy[p] # <<>>
  BY DEF Loaded, ClosureInv, Typed
<1>2. RecordsRight
  BY ReadingGoesOn DEF ClosureInv, Answers
<1>3. ASSUME NEW n \in DOMAIN loadedBy[p]
      PROVE  loadedBy[p][n].in \in Visited /\ loadedBy[p][n].at \in Nat
  <2>1. p \in Recorded(loadedBy[p][n])
    BY <1>1 DEF Recorded
  <2>2. loadedBy[p][n].in \in Visited
    BY <1>2, <2>1 DEF RecordsRight, Past
  <2>3. loadedBy[p][n] \in Places
    BY <1>1
  <2>4. QED
    BY <2>2, <2>3 DEF Places
<1>4. QED
  BY <1>1, <1>3

(* The ways do not change; that to a new file is the one to the top.        *)
LEMMA WaysStay ==
  ASSUME ClosureInv, Loading, NEW f, NEW g, f = [p \in Loaded |-> g[p]]
  PROVE  /\ \A o : o.in \in Visited => WayBy(Root, g, o) = WayBy(Root, f, o)
         /\ IsWay(g)' <=> /\ g = [p \in Loaded' |-> g[p]]
                          /\ IsWay(f)
                          /\ Enter => g[Target] = WayBy(Root, f, Top)
<1>1. \A o : o.in \in Visited => WayBy(Root, g, o) = WayBy(Root, f, o)
  BY DEF Visited, WayBy
<1>2. \A p \in Loaded : loadedBy'[p][1] = loadedBy[p][1] /\ loadedBy[p][1].in \in Visited
  BY FirstKept, RecordsVisited DEF ClosureInv
<1>3. Top.in \in Visited /\ Root' = Root
  BY ReadingGoesOn, StackFacts DEF ClosureInv
<1>4. Enter => loadedBy'[Target][1] = Top /\ Loaded' = Loaded \cup {Target} /\ Target \notin Loaded
  <2>1. SUFFICES ASSUME Enter
                 PROVE  loadedBy'[Target][1] = Top
    BY DEF Enter
  <2>2. Enters
    BY <2>1, StepKinds DEF ClosureInv, Rejects, Repeats, Ends, Skip, Enter, Leave, Pending,
                           Resolved
  <2>3. loadedBy[Target] = <<>>
    BY <2>1 DEF Enter, Loaded
  <2>4. Len(loadedBy[Target]) + 1 = 1
    BY <2>3
  <2>5. QED
    BY <2>2, <2>4, RecordGives DEF ClosureInv, Enters, Enter
<1>5. ~Enter => Loaded' = Loaded
  BY StepKinds DEF ClosureInv, Skip, Leave
<1>6. IsWay(g)' <=> g = [p \in Loaded' |-> WayBy(Root, g, loadedBy'[p][1])]
  BY <1>3 DEF IsWay
<1>7. IsWay(f) <=> \A p \in Loaded : g[p] = WayBy(Root, g, loadedBy[p][1])
  <2>1. IsWay(f) <=> f = [p \in Loaded |-> WayBy(Root, g, loadedBy[p][1])]
    BY <1>1, <1>2 DEF IsWay
  <2>2. QED
    BY <2>1
<1>8. QED
  <2>1. CASE Enter
    <3>1. IsWay(g)' <=> /\ g = [p \in Loaded' |-> g[p]]
                        /\ \A p \in Loaded : g[p] = WayBy(Root, g, loadedBy[p][1])
                        /\ g[Target] = WayBy(Root, g, Top)
      BY <1>2, <1>4, <1>6, <2>1
    <3>2. QED
      BY <1>1, <1>3, <1>7, <2>1, <3>1
  <2>2. CASE ~Enter
    BY <1>1, <1>2, <1>5, <1>6, <1>7, <2>2
  <2>3. QED
    BY <2>1, <2>2

(* The way to the reference at the top moves on, behind all others.         *)
LEMMA TopMoves ==
  ASSUME ClosureInv, Loading, NEW g, IsWay(g)', NEW f, f = [p \in Loaded |-> g[p]],
         f \in [Loaded -> Seq(Nat)], stack' # <<>>
  PROVE  Beyond(WayBy(Root, f, Top), WayBy(Root, g, Top)')
<1>0. Typed /\ Rooted /\ Nested /\ RecordsRight
  BY ReadingGoesOn DEF ClosureInv, Answers
<1>1. /\ stack \in Seq(Frames) /\ stack' \in Seq(Frames)
      /\ Len(stack) \in Nat \ {0} /\ stack[Len(stack)] = Top
      /\ Top.in \in Visited /\ Top.at \in Nat /\ Top' = stack'[Len(stack')]
      /\ Root' = Root
  BY <1>0, StackFacts, StepKinds, ReadingGoesOn DEF Typed, Top
<1>2. PICK s, a, c : s = Stem(Root, f, Top.in) /\ a = Top.at /\ c = WayBy(Root, f, Top)
  OBVIOUS
<1>3. s \in Seq(Nat) /\ a \in Nat /\ c = Append(s, a) /\ c \in Seq(Nat)
  BY <1>1, <1>2, WayIsStem
<1>4. PICK top : top = Top'
  OBVIOUS
<1>5. WayBy(Root, g, Top)' = WayBy(Root, g, top)
  BY <1>1, <1>4
<1>6. SUFFICES Beyond(c, WayBy(Root, g, top))
  BY <1>2, <1>5
<1>7. \A o : o.in \in Visited => WayBy(Root, g, o) = WayBy(Root, f, o)
  BY WaysStay
<1>8. CASE Passed /\ Len(stack') = Len(stack)
  <2>1. top.in = Top.in /\ top.at = a + 1
    BY <1>1, <1>2, <1>4, <1>8 DEF Passed
  <2>2. WayBy(Root, g, top) = Append(s, a + 1)
    <3>1. top.in \in Visited /\ top.at \in Nat
      BY <1>1, <1>3, <2>1
    <3>2. WayBy(Root, f, top) = Append(Stem(Root, f, top.in), top.at)
      BY <3>1, WayIsStem
    <3>3. QED
      BY <1>2, <1>7, <2>1, <3>1, <3>2
  <2>3. Len(c) >= Len(s) + 1 /\ Agree(s, c, Len(s)) /\ c[Len(s) + 1] = a
    BY <1>3, AppendGives DEF Agree
  <2>4. a + 1 \in Nat /\ a < a + 1
    BY <1>3
  <2>5. QED
    BY <1>3, <2>2, <2>3, <2>4, NextBeyond
<1>9. CASE Enter /\ Len(stack') = Len(stack) + 1
             /\ stack'[Len(stack) + 1] = [in |-> Target, at |-> 1]
  <2>1. top.in = Target /\ top.at = 1 /\ g[Target] = c
    BY <1>1, <1>2, <1>4, <1>9, WaysStay
  <2>2. Target # Root
    BY <1>0, <1>9, ReadingGoesOn, RootNotLoadable DEF Enter
  <2>3. WayBy(Root, g, top) = Append(c, 1)
    BY <2>1, <2>2 DEF WayBy
  <2>4. QED
    BY <1>3, <2>3, DeeperBeyond
<1>10. CASE Leave
  <2>1. Len(stack') = Len(stack) - 1 /\ \A k \in DOMAIN stack' : stack'[k] = stack[k]
    BY <1>0, <1>10, StackFacts
  <2>2. PICK n : n = Len(stack')
    OBVIOUS
  <2>3. n \in DOMAIN stack' /\ n \in DOMAIN stack \ {Len(stack)} /\ n + 1 = Len(stack)
        /\ n \in Nat \ {0}
    BY <1>1, <2>1, <2>2
  <2>4. top = stack[n]
    BY <1>1, <1>4, <2>1, <2>2, <2>3
  <2>5. Handed(n) /\ Top.in # Root /\ Top.in \in Loaded
    BY <1>0, <1>1, <2>3 DEF Nested, Visited
  <2>6. PICK o : o = [in |-> top.in, at |-> top.at - 1]
    OBVIOUS
  <2>7. loadedBy[Top.in][1] = o /\ o.at \in Nat \ {0}
    BY <1>0, <1>1, <2>3, <2>4, <2>5, <2>6, PositionsAreNumbers DEF Handed
  <2>8. o.in \in Visited
    BY <2>5, <2>7, RecordsVisited
  <2>9. f[Top.in] = WayBy(Root, f, o)
    BY <2>5, <2>7, WaysStay DEF IsWay
  <2>10. PICK u, b : u = Stem(Root, f, o.in) /\ b = o.at
    OBVIOUS
  <2>11. u \in Seq(Nat) /\ b \in Nat /\ f[Top.in] = Append(u, b)
    BY <2>7, <2>8, <2>9, <2>10, WayIsStem
  <2>12. s = Append(u, b) /\ s[Len(u) + 1] = b /\ Len(s) = Len(u) + 1 /\ Len(u) \in Nat
    <3>1. s = Append(u, b)
      BY <1>2, <2>5, <2>11 DEF Stem
    <3>2. QED
      BY <2>11, <3>1, AppendGives
  <2>13. top.at = b + 1
    <3>1. top.at \in Nat
      BY <1>1, <2>3, <2>4 DEF Frames, Places
    <3>2. QED
      BY <2>6, <2>10, <3>1
  <2>14. WayBy(Root, g, top) = Append(u, b + 1)
    <3>1. top.in \in Visited /\ top.at \in Nat /\ top.in = o.in
      BY <2>6, <2>8, <2>11, <2>13
    <3>2. QED
      BY <1>7, <2>10, <2>13, <3>1, WayIsStem
  <2>15. Len(c) >= Len(u) + 1
    BY <1>3, <2>12, AppendGives
  <2>16. c[Len(u) + 1] = b
    BY <1>3, <2>12, AppendGives
  <2>17. Agree(u, c, Len(u))
    <3>1. SUFFICES ASSUME NEW m \in Nat \ {0}, m <= Len(u)
                   PROVE  u[m] = c[m]
      BY DEF Agree
    <3>2. s[m] = u[m]
      BY <2>11, <2>12, <3>1, AppendGives
    <3>3. m <= Len(s)
      BY <2>12, <3>1
    <3>4. c[m] = s[m]
      BY <1>3, <3>3, AppendGives
    <3>5. QED
      BY <3>2, <3>4
  <2>18. b + 1 \in Nat /\ b < b + 1
    BY <2>11
  <2>19. QED
    BY <1>3, <2>11, <2>14, <2>15, <2>16, <2>17, <2>18, NextBeyond
<1>11. QED
  BY <1>0, <1>8, <1>9, <1>10, StepKinds DEF Skip, Enter

LEMMA OrderedStep ==
  ASSUME ClosureInv, ClosureInv', Loading, \A f : IsWay(f) => Ordered(f), NEW g, IsWay(g)'
  PROVE  Ordered(g)'
<1>0. Typed /\ Typed' /\ UNCHANGED <<disk, toc>> /\ Root' = Root
  BY StepKinds, StackFacts DEF ClosureInv
<1>1. PICK f : f = [p \in Loaded |-> g[p]]
  OBVIOUS
<1>2. /\ \A o : o.in \in Visited => WayBy(Root, g, o) = WayBy(Root, f, o)
      /\ g = [p \in Loaded' |-> g[p]]
      /\ IsWay(f)
      /\ Enter => g[Target] = WayBy(Root, f, Top)
  BY <1>1, WaysStay
<1>3. Ordered(f) /\ f \in [Loaded -> Seq(Nat)]
  BY <1>2 DEF Ordered
<1>4. PICK c, d : c = WayBy(Root, f, Top) /\ d = WayBy(Root, g, Top)'
  OBVIOUS
<1>5. Top.in \in Visited /\ Top.at \in Nat /\ stack # <<>> /\ c \in Seq(Nat)
  BY <1>0, <1>3, <1>4, StackFacts, ReadingGoesOn, WayIsStem DEF ClosureInv
<1>6. \A p \in Loaded : f[p] = g[p] /\ f[p] \in Seq(Nat)
  BY <1>1, <1>3
<1>7. g \in [Loaded' -> Seq(Nat)]
  <2>1. Loaded' = Loaded \/ (Enter /\ Loaded' = Loaded \cup {Target})
    BY <1>0, StepKinds DEF Skip, Enter, Leave
  <2>2. QED
    BY <1>2, <1>4, <1>5, <1>6, <2>1
<1>8. stack' # <<>> => Beyond(c, d)
  BY <1>1, <1>3, <1>4, TopMoves
\* what was recorded is behind the top
<1>9. \A p \in Loaded : \A n \in DOMAIN loadedBy[p] :
        /\ WayBy(Root, g, loadedBy[p][n]) \in Seq(Nat)
        /\ Before(WayBy(Root, g, loadedBy[p][n]), c)
  <2>1. SUFFICES ASSUME NEW p \in Loaded, NEW n \in DOMAIN loadedBy[p]
                 PROVE  /\ WayBy(Root, g, loadedBy[p][n]) \in Seq(Nat)
                        /\ Before(WayBy(Root, g, loadedBy[p][n]), c)
    OBVIOUS
  <2>2. loadedBy[p][n].in \in Visited /\ loadedBy[p][n].at \in Nat
    BY RecordsVisited
  <2>3. WayBy(Root, g, loadedBy[p][n]) = WayBy(Root, f, loadedBy[p][n])
    BY <1>2, <2>2
  <2>4. QED
    BY <1>3, <1>4, <1>5, <2>2, <2>3, WayIsStem DEF Ordered
<1>10. \A p \in Loaded : Before(g[p], c)
  <2>1. SUFFICES ASSUME NEW p \in Loaded
                 PROVE  Before(g[p], c)
    OBVIOUS
  <2>2. 1 \in DOMAIN loadedBy[p] /\ loadedBy[p][1].in \in Visited
    BY RecordsVisited
  <2>3. g[p] = WayBy(Root, g, loadedBy[p][1])
    BY <1>2, <1>6, <2>2 DEF IsWay
  <2>4. QED
    BY <1>9, <2>2, <2>3
<1>11. WayBy(Root, g, Top) = c
  BY <1>2, <1>4, <1>5
\* the references to a file, and the new one
<1>12. \/ UNCHANGED loadedBy
       \/ Resolved /\ RecordSource
  BY <1>0, StepKinds DEF Rejects, Repeats, Enters, Enter, Ends
<1>13. \A p \in Loaded' : \A n \in DOMAIN loadedBy'[p] :
         \/ p \in Loaded /\ n \in DOMAIN loadedBy[p] /\ loadedBy'[p][n] = loadedBy[p][n]
         \/ /\ n = Len(loadedBy[p]) + 1 /\ loadedBy'[p][n] = Top
            /\ \A m \in DOMAIN loadedBy[p] : loadedBy'[p][m] = loadedBy[p][m]
  <2>1. Loaded' \subseteq Paths
    BY DEF Loaded
  <2>2. \A p \in Paths \ Loaded : DOMAIN loadedBy[p] = {}
    BY DEF Loaded
  <2>3. CASE UNCHANGED loadedBy
    BY <2>3 DEF Loaded
  <2>4. CASE Resolved /\ RecordSource
    BY <1>0, <2>1, <2>2, <2>4, RecordGives
  <2>5. QED
    BY <1>12, <2>3, <2>4
<1>14. stack' # <<>> => \A p \in Loaded' : \A n \in DOMAIN loadedBy'[p] :
         Before(WayBy(Root, g, loadedBy'[p][n]), d)
  BY <1>5, <1>8, <1>9, <1>11, <1>13 DEF Beyond
<1>15. \A p \in Loaded' : \A n \in DOMAIN loadedBy'[p] \ {1} :
         Before(WayBy(Root, g, loadedBy'[p][n - 1]), WayBy(Root, g, loadedBy'[p][n]))
  <2>1. SUFFICES ASSUME NEW p \in Loaded', NEW n \in DOMAIN loadedBy'[p] \ {1}
                 PROVE  Before(WayBy(Root, g, loadedBy'[p][n - 1]), WayBy(Root, g, loadedBy'[p][n]))
    OBVIOUS
  <2>2. loadedBy[p] \in Seq(Places) /\ loadedBy'[p] \in Seq(Places) /\ p \in Paths
    BY <1>0 DEF Typed, Loaded
  <2>3. n - 1 \in DOMAIN loadedBy'[p] /\ n # 1 /\ n - 1 # n
    BY <2>2
  <2>4. CASE n \in DOMAIN loadedBy[p] /\ loadedBy'[p][n] = loadedBy[p][n] /\ p \in Loaded
    <3>1. n - 1 \in DOMAIN loadedBy[p] /\ n - 1 # Len(loadedBy[p]) + 1
      BY <2>2, <2>3, <2>4
    <3>2. loadedBy'[p][n - 1] = loadedBy[p][n - 1]
      BY <1>13, <2>3, <3>1
    <3>3. Before(WayBy(Root, f, loadedBy[p][n - 1]), WayBy(Root, f, loadedBy[p][n]))
      BY <1>3, <2>3, <2>4 DEF Ordered
    <3>4. loadedBy[p][n - 1].in \in Visited /\ loadedBy[p][n].in \in Visited
      BY <2>4, <3>1, RecordsVisited
    <3>5. QED
      BY <1>2, <2>4, <3>2, <3>3, <3>4
  <2>5. CASE /\ n = Len(loadedBy[p]) + 1 /\ loadedBy'[p][n] = Top
             /\ \A m \in DOMAIN loadedBy[p] : loadedBy'[p][m] = loadedBy[p][m]
    <3>1. n - 1 \in DOMAIN loadedBy[p] /\ p \in Loaded
      <4>1. n - 1 \in DOMAIN loadedBy[p]
        BY <2>2, <2>3, <2>5
      <4>2. QED
        BY <2>2, <4>1 DEF Loaded
    <3>2. QED
      BY <1>9, <1>11, <2>5, <3>1
  <2>6. QED
    BY <1>13, <2>1, <2>4, <2>5
\* the files
<1>16. \/ UNCHANGED files /\ Loaded \subseteq Loaded'
       \/ /\ files' = Append(files, Target) /\ g[Target] = c
          /\ Loaded' = Loaded \cup {Target}
  BY <1>0, <1>2, <1>4, StepKinds DEF Rejects, Repeats, Enters, Ends, Skip, Enter, Leave
<1>17. files \in Seq(Paths) /\ \A n \in DOMAIN files : files[n] \in Loaded
  BY <1>0, <1>3 DEF Typed, Ordered
<1>18. \A i, j \in DOMAIN files : i < j => Before(g[files[i]], g[files[j]])
  BY <1>3, <1>6, <1>17 DEF Ordered
<1>19. /\ \A n \in DOMAIN files' : files'[n] \in Loaded'
       /\ \A i, j \in DOMAIN files' : i < j => Before(g[files'[i]], g[files'[j]])
  <2>1. CASE UNCHANGED files /\ Loaded \subseteq Loaded'
    BY <1>17, <1>18, <2>1
  <2>2. CASE /\ files' = Append(files, Target) /\ g[Target] = c
             /\ Loaded' = Loaded \cup {Target}
    <3>1. PICK t : t = Target
      OBVIOUS
    <3>2. PICK l : l = Len(files) + 1
      OBVIOUS
    <3>3. t \in Paths
      <4>1. t \in Loaded'
        BY <2>2, <3>1
      <4>2. QED
        BY <4>1 DEF Loaded
    <3>4. /\ DOMAIN files' = DOMAIN files \cup {l}
          /\ \A n \in DOMAIN files : files'[n] = files[n] /\ n < l
          /\ files'[l] = t /\ l \notin DOMAIN files /\ l \in Nat
      <4>1. \A n \in DOMAIN files : n < l
        BY <1>17, <3>2
      <4>2. QED
        BY <1>17, <2>2, <3>1, <3>2, <3>3, <4>1, Appended
    <3>5. ASSUME NEW i \in DOMAIN files', NEW j \in DOMAIN files', i < j
          PROVE  Before(g[files'[i]], g[files'[j]])
      <4>1. CASE j \in DOMAIN files
        <5>1. i # l
          <6>1. i \in Nat /\ j \in Nat /\ j < l
            BY <1>17, <3>4, <4>1
          <6>2. QED
            BY <3>4, <3>5, <6>1
        <5>2. QED
          BY <1>18, <3>4, <3>5, <4>1, <5>1
      <4>2. CASE j = l
        <5>1. i \in DOMAIN files
          BY <3>4, <3>5, <4>2
        <5>2. QED
          BY <1>10, <1>17, <2>2, <3>1, <3>4, <4>2, <5>1
      <4>3. QED
        BY <3>4, <4>1, <4>2
    <3>6. \A n \in DOMAIN files' : files'[n] \in Loaded'
      BY <1>17, <2>2, <3>1, <3>4
    <3>7. QED
      BY <3>5, <3>6
  <2>3. QED
    BY <1>16, <2>1, <2>2
<1>20. QED
  BY <1>0, <1>4, <1>7, <1>14, <1>15, <1>19 DEF Ordered

(* There are ways to all files: those to the old ones, and the one to the   *)
(* top for a new file.                                                      *)
LEMMA WaysExist ==
  ASSUME ClosureInv, Loading, NEW f, IsWay(f)
  PROVE  (\E g : IsWay(g))'
<1>1. PICK g : g = [p \in Loaded' |-> IF p \in Loaded THEN f[p] ELSE WayBy(Root, f, Top)]
  OBVIOUS
<1>2. Loaded \subseteq Loaded' /\ (Enter => Target \in Loaded' \ Loaded)
  BY StepKinds DEF ClosureInv, Skip, Enter, Leave
<1>3. f = [p \in Loaded |-> g[p]] /\ g = [p \in Loaded' |-> g[p]]
  <2>1. f = [p \in Loaded |-> f[p]]
    BY DEF IsWay
  <2>2. QED
    BY <1>1, <1>2, <2>1
<1>4. Enter => g[Target] = WayBy(Root, f, Top)
  BY <1>1, <1>2
<1>5. QED
  BY <1>3, <1>4, WaysStay

LEMMA OrderStep ==
  ASSUME ClosureInv, ClosureInv', OrderInv, [Next]_closureVars
  PROVE  OrderInv'
<1>1. ASSUME NEW t \in Tocs, BuildClosure(t)
      PROVE  OrderInv'
  <2>1. Loaded' = {} /\ files' = <<>>
    BY <1>1, BuildFacts DEF ClosureInv
  <2>2. \A f : IsWay(f)' <=> f = [p \in {} |-> p]
    BY <2>1 DEF IsWay
  <2>3. \A f : f = [p \in {} |-> p] => Ordered(f)'
    BY <2>1 DEF Ordered
  <2>4. QED
    BY <2>2, <2>3 DEF OrderInv
<1>2. CASE Loading
  <2>1. (\E f : IsWay(f))'
    BY <1>2, WaysExist DEF OrderInv
  <2>2. ASSUME NEW g, IsWay(g)'
        PROVE  Ordered(g)'
    BY <1>2, <2>2, OrderedStep DEF OrderInv
  <2>3. QED
    BY <2>1, <2>2 DEF OrderInv
<1>3. CASE UNCHANGED closureVars
  <2>1. /\ UNCHANGED <<stack, files, loadedBy>> /\ Root' = Root
        /\ Loaded' = Loaded /\ (stack # <<>> => Top' = Top)
    BY <1>3 DEF closureVars, Root, Loaded, Top
  <2>2. \A f : IsWay(f)' <=> IsWay(f)
    BY <2>1 DEF IsWay
  <2>3. \A f : Ordered(f)' <=> Ordered(f)
    BY <2>1 DEF Ordered
  <2>4. QED
    BY <2>2, <2>3 DEF OrderInv
<1>4. QED
  BY <1>1, <1>2, <1>3 DEF Next

LEMMA OrderInit == Init => OrderInv
<1> SUFFICES ASSUME Init
             PROVE  OrderInv
  OBVIOUS
<1>1. Loaded = {} /\ files = <<>> /\ stack = <<>>
  BY DEF Init, Loaded
<1>2. \A f : IsWay(f) <=> f = [p \in {} |-> p]
  BY <1>1 DEF IsWay
<1>3. \A f : f = [p \in {} |-> p] => Ordered(f)
  BY <1>1 DEF Ordered
<1>4. QED
  BY <1>2, <1>3 DEF OrderInv

(* Way is the function f of the invariant.                                  *)
LEMMA InvOrder == OrderInv => LoadOrder
<1> SUFFICES ASSUME OrderInv
             PROVE  LoadOrder
  OBVIOUS
<1>1. PICK f : IsWay(f)
  BY DEF OrderInv
<1>2. IsWay(Way)
  <2>1. \E way : way = [p \in Loaded |->
                   LET o == loadedBy[p][1]
                   IN  IF o.in = Root THEN <<o.at>> ELSE Append(way[o.in], o.at)]
    BY <1>1 DEF IsWay, WayBy
  <2>2. Way = [p \in Loaded |->
                   LET o == loadedBy[p][1]
                   IN  IF o.in = Root THEN <<o.at>> ELSE Append(Way[o.in], o.at)]
    BY <2>1 DEF Way
  <2>3. QED
    BY <2>2 DEF IsWay, WayBy
<1>3. \A o : WayTo(o) = WayBy(Root, Way, o)
  BY DEF WayTo, WayBy
<1>4. Ordered(Way)
  BY <1>2 DEF OrderInv
<1>5. QED
  BY <1>3, <1>4 DEF Ordered, LoadOrder

(* The ways to the references the reader has read are ordered, and before   *)
(* the one it is at.                                                        *)
THEOREM OrderInvariant == Spec => [](ClosureInv /\ OrderInv)
<1>1. Init => ClosureInv /\ OrderInv
  BY ClosureInit, OrderInit
<1>2. ClosureInv /\ OrderInv /\ [Next]_closureVars => (ClosureInv /\ OrderInv)'
  BY ClosureStep, OrderStep
<1>3. QED
  BY <1>1, <1>2, PTL DEF Spec

(* Files are loaded in the order in which they are first named when every   *)
(* file is read where it is named, and later references follow in that      *)
(* order (closure.go load, result.Files).                                   *)
THEOREM LoadOrderHolds == Spec => []LoadOrder
BY OrderInvariant, InvOrder, PTL

(***************************************************************************)
(* ReadingEnds: what is still to be read becomes less with every step.      *)
(***************************************************************************)
(* Reading comes to an end, whatever refers to what: every step reads a    *)
(* reference that was never read before, or closes a file, and a reference *)
(* that was read is not read again.  Left bounds the number of steps.      *)
Unread ==
  {o \in UNION {{p} \X Positions(p) : p \in Paths \cup {Root}} :
     o[1] \in Loaded \cup {Root} =>
       \E k \in DOMAIN stack : stack[k].in = o[1] /\ o[2] >= stack[k].at}

Left == 2 * Cardinality(Unread) + Len(stack)

ReadingEnds == [][stack # <<>> => Left' < Left]_closureVars

(* The values of a function on a finite set are finitely many.              *)
LEMMA ImageIsFinite ==
  ASSUME NEW S, IsFiniteSet(S), NEW f, DOMAIN f = S
  PROVE  IsFiniteSet({f[x] : x \in S})
<1> DEFINE T == {f[x] : x \in S}
           g == [x \in S |-> f[x]]
<1>1. g \in Surjection(S, T)
  BY DEF Surjection
<1>2. QED
  BY <1>1, FS_Surjection

(* There are finitely many files, and so finitely many references: no chain *)
(* of links is longer than MaxLinks.                                        *)
LEMMA PathsAreFinite == IsFiniteSet(Paths)
<1>1. PICK S : S = Loadable \X (0 .. MaxLinks)
  OBVIOUS
<1>2. IsFiniteSet(0 .. MaxLinks) /\ IsFiniteSet(Loadable)
  BY ClosureAssumption, FS_Interval
<1>3. IsFiniteSet(S)
  BY <1>1, <1>2, FS_Product
<1>4. PICK f : f = [x \in S |-> [file |-> x[1], links |-> x[2]]]
  OBVIOUS
<1>5. IsFiniteSet({f[x] : x \in S})
  BY <1>3, <1>4, ImageIsFinite
<1>6. Paths \subseteq {f[x] : x \in S}
  <2> SUFFICES ASSUME NEW p \in Paths
               PROVE  \E x \in S : p = f[x]
    OBVIOUS
  <2>1. p = [file |-> p.file, links |-> p.links] /\ <<p.file, p.links>> \in S
    BY <1>1 DEF Paths
  <2>2. f[<<p.file, p.links>>] = p
    BY <1>4, <2>1
  <2>3. QED
    BY <2>1, <2>2
<1>7. QED
  BY <1>5, <1>6, FS_Subset

(* The references that are still to be read.                                *)
LEMMA UnreadIs ==
  \A o : o \in Unread <=> \E p \in Paths \cup {Root} : \E i \in Positions(p) :
           o = <<p, i>> /\ (p \in Visited => ToBeRead(p, i))
BY DEF Unread, Visited, ToBeRead

(* There are finitely many references.                                      *)
LEMMA UnreadIsFinite ==
  ASSUME Typed
  PROVE  IsFiniteSet(Unread)
<1>1. PICK P : P = Paths \cup {Root}
  OBVIOUS
<1>2. PICK f : f = [p \in P |-> {p} \X Positions(p)]
  OBVIOUS
<1>3. IsFiniteSet(P)
  BY <1>1, PathsAreFinite, FS_AddElement
<1>4. IsFiniteSet({f[p] : p \in P})
  <2>1. DOMAIN f = P
    BY <1>2
  <2>2. QED
    BY <1>3, <2>1, ImageIsFinite
<1>5. ASSUME NEW p \in P
      PROVE  IsFiniteSet(f[p])
  <2>1. IsFiniteSet(Positions(p))
    <3>1. CASE p.file \in Readers
      <4>1. PICK s : s = Says(p)
        OBVIOUS
      <4>2. s \in Seq(References)
        BY <3>1, <4>1, ClosureAssumption DEF Says, Typed
      <4>3. DOMAIN s = 1 .. Len(s) /\ Len(s) \in Nat
        BY <4>2
      <4>4. IsFiniteSet(DOMAIN s)
        BY <4>3, FS_Interval
      <4>5. QED
        BY <3>1, <4>1, <4>4 DEF Positions
    <3>2. CASE p.file \notin Readers
      BY <3>2, FS_EmptySet DEF Positions
    <3>3. QED
      BY <3>1, <3>2
  <2>2. QED
    BY <1>2, <2>1, FS_Singleton, FS_Product
<1>6. IsFiniteSet(UNION {f[p] : p \in P})
  BY <1>4, <1>5, FS_UNION
<1>7. Unread \subseteq UNION {f[p] : p \in P}
  <2> SUFFICES ASSUME NEW o \in Unread
               PROVE  \E p \in P : o \in f[p]
    OBVIOUS
  <2>1. PICK p \in P : \E i \in Positions(p) : o = <<p, i>>
    BY <1>1, UnreadIs
  <2>2. QED
    BY <1>2, <2>1
<1>8. QED
  BY <1>6, <1>7, FS_Subset

(* A step reads the reference at the top of the stack, and no other.        *)
LEMMA UnreadFalls ==
  ASSUME ClosureInv, Loading
  PROVE  /\ <<Top.in, Top.at>> \in Unread \/ Leave
         /\ Unread' = IF Leave THEN Unread ELSE Unread \ {<<Top.in, Top.at>>}
<1>1. /\ Typed /\ Rooted /\ Nested
      /\ Root' = Root /\ UNCHANGED <<disk, toc>>
      /\ Top = [in |-> Top.in, at |-> Top.at]
  BY StackFacts DEF ClosureInv
<1>2. /\ Top.in \in Visited /\ ToBeRead(Top.in, Top.at)
      /\ Visited \subseteq Paths \cup {Root}
  BY <1>1, ReadingGoesOn DEF Visited, Loaded
<1>3. \A p : Positions(p)' = Positions(p)
  BY <1>1, SameDisk
<1>4. \A p \in Paths \cup {Root} : Positions(p) \subseteq Nat
  BY <1>1, PositionsAreNumbers
<1>5. \A o : o \in Unread' <=> \E p \in Paths \cup {Root} : \E i \in Positions(p) :
               o = <<p, i>> /\ (p \in Visited' => ToBeRead(p, i)')
  <2>1. Paths' = Paths
    BY DEF Paths
  <2>2. QED
    BY <1>1, <1>3, <2>1 DEF Unread, Visited, ToBeRead
<1>6. CASE Leave
  <2>1. Visited' = Visited
    BY <1>1, <1>6 DEF Leave, Visited
  <2>2. \A p \in Visited : \A i \in Positions(p) : ToBeRead(p, i)' <=> ToBeRead(p, i)
    BY <1>1, <1>6, ReadingGoesOn
  <2>3. QED
    BY <1>5, <1>6, <2>1, <2>2, UnreadIs
<1>7. CASE ~Leave
  <2>1. \A p \in Visited : \A i \in Nat :
          ToBeRead(p, i)' <=> ToBeRead(p, i) /\ [in |-> p, at |-> i] # Top
    BY <1>1, <1>7, ReadingGoesOn
  <2>2. Pending
    BY <1>1, <1>7, StepKinds DEF Skip, Enter, Resolved
  <2>3. <<Top.in, Top.at>> \in Unread
    BY <1>1, <1>2, <2>2, TargetFacts, UnreadIs
  <2>4. ASSUME NEW p \in Paths \cup {Root}, NEW i \in Positions(p)
        PROVE  (p \in Visited' => ToBeRead(p, i)') <=>
                 (p \in Visited => ToBeRead(p, i)) /\ <<p, i>> # <<Top.in, Top.at>>
    <3>1. CASE p \in Visited
      <4>1. p \in Visited'
        BY <1>1, <1>7, <3>1, StepKinds DEF Skip, Enter, Visited
      <4>2. [in |-> p, at |-> i] # Top <=> <<p, i>> # <<Top.in, Top.at>>
        BY <1>1
      <4>3. QED
        BY <1>4, <2>1, <3>1, <4>1, <4>2
    <3>2. CASE p \notin Visited
      <4>1. p \in Visited' => Enter /\ p = Target
        BY <1>1, <1>7, <3>2, StepKinds DEF Skip, Enter, Visited
      <4>2. p \in Visited' => ToBeRead(p, i)'
        BY <1>1, <4>1, EnteredIsRead
      <4>3. QED
        BY <1>2, <3>2, <4>2
    <3>3. QED
      BY <3>1, <3>2
  <2>5. \A o : o \in Unread' <=> o \in Unread /\ o # <<Top.in, Top.at>>
    BY <1>5, <2>4, UnreadIs
  <2>6. QED
    BY <1>7, <2>3, <2>5
<1>8. QED
  BY <1>6, <1>7

(* Each of them counts twice: a file that is entered counts once more.      *)
LEMMA LeftFalls ==
  ASSUME ClosureInv, Loading
  PROVE  Left \in Nat /\ Left' \in Nat /\ Left' < Left
<1>1. Typed /\ Typed'
  BY StepKinds DEF ClosureInv
<1>2. IsFiniteSet(Unread) /\ Cardinality(Unread) \in Nat
  BY <1>1, UnreadIsFinite, FS_CardinalityType
<1>3. PICK n, m, c : n = Len(stack) /\ m = Len(stack') /\ c = Cardinality(Unread)
  OBVIOUS
<1>4. PICK d : d = Cardinality(Unread')
  OBVIOUS
<1>5. n \in Nat /\ m \in Nat /\ c \in Nat
  BY <1>1, <1>2, <1>3, StackFacts
<1>6. Left = 2 * c + n /\ Left' = 2 * d + m
  BY <1>3, <1>4 DEF Left
<1>7. CASE Leave
  <2>1. m = n - 1
    BY <1>1, <1>3, <1>7, StackFacts
  <2>2. d = c
    BY <1>3, <1>4, <1>7, UnreadFalls
  <2>3. QED
    BY <1>5, <1>6, <2>1, <2>2
<1>8. CASE ~Leave
  <2>1. m <= n + 1
    BY <1>1, <1>3, <1>5, <1>8, StepKinds DEF Skip, Enter
  <2>2. <<Top.in, Top.at>> \in Unread /\ Unread' = Unread \ {<<Top.in, Top.at>>}
    BY <1>8, UnreadFalls
  <2>3. d = c - 1
    BY <1>2, <1>3, <1>4, <2>2, FS_RemoveElement
  <2>4. d \in Nat
    <3>1. IsFiniteSet(Unread')
      BY <1>2, <2>2, FS_RemoveElement
    <3>2. QED
      BY <1>4, <3>1, FS_CardinalityType
  <2>5. QED
    BY <1>5, <1>6, <2>1, <2>3, <2>4
<1>9. QED
  BY <1>7, <1>8

(* Every step of a load closure reads a reference that was not read         *)
(* before, or closes a file: for every AddOn directory, with any cycles     *)
(* and links to parents, BuildClosure takes a bounded number of steps       *)
(* (closure.go load).                                                       *)
THEOREM ReadingComesToAnEnd == Spec => ReadingEnds
<1>1. ASSUME ClosureInv, [Next]_closureVars
      PROVE  [stack # <<>> => Left' < Left]_closureVars
  <2>1. ASSUME NEW t \in Tocs, BuildClosure(t)
        PROVE  stack = <<>>
    BY <2>1 DEF BuildClosure
  <2>2. CASE Loading
    BY <1>1, <2>2, LeftFalls
  <2>3. QED
    BY <1>1, <2>1, <2>2 DEF Next
<1>2. QED
  BY <1>1, ClosureInvariant, PTL DEF Spec, ReadingEnds

(* The files of the result are the loaded ones.                             *)
Listed == \A p : p \in Loaded <=> \E n \in DOMAIN files : files[n] = p

LEMMA ListedStep ==
  ASSUME Typed, Listed, [Next]_closureVars
  PROVE  Listed'
<1>1. ASSUME NEW t \in Tocs, BuildClosure(t)
      PROVE  Listed'
  BY <1>1, BuildFacts DEF Listed
<1>2. CASE UNCHANGED files /\ Loaded' = Loaded
  BY <1>2 DEF Listed
<1>3. CASE Loading /\ Enters
  <2>1. PICK t : t = Target
    OBVIOUS
  <2>2. /\ files' = Append(files, t) /\ Loaded' = Loaded \cup {t}
        /\ t \in Paths /\ files \in Seq(Paths)
    BY <1>3, <2>1 DEF Enters, Enter, Typed
  <2>3. /\ DOMAIN files' = DOMAIN files \cup {Len(files) + 1}
        /\ \A n \in DOMAIN files : files'[n] = files[n]
        /\ files'[Len(files) + 1] = t
    BY <2>2, Appended
  <2>4. QED
    BY <2>2, <2>3 DEF Listed
<1>4. CASE Loading /\ ~Enters
  BY <1>2, <1>4, StepKinds DEF Rejects, Repeats, Ends, Skip, Leave
<1>5. CASE UNCHANGED closureVars
  BY <1>2, <1>5 DEF closureVars, Loaded
<1>6. QED
  BY <1>1, <1>3, <1>4, <1>5 DEF Next

LEMMA ListedInit == Init => Listed
BY DEF Init, Listed, Loaded

(***************************************************************************)
(* The largest of a finite set of numbers, and the last of a set of uses.   *)
(***************************************************************************)
LEMMA MaxIsIn ==
  ASSUME NEW S \in SUBSET Nat, IsFiniteSet(S), S # {}
  PROVE  Max(S) \in S
<1> DEFINE A(x) == {y \in S : y > x}
           T == {A(x) : x \in S}
<1>1. IsWellFoundedOn(StrictSubsetOrdering(S), FiniteSubsetsOf(S))
  BY FS_StrictSubsetOrderingWellFounded
<1>2. T \subseteq FiniteSubsetsOf(S) /\ T # {}
  <2>1. \A x \in S : A(x) \in SUBSET S /\ IsFiniteSet(A(x))
    BY FS_Subset
  <2>2. QED
    BY <2>1 DEF FiniteSubsetsOf
<1> HIDE DEF T
<1>3. \E a \in T : \A b \in T : ~(<<b, a>> \in StrictSubsetOrdering(S))
  BY <1>1, <1>2, WFMin
<1> USE DEF T
<1>4. PICK x \in S : \A z \in S : ~(<<A(z), A(x)>> \in StrictSubsetOrdering(S))
  BY <1>3
<1>5. ASSUME NEW z \in S, z > x
      PROVE  FALSE
  <2>1. x \in Nat /\ z \in Nat
    OBVIOUS
  <2>2. z \in A(x) /\ z \notin A(z)
    BY <1>5, <2>1
  <2>3. \A y \in S : y > z => y > x
    BY <1>5, <2>1
  <2>4. A(z) \subseteq A(x)
    BY <2>3
  <2>5. <<A(z), A(x)>> \in StrictSubsetOrdering(S)
    BY <2>2, <2>4 DEF StrictSubsetOrdering
  <2>6. QED
    BY <1>4, <2>5
<1>6. \A z \in S : x >= z
  BY <1>5
<1>7. QED
  BY <1>6 DEF Max

(* The largest of one number.                                               *)
LEMMA MaxOfOne ==
  ASSUME NEW n \in Nat
  PROVE  Max({n}) = n
BY DEF Max

(* The last of a finite set of uses is one of them.                         *)
LEMMA LastIsIn ==
  ASSUME NEW S \in SUBSET (Nat \X Nat), IsFiniteSet(S), S # {}
  PROVE  Last(S) \in S
<1>1. ASSUME NEW T \in SUBSET S, T # {}, NEW i \in {1, 2}
      PROVE  \E l \in T : l[i] = Max({k[i] : k \in T})
  <2>1. PICK f : f = [k \in T |-> k[i]]
    OBVIOUS
  <2>2. PICK N : N = {k[i] : k \in T}
    OBVIOUS
  <2>3. N = {f[k] : k \in T} /\ DOMAIN f = T
    BY <2>1, <2>2
  <2>4. IsFiniteSet(N)
    <3>1. IsFiniteSet(T)
      BY <1>1, FS_Subset
    <3>2. QED
      BY <2>3, <3>1, ImageIsFinite
  <2>5. N \in SUBSET Nat /\ N # {}
    BY <1>1, <2>2
  <2>6. Max(N) \in N
    BY <2>4, <2>5, MaxIsIn
  <2>7. QED
    BY <2>2, <2>6
<1>2. PICK n : n = Max({l[1] : l \in S})
  OBVIOUS
<1>3. PICK R : R = {k \in S : k[1] = n}
  OBVIOUS
<1>4. R \in SUBSET S /\ R # {}
  BY <1>1, <1>2, <1>3
<1>5. PICK l \in R : l[2] = Max({k[2] : k \in R})
  BY <1>1, <1>4
<1>6. l \in S /\ l[1] = n /\ l = <<l[1], l[2]>>
  BY <1>3, <1>4, <1>5
<1>7. Last(S) = <<n, Max({k[2] : k \in R})>>
  BY <1>2, <1>3 DEF Last
<1>8. QED
  BY <1>5, <1>6, <1>7

(***************************************************************************)
(* The uses that are looked up for a target, and its result.                *)
(***************************************************************************)
(* The uses about which the snapshot s has a say.                           *)
SettledUses(s) == {l \in Usages : Settled(s, UseAt(l))}

(* The uses are those in the files that were loaded and, if there is one,   *)
(* in the TOC file.                                                         *)
LEMMA SourcesAre ==
  ASSUME Typed, Listed, toc \in Tocs
  PROVE  /\ Sources \in Seq(Nodes)
         /\ \A p : (\E n \in DOMAIN Sources : Sources[n] = p)
                     <=> p \in Loaded \/ (p = Root /\ toc \in disk.there)
<1>1. Root \in Nodes /\ files \in Seq(Nodes)
  <2>1. Root \in Nodes
    BY DEF Root, Nodes
  <2>2. files \in Seq(Paths) /\ Paths \subseteq Nodes
    BY DEF Typed, Nodes
  <2>3. QED
    BY <2>1, <2>2
<1>2. CASE toc \in disk.there
  <2>1. PICK r : r = Root
    OBVIOUS
  <2>2. Sources = Append(files, r)
    BY <1>2, <2>1 DEF Sources
  <2>3. /\ DOMAIN Sources = DOMAIN files \cup {Len(files) + 1}
        /\ \A n \in DOMAIN files : Sources[n] = files[n]
        /\ Sources[Len(files) + 1] = r /\ Sources \in Seq(Nodes)
    BY <1>1, <2>1, <2>2, Appended
  <2>4. QED
    BY <1>2, <2>1, <2>3 DEF Listed
<1>3. CASE toc \notin disk.there
  BY <1>1, <1>3 DEF Sources, Listed
<1>4. QED
  BY <1>2, <1>3

(* The uses of a file.                                                      *)
LEMMA UsesTyped ==
  ASSUME NEW p \in Nodes
  PROVE  /\ Uses[p.file] \in Seq(Usage)
         /\ DOMAIN Uses[p.file] = 1 .. Len(Uses[p.file]) /\ Len(Uses[p.file]) \in Nat
<1>1. p.file \in Loadable \cup Tocs
  BY DEF Nodes, Paths
<1>2. Uses[p.file] \in Seq(Usage)
  BY <1>1, MatrixAssumption
<1>3. QED
  BY <1>2

(* There are finitely many uses; each stands in a file that was loaded,     *)
(* and none is left out.                                                    *)
LEMMA UsagesAre ==
  ASSUME Typed, Listed, toc \in Tocs
  PROVE  /\ Usages \in SUBSET (Nat \X Nat) /\ IsFiniteSet(Usages)
         /\ \A l \in Usages : /\ \/ Sources[l[1]] \in Loaded
                                 \/ Sources[l[1]] = Root /\ toc \in disk.there
                              /\ ~Broken(Sources[l[1]])
                              /\ l[2] \in DOMAIN Uses[Sources[l[1]].file]
         /\ \A p : (p \in Loaded \/ (p = Root /\ toc \in disk.there)) /\ ~Broken(p) =>
              \A m \in DOMAIN Uses[p.file] : \E l \in Usages : UseAt(l) = Uses[p.file][m]
<1>1. DOMAIN Sources = 1 .. Len(Sources) /\ Len(Sources) \in Nat
  BY SourcesAre
<1>2. \A n \in DOMAIN Sources : Sources[n] \in Nodes
  BY SourcesAre
<1>3. ASSUME NEW n \in DOMAIN Sources
      PROVE  Analyze(Sources[n]) \in SUBSET Nat /\ IsFiniteSet(Analyze(Sources[n]))
  <2>1. PICK u : u = Uses[Sources[n].file]
    OBVIOUS
  <2>2. DOMAIN u = 1 .. Len(u) /\ Len(u) \in Nat
    BY <1>2, <2>1, UsesTyped
  <2>3. IsFiniteSet(DOMAIN u) /\ DOMAIN u \in SUBSET Nat
    BY <2>2, FS_Interval
  <2>4. Analyze(Sources[n]) = {} \/ Analyze(Sources[n]) = DOMAIN u
    BY <2>1 DEF Analyze
  <2>5. QED
    BY <2>3, <2>4, FS_EmptySet
<1>4. \A l : l \in Usages <=> \E n \in DOMAIN Sources : l \in {n} \X Analyze(Sources[n])
  BY DEF Usages
<1>5. Usages \in SUBSET (Nat \X Nat)
  BY <1>1, <1>3, <1>4
<1>6. IsFiniteSet(Usages)
  <2>0. PICK D : D = DOMAIN Sources
    OBVIOUS
  <2>1. PICK f : f = [n \in D |-> {n} \X Analyze(Sources[n])]
    OBVIOUS
  <2>2. IsFiniteSet({f[n] : n \in D})
    <3>1. IsFiniteSet(D)
      BY <1>1, <2>0, FS_Interval
    <3>2. DOMAIN f = D
      BY <2>1
    <3>3. QED
      BY <3>1, <3>2, ImageIsFinite
  <2>3. ASSUME NEW n \in DOMAIN Sources
        PROVE  IsFiniteSet(f[n])
    BY <1>3, <2>0, <2>1, FS_Singleton, FS_Product
  <2>4. Usages = UNION {f[n] : n \in D}
    BY <2>0, <2>1 DEF Usages
  <2>5. QED
    BY <2>0, <2>2, <2>3, <2>4, FS_UNION
<1>7. ASSUME NEW l \in Usages
      PROVE  /\ \/ Sources[l[1]] \in Loaded
                \/ Sources[l[1]] = Root /\ toc \in disk.there
             /\ ~Broken(Sources[l[1]])
             /\ l[2] \in DOMAIN Uses[Sources[l[1]].file]
  <2>1. PICK n \in DOMAIN Sources : l \in {n} \X Analyze(Sources[n])
    BY <1>4
  <2>2. l[1] = n /\ l[2] \in Analyze(Sources[n])
    BY <2>1
  <2>3. QED
    BY <2>2, SourcesAre DEF Analyze
<1>8. ASSUME NEW p, p \in Loaded \/ (p = Root /\ toc \in disk.there), ~Broken(p),
             NEW m \in DOMAIN Uses[p.file]
      PROVE  \E l \in Usages : UseAt(l) = Uses[p.file][m]
  <2>1. PICK n \in DOMAIN Sources : Sources[n] = p
    BY <1>8, SourcesAre
  <2>2. <<n, m>> \in {n} \X Analyze(Sources[n])
    BY <1>8, <2>1 DEF Analyze
  <2>3. <<n, m>> \in Usages
    BY <1>4, <2>2
  <2>4. UseAt(<<n, m>>) = Uses[p.file][m]
    BY <2>1 DEF UseAt
  <2>5. QED
    BY <2>3, <2>4
<1>9. QED
  BY <1>5, <1>6, <1>7, <1>8

(* The game reaches from the TOC file what was loaded.                      *)
LEMMA ReachIsLoaded ==
  ASSUME ClosureInv, Finished
  PROVE  Reach(toc) = Loaded /\ RootOf(toc) = Root
<1>1. RootOf(toc) = Root
  BY DEF RootOf, Root
<1>2. CASE toc \in disk.there
  <2>1. Roots(toc) = {Root}
    BY <1>1, <1>2 DEF Roots
  <2>2. \A S \in SUBSET Paths : (\A q \in S \cup Roots(toc) : ClosedFor(S, q)) <=> Closed(S)
    BY <2>1 DEF Closed
  <2>3. Closed(Loaded) /\ Loaded \in SUBSET Paths
    <3>1. \A p, i : ~ToBeRead(p, i)
      BY DEF Finished, ToBeRead
    <3>2. QED
      BY <1>2, <3>1 DEF ClosureInv, Covered, Finished, Closed, ClosedFor, Loaded
  <2>4. \A S \in SUBSET Paths : Closed(S) => Loaded \subseteq S
    BY DEF ClosureInv, NothingExtra, Finished
  <2>5. QED
    BY <1>1, <2>2, <2>3, <2>4 DEF Reach
<1>3. CASE toc \notin disk.there
  <2>1. Loaded = {} /\ Roots(toc) = {}
    BY <1>3 DEF ClosureInv, Missing, Finished, Roots
  <2>2. \A p \in Reach(toc) : p \in {}
    BY <2>1 DEF Reach
  <2>3. QED
    BY <1>1, <2>1, <2>2
<1>4. QED
  BY <1>2, <1>3

(* The parts of a result.                                                   *)
LEMMA ResultParts ==
  ASSUME NEW s
  PROVE  /\ ResultWith(s).id = Current.id /\ ResultWith(s).commit = s
         /\ ResultWith(s).files = Range(files)
         /\ ResultWith(s).facts = [l \in SettledUses(s) |-> Fact(s, l)]
         /\ ResultWith(s).valid <=>
              /\ \A n \in DOMAIN diagnostics : diagnostics[n].code \in Warnings
              /\ \A p \in Range(files) : ~Broken(p)
              /\ \A l \in SettledUses(s) : Exists(s, UseAt(l))
<1> DEFINE facts == [l \in SettledUses(s) |-> Fact(s, l)]
           broken == {Diagnostic("lua_parse_failed", At(p, 0)) :
                        p \in {q \in Range(files) : Broken(q)}}
           absent == {Diagnostic("not_found", f.at) : f \in {g \in Range(facts) : ~g.value.exists}}
           found == Range(diagnostics) \cup broken \cup absent
<1>1. /\ ResultWith(s).id = Current.id /\ ResultWith(s).commit = s
      /\ ResultWith(s).files = Range(files)
      /\ ResultWith(s).facts = facts
      /\ ResultWith(s).valid = (Errors(found) = {})
  BY DEF ResultWith, SettledUses
<1>2. Errors(Range(diagnostics)) = {} <=>
        \A n \in DOMAIN diagnostics : diagnostics[n].code \in Warnings
  BY DEF Errors, Range
<1>3. Errors(broken) = {} <=> \A p \in Range(files) : ~Broken(p)
  <2>1. \A o : Diagnostic("lua_parse_failed", o).code \notin Warnings
    BY DEF Diagnostic, Warnings
  <2>2. QED
    BY <2>1 DEF Errors
<1>4. Errors(absent) = {} <=> \A l \in SettledUses(s) : Exists(s, UseAt(l))
  <2>1. \A o : Diagnostic("not_found", o).code \notin Warnings
    BY DEF Diagnostic, Warnings
  <2>2. \A l \in SettledUses(s) : facts[l].value.exists = Exists(s, UseAt(l))
    BY DEF Fact, Value
  <2>3. Errors(absent) = {} <=> \A f \in Range(facts) : f.value.exists
    BY <2>1 DEF Errors
  <2>4. (\A f \in Range(facts) : f.value.exists) <=> \A l \in SettledUses(s) : facts[l].value.exists
    BY DEF Range
  <2>5. QED
    BY <2>2, <2>3, <2>4
<1>5. Errors(found) = {} <=>
        Errors(Range(diagnostics)) = {} /\ Errors(broken) = {} /\ Errors(absent) = {}
  BY DEF Errors
<1>6. QED
  BY <1>1, <1>2, <1>3, <1>4, <1>5

(* The closure has no error exactly when all that was read could be read    *)
(* and every reference leads to a file.                                     *)
LEMMA NoErrors ==
  ASSUME ClosureInv, Finished
  PROVE  (\A n \in DOMAIN diagnostics : diagnostics[n].code \in Warnings) <=>
           /\ toc \in disk.there
           /\ \A p \in Visited :
                /\ p.file \notin disk.torn \cap Readers
                /\ \A i \in Positions(p) : \E q \in Paths : LeadsTo(p, i, q)
<1>1. \A p, i : ~ToBeRead(p, i) /\ ~OnStack(p)
  BY DEF Finished, ToBeRead, OnStack
<1>2. ASSUME \A n \in DOMAIN diagnostics : diagnostics[n].code \in Warnings
      PROVE  /\ toc \in disk.there
             /\ \A p \in Visited :
                  /\ p.file \notin disk.torn \cap Readers
                  /\ \A i \in Positions(p) : \E q \in Paths : LeadsTo(p, i, q)
  <2>1. toc \in disk.there
    BY <1>2 DEF ClosureInv, Missing, Finished
  <2>2. \A o : Reported(o) = {}
    BY <1>2 DEF Reported
  <2>3. AllAnswered /\ EndsReported /\ RecordsRight
    BY <2>1 DEF ClosureInv, Answers, Finished
  <2>4. ASSUME NEW p \in Visited
        PROVE  p.file \notin disk.torn \cap Readers
    BY <1>1, <2>2, <2>3 DEF EndsReported
  <2>5. ASSUME NEW p \in Visited, NEW i \in Positions(p)
        PROVE  \E q \in Paths : LeadsTo(p, i, q)
    <3>1. PICK q : q \in Recorded([in |-> p, at |-> i])
      BY <1>1, <2>2, <2>3 DEF AllAnswered
    <3>2. q \in Paths /\ LeadsTo(p, i, q)
      BY <2>3, <3>1 DEF RecordsRight, Recorded
    <3>3. QED
      BY <3>2
  <2>6. QED
    BY <2>1, <2>4, <2>5
<1>3. ASSUME toc \in disk.there,
             \A p \in Visited :
                  /\ p.file \notin disk.torn \cap Readers
                  /\ \A i \in Positions(p) : \E q \in Paths : LeadsTo(p, i, q),
             NEW n \in DOMAIN diagnostics
      PROVE  diagnostics[n].code \in Warnings
  <2>1. ErrorsRight
    BY <1>3 DEF ClosureInv, Answers, Finished
  <2>2. PICK o : o = diagnostics[n].at
    OBVIOUS
  <2>3. ASSUME diagnostics[n].code \notin Warnings
        PROVE  FALSE
    <3>1. Reported(o) # {}
      BY <2>2, <2>3 DEF Reported
    <3>2. (Past(o) /\ \A q \in Paths : ~LeadsTo(o.in, o.at, q)) \/ End(o)
      BY <2>1, <3>1 DEF ErrorsRight
    <3>3. QED
      BY <1>3, <3>2 DEF Past, End
  <2>4. QED
    BY <2>3
<1>4. QED
  BY <1>2, <1>3

(* A use that the snapshot settles is not missing, in terms of Fine.        *)
LEMMA NotMissing ==
  ASSUME NEW s, NEW u
  PROVE  (Settled(s, u) => Exists(s, u)) <=>
           \/ u.form = "computed"
           \/ Exists(s, u)
           \/ u.form = "candidate"
           \/ u.kind \in {"mixin", "frame-type"}
           \/ \A k \in DOMAIN s : k[1] # u.kind
BY DEF Settled, Proves, CategoryKnown

(* A result is valid when the TOC file and all loaded files are fine.       *)
LEMMA ValidIsFine ==
  ASSUME ClosureInv, Listed, Finished, NEW s
  PROVE  ResultWith(s).valid <=>
           toc \in disk.there /\ \A p \in Loaded \cup {Root} : Fine(p, s)
<1>1. Typed /\ toc \in Tocs
  BY DEF ClosureInv, Typed, Finished
<1>2. Range(files) = Loaded
  BY DEF Listed, Range
<1>3. Visited = Loaded \cup {Root}
  BY DEF Visited
<1>4. ~Broken(Root)
  BY <1>1, ClosureDistinct DEF Broken, Root, Loadable
<1>5. disk.torn \subseteq Lua \cup Readers
  BY <1>1, ClosureAssumption DEF Typed
<1>6. /\ ResultWith(s).valid <=>
              /\ \A n \in DOMAIN diagnostics : diagnostics[n].code \in Warnings
              /\ \A p \in Range(files) : ~Broken(p)
              /\ \A l \in SettledUses(s) : Exists(s, UseAt(l))
  BY ResultParts
<1>7. ASSUME toc \in disk.there, \A p \in Visited : ~Broken(p)
      PROVE  (\A l \in SettledUses(s) : Exists(s, UseAt(l))) <=>
               \A p \in Visited : \A m \in DOMAIN Uses[p.file] :
                  Settled(s, Uses[p.file][m]) => Exists(s, Uses[p.file][m])
  <2>1. ASSUME \A l \in SettledUses(s) : Exists(s, UseAt(l)),
               NEW p \in Visited, NEW m \in DOMAIN Uses[p.file], Settled(s, Uses[p.file][m])
        PROVE  Exists(s, Uses[p.file][m])
    <3>1. PICK l \in Usages : UseAt(l) = Uses[p.file][m]
      BY <1>1, <1>3, <1>7, UsagesAre
    <3>2. QED
      BY <2>1, <3>1 DEF SettledUses
  <2>2. ASSUME \A p \in Visited : \A m \in DOMAIN Uses[p.file] :
                  Settled(s, Uses[p.file][m]) => Exists(s, Uses[p.file][m]),
               NEW l \in SettledUses(s)
        PROVE  Exists(s, UseAt(l))
    <3>1. l \in Usages /\ Settled(s, UseAt(l))
      BY DEF SettledUses
    <3>2. Sources[l[1]] \in Visited /\ l[2] \in DOMAIN Uses[Sources[l[1]].file]
      BY <1>1, <1>3, <3>1, UsagesAre
    <3>3. QED
      BY <2>2, <3>1, <3>2 DEF UseAt
  <2>3. QED
    BY <2>1, <2>2
<1>8. \A p \in Visited : Fine(p, s) <=>
        /\ p.file \notin disk.torn \cap Readers
        /\ \A i \in Positions(p) : \E q \in Paths : LeadsTo(p, i, q)
        /\ ~Broken(p)
        /\ \A m \in DOMAIN Uses[p.file] : Settled(s, Uses[p.file][m]) => Exists(s, Uses[p.file][m])
  <2>1. SUFFICES ASSUME NEW p \in Visited
                 PROVE  Fine(p, s) <=>
        /\ p.file \notin disk.torn \cap Readers
        /\ \A i \in Positions(p) : \E q \in Paths : LeadsTo(p, i, q)
        /\ ~Broken(p)
        /\ \A m \in DOMAIN Uses[p.file] : Settled(s, Uses[p.file][m]) => Exists(s, Uses[p.file][m])
    OBVIOUS
  <2>2. p.file \notin disk.torn <=> p.file \notin disk.torn \cap Readers /\ ~Broken(p)
    BY <1>5 DEF Broken
  <2>3. QED
    BY <2>2, NotMissing DEF Fine
<1>9. QED
  BY <1>2, <1>3, <1>4, <1>6, <1>7, <1>8, NoErrors

(* What the files fs use.                                                   *)
UsedIn(fs) == UNION {Range(Uses[p.file]) : p \in {q \in fs : ~Broken(q)}}

(* The fact l of the result r is what its snapshot says of the use u.       *)
Said(r, l, u) ==
  /\ r.facts[l].kind = u.kind /\ r.facts[l].name = u.name
  /\ r.facts[l].value = Value(r.commit, u)

(* r is the result for the TOC file t.                                      *)
Right(r, t) ==
  /\ r.files = Reach(t)
  /\ r.valid <=> t \in disk.there /\ \A p \in Reach(t) \cup {RootOf(t)} : Fine(p, r.commit)
  /\ DOMAIN r.facts \in SUBSET (Nat \X Nat) /\ IsFiniteSet(DOMAIN r.facts)
  /\ \A l \in DOMAIN r.facts :
       \/ r.facts[l].kind = "interface"
       \/ \E u \in UsedIn(r.files) : Settled(r.commit, u) /\ Said(r, l, u)
  /\ \A u \in UsedIn(r.files) : Settled(r.commit, u) =>
       \E l \in DOMAIN r.facts : Said(r, l, u)

(* The result of Lookup is the one for the TOC file.                        *)
LEMMA ResultIsRight ==
  ASSUME ClosureInv, Listed, Finished, NEW s, NEW r, r = ResultWith(s)
  PROVE  Right(r, toc) /\ r.id = Current.id
<1>1. Typed /\ toc \in Tocs
  BY DEF ClosureInv, Typed, Finished
<1>2. Range(files) = Loaded
  BY DEF Listed, Range
<1>3. /\ r.id = Current.id /\ r.commit = s /\ r.files = Loaded
      /\ r.facts = [l \in SettledUses(s) |-> Fact(s, l)]
  BY <1>2, ResultParts
<1>4. r.valid <=> toc \in disk.there /\ \A p \in Loaded \cup {Root} : Fine(p, s)
  BY ValidIsFine
<1>5. Reach(toc) = Loaded /\ RootOf(toc) = Root
  BY ReachIsLoaded
<1>6. DOMAIN r.facts = SettledUses(s) /\ SettledUses(s) \subseteq Usages
  BY <1>3 DEF SettledUses
<1>7. DOMAIN r.facts \in SUBSET (Nat \X Nat) /\ IsFiniteSet(DOMAIN r.facts)
  BY <1>1, <1>6, UsagesAre, FS_Subset
<1>8. \A l \in SettledUses(s) : Said(r, l, UseAt(l))
  BY <1>3 DEF Said, Fact
<1>9. ASSUME NEW l \in DOMAIN r.facts
      PROVE  \/ r.facts[l].kind = "interface"
             \/ \E u \in UsedIn(r.files) : Settled(r.commit, u) /\ Said(r, l, u)
  <2>1. l \in Usages /\ Settled(s, UseAt(l)) /\ Said(r, l, UseAt(l))
    BY <1>6, <1>8, <1>9 DEF SettledUses
  <2>2. PICK p : p = Sources[l[1]]
    OBVIOUS
  <2>3. /\ p \in Loaded \/ p = Root
        /\ ~Broken(p) /\ l[2] \in DOMAIN Uses[p.file] /\ UseAt(l) = Uses[p.file][l[2]]
    BY <1>1, <2>1, <2>2, UsagesAre DEF UseAt
  <2>4. CASE p \in Loaded
    <3>1. UseAt(l) \in Range(Uses[p.file])
      BY <2>3 DEF Range
    <3>2. UseAt(l) \in UsedIn(r.files)
      BY <1>3, <2>3, <2>4, <3>1 DEF UsedIn
    <3>3. QED
      BY <1>3, <2>1, <3>2
  <2>5. CASE p = Root
    <3>1. p.file = toc
      BY <2>5 DEF Root
    <3>2. UseAt(l).kind = "interface"
      BY <1>1, <2>3, <3>1, MatrixAssumption
    <3>3. QED
      BY <2>1, <3>2 DEF Said
  <2>6. QED
    BY <2>3, <2>4, <2>5
<1>10. ASSUME NEW u \in UsedIn(r.files), Settled(s, u)
       PROVE  \E l \in DOMAIN r.facts : Said(r, l, u)
  <2>1. PICK p \in Loaded : ~Broken(p) /\ u \in Range(Uses[p.file])
    BY <1>3 DEF UsedIn
  <2>2. PICK m \in DOMAIN Uses[p.file] : u = Uses[p.file][m]
    BY <2>1 DEF Range
  <2>3. PICK l \in Usages : UseAt(l) = u
    BY <1>1, <2>1, <2>2, UsagesAre
  <2>4. l \in SettledUses(s)
    BY <1>10, <2>3 DEF SettledUses
  <2>5. QED
    BY <1>6, <1>8, <2>3, <2>4
<1>11. QED
  BY <1>3, <1>4, <1>5, <1>7, <1>9, <1>10 DEF Right

(* A result stays right, whatever is loaded next.                           *)
LEMMA RightStays ==
  ASSUME UNCHANGED disk, NEW r, NEW t
  PROVE  Right(r, t)' = Right(r, t)
<1>1. \A p : Broken(p)' = Broken(p)
  BY DEF Broken
<1>2. \A S, p : ClosedFor(S, p)' = ClosedFor(S, p)
  BY SameDisk
<1>3. \A p : Positions(p)' = Positions(p)
  BY SameDisk
<1>4. \A p, i, q : LeadsTo(p, i, q)' = LeadsTo(p, i, q)
  BY SameDisk
<1>5. Roots(t)' = Roots(t)
  BY DEF Roots
<1>6. Reach(t)' = Reach(t)
  BY <1>2, <1>5 DEF Reach
<1>7. \A p, s : Fine(p, s)' = Fine(p, s)
  BY <1>3, <1>4 DEF Fine
<1>8. \A fs : UsedIn(fs)' = UsedIn(fs)
  BY <1>1 DEF UsedIn
<1>9. QED
  BY <1>6, <1>7, <1>8 DEF Right

(***************************************************************************)
(* The command: every result is that of its target, under its identifier.   *)
(***************************************************************************)
MatrixInv ==
  /\ config \in Seq(Entry)
  /\ \E S : results \in Seq(S)
  /\ Len(results) <= Len(config)
  /\ phase = "load" => Len(results) < Len(config) /\ Acceptable /\ toc = Current.toc
  /\ \A i \in DOMAIN results : results[i].id = config[i].id /\ Right(results[i], config[i].toc)
  /\ \A i, j \in DOMAIN results : results[i].id = results[j].id => i = j
  /\ phase = "done" => Len(results) = Len(config) /\ output = <<Summary>>

(* The target that is being validated.                                      *)
LEMMA CurrentIsEntry ==
  ASSUME MatrixInv, Len(results) < Len(config)
  PROVE  /\ Len(results) + 1 \in DOMAIN config /\ Current \in Entry
         /\ Current.toc \in Tocs /\ Current.toc # NoToc
<1>1. Len(results) \in Nat
  BY DEF MatrixInv
<1>2. Len(results) + 1 \in DOMAIN config
  BY <1>1 DEF MatrixInv
<1>3. Current \in Entry
  BY <1>2 DEF MatrixInv, Current
<1>4. QED
  BY <1>2, <1>3, NoTocAssumption DEF Entry

(* A step of the command is a step of the load closure, or leaves it        *)
(* alone.                                                                   *)
LEMMA MatrixIsClosure ==
  ASSUME MatrixInv, [MatrixStep]_matrixVars
  PROVE  [Next]_closureVars
<1>1. CASE SelectTarget
  BY <1>1, CurrentIsEntry DEF SelectTarget, Entered, Next
<1>2. CASE LoadFiles
  BY <1>2 DEF LoadFiles, Next
<1>3. CASE ~SelectTarget /\ ~LoadFiles
  BY <1>3 DEF MatrixStep, RejectConfig, SelectFails, LookupFails, Lookup, MergeMatrix, EndCommand,
              matrixVars
<1>4. QED
  BY <1>1, <1>2, <1>3

(* The steps that add no result.                                            *)
LEMMA MatrixStays ==
  ASSUME MatrixInv, UNCHANGED <<disk, config, results>>, phase' # "load",
         phase' = "done" => Len(results) = Len(config) /\ output' = <<Summary>>
  PROVE  MatrixInv'
<1>1. \A i \in DOMAIN results : Right(results[i], config[i].toc)'
  BY RightStays DEF MatrixInv
<1>2. Summary' = Summary
  <2>1. Seen' = Seen /\ All' = All /\ \A id : ResultOf(id)' = ResultOf(id)
    BY DEF Seen, All, ResultOf
  <2>2. \A g, n : Agreed(g, n)' = Agreed(g, n)
    BY <2>1 DEF Agreed
  <2>3. \A g : Mentioned(g)' = Mentioned(g)
    BY <2>1 DEF Mentioned
  <2>4. \A g : MergeFacts(g)' = MergeFacts(g)
    BY <2>1, <2>2, <2>3 DEF MergeFacts
  <2>5. \A d : MergeKey(d)' = MergeKey(d)
    BY DEF MergeKey, Message, Line, Reference, Says
  <2>6. \A id : Keys(ResultOf(id).diagnostics)' = Keys(ResultOf(id).diagnostics)
    BY <2>1, <2>5 DEF Keys
  <2>7. QED
    BY <2>1, <2>4, <2>6 DEF Summary
<1>3. QED
  BY <1>1, <1>2 DEF MatrixInv

LEMMA MatrixInvStep ==
  ASSUME ClosureInv, Listed, MatrixInv, [MatrixStep]_matrixVars
  PROVE  MatrixInv'
<1>1. /\ config \in Seq(Entry) /\ DOMAIN results = 1 .. Len(results) /\ Len(results) \in Nat
      /\ Typed
  BY DEF MatrixInv, ClosureInv
<1>2. CASE RejectConfig \/ SelectFails \/ LookupFails
  BY <1>2, MatrixStays DEF RejectConfig, SelectFails, LookupFails, EndCommand, closureVars
<1>3. CASE SelectTarget
  <2>1. /\ UNCHANGED <<disk, config, results>> /\ phase' = "load" /\ toc' = Current.toc
        /\ Len(results) < Len(config) /\ Acceptable
    BY <1>3 DEF SelectTarget, BuildClosure, Entered
  <2>2. \A i \in DOMAIN results : Right(results[i], config[i].toc)'
    BY <2>1, RightStays DEF MatrixInv
  <2>3. Current' = Current /\ Acceptable' = Acceptable
    BY <2>1 DEF Current, Acceptable, Seen
  <2>4. QED
    BY <2>1, <2>2, <2>3 DEF MatrixInv
<1>4. CASE LoadFiles
  <2>1. Loading /\ UNCHANGED <<config, phase, results, output>> /\ phase = "load"
    BY <1>4 DEF LoadFiles
  <2>2. UNCHANGED <<disk, toc>>
    BY <1>1, <2>1, StepKinds
  <2>3. \A i \in DOMAIN results : Right(results[i], config[i].toc)'
    BY <2>1, <2>2, RightStays DEF MatrixInv
  <2>4. Current' = Current /\ Acceptable' = Acceptable
    BY <2>1 DEF Current, Acceptable, Seen
  <2>5. QED
    BY <2>1, <2>2, <2>3, <2>4 DEF MatrixInv
<1>5. ASSUME NEW s \in Snapshots, Lookup(s)
      PROVE  MatrixInv'
  <2>1. PICK r : r = ResultWith(s)
    OBVIOUS
  <2>2. PICK n : n = Len(results) + 1
    OBVIOUS
  <2>3. /\ phase = "load" /\ stack = <<>> /\ results' = Append(results, r)
        /\ UNCHANGED <<disk, config>> /\ phase' = "select"
    BY <1>5, <2>1 DEF Lookup, Validated, closureVars
  <2>4. /\ Len(results) < Len(config) /\ Acceptable /\ toc = Current.toc
        /\ n \in DOMAIN config /\ Current = config[n] /\ Current.toc # NoToc
    BY <2>2, <2>3, CurrentIsEntry DEF MatrixInv, Current
  <2>5. Finished
    BY <2>3, <2>4 DEF Finished
  <2>6. Right(r, config[n].toc) /\ r.id = config[n].id
    BY <2>1, <2>4, <2>5, ResultIsRight
  <2>7. PICK S : results \in Seq(S)
    BY DEF MatrixInv
  <2>8. /\ results' \in Seq(S \cup {r}) /\ Len(results') = n
        /\ DOMAIN results' = DOMAIN results \cup {n}
        /\ results'[n] = r
        /\ \A i \in DOMAIN results : results'[i] = results[i]
    <3>1. results \in Seq(S \cup {r})
      BY <2>7
    <3>2. results' \in Seq(S \cup {r})
      BY <2>3, <3>1
    <3>3. QED
      BY <2>2, <2>3, <3>1, <3>2, Appended
  <2>9. n \notin DOMAIN results /\ n <= Len(config)
    BY <1>1, <2>2, <2>4
  <2>10. \A i \in DOMAIN results : results[i].id # r.id
    BY <2>4, <2>6 DEF Acceptable, Seen
  <2>11. \A i \in DOMAIN results' :
           results'[i].id = config[i].id /\ Right(results'[i], config[i].toc)
    BY <2>6, <2>8 DEF MatrixInv
  <2>12. \A i \in DOMAIN results' : Right(results[i], config[i].toc)'
    <3>1. SUFFICES ASSUME NEW i \in DOMAIN results'
                   PROVE  Right(results[i], config[i].toc)'
      OBVIOUS
    <3>2. PICK q, t : q = results'[i] /\ t = config[i].toc
      OBVIOUS
    <3>3. Right(q, t)
      BY <2>11, <3>2
    <3>4. Right(q, t)'
      BY <2>3, <3>3, RightStays
    <3>5. QED
      BY <2>3, <3>2, <3>4
  <2>13. \A i, j \in DOMAIN results' : results'[i].id = results'[j].id => i = j
    BY <2>8, <2>10 DEF MatrixInv
  <2>14. QED
    BY <2>3, <2>8, <2>9, <2>11, <2>12, <2>13 DEF MatrixInv
<1>6. CASE MergeMatrix
  <2>1. /\ UNCHANGED <<disk, config, results>> /\ phase' = "done"
        /\ Len(results) = Len(config) /\ output' = <<Summary>>
    BY <1>6 DEF MergeMatrix, closureVars
  <2>2. QED
    BY <2>1, MatrixStays
<1>7. CASE UNCHANGED matrixVars
  <2>1. UNCHANGED <<disk, toc, config, phase, results, output>>
    BY <1>7 DEF matrixVars, closureVars
  <2>2. CASE phase = "load"
    <3>1. \A i \in DOMAIN results : Right(results[i], config[i].toc)'
      BY <2>1, RightStays DEF MatrixInv
    <3>2. Current' = Current /\ Acceptable' = Acceptable
      BY <2>1 DEF Current, Acceptable, Seen
    <3>3. QED
      BY <2>1, <2>2, <3>1, <3>2 DEF MatrixInv
  <2>3. CASE phase # "load"
    BY <2>1, <2>3, MatrixStays DEF MatrixInv
  <2>4. QED
    BY <2>2, <2>3
<1>8. QED
  BY <1>2, <1>3, <1>4, <1>5, <1>6, <1>7 DEF MatrixStep

LEMMA MatrixInitial == MatrixInit => Init /\ ClosureInv /\ Listed /\ OrderInv /\ MatrixInv
<1> SUFFICES ASSUME MatrixInit
             PROVE  Init /\ ClosureInv /\ Listed /\ OrderInv /\ MatrixInv
  OBVIOUS
<1>1. Init
  BY DEF MatrixInit
<1>2. config \in Seq(Entry)
  BY MatrixAssumption DEF MatrixInit
<1>3. phase = "select" /\ results = <<>>
  BY DEF MatrixInit
<1>4. results \in Seq({}) /\ Len(results) = 0 /\ DOMAIN results = {} /\ Len(config) >= 0
  BY <1>2, <1>3
<1>5. MatrixInv
  BY <1>2, <1>3, <1>4 DEF MatrixInv
<1>6. QED
  BY <1>1, <1>5, ClosureInit, ListedInit, OrderInit

(* The command runs load closures one after the other (each of its          *)
(* behaviours is one of LoadClosure), and keeps the results of its targets  *)
(* under their identifiers, each exact for what its TOC file reaches        *)
(* (app/validation.go, validator/validate.go).                              *)
THEOREM MatrixInvariant ==
  MatrixSpec => Spec /\ [](ClosureInv /\ Listed /\ OrderInv /\ MatrixInv)
<1> DEFINE Inv == ClosureInv /\ Listed /\ OrderInv /\ MatrixInv
<1>1. MatrixInit => Init /\ Inv
  BY MatrixInitial
<1>2. Inv /\ [MatrixStep]_matrixVars => [Next]_closureVars
  BY MatrixIsClosure
<1>3. Inv /\ [MatrixStep]_matrixVars => Inv'
  <2> SUFFICES ASSUME Inv, [MatrixStep]_matrixVars
               PROVE  Inv'
    OBVIOUS
  <2>1. [Next]_closureVars
    BY <1>2
  <2>2. ClosureInv' /\ Listed'
    BY <2>1, ClosureStep, ListedStep DEF ClosureInv
  <2>3. OrderInv'
    BY <2>1, <2>2, OrderStep
  <2>4. MatrixInv'
    BY MatrixInvStep
  <2>5. QED
    BY <2>2, <2>3, <2>4
<1>4. QED
  <2> HIDE DEF Inv
  <2>1. MatrixSpec => []Inv /\ Spec
    BY <1>1, <1>2, <1>3, PTL DEF MatrixSpec, Spec
  <2>2. QED
    BY <2>1, PTL DEF Inv

(* Every result is found under the identifier of its target.                *)
LEMMA FoundById ==
  ASSUME MatrixInv, Len(results) = Len(config)
  PROVE  /\ DOMAIN results = DOMAIN config
         /\ \A i \in DOMAIN config : /\ results[i].id = config[i].id
                                     /\ config[i].id \in Seen
                                     /\ ResultOf(config[i].id) = results[i]
         /\ All = {results[i] : i \in DOMAIN config}
<1>1. DOMAIN results = DOMAIN config /\ DOMAIN config \subseteq Nat
  BY DEF MatrixInv
<1>2. ASSUME NEW i \in DOMAIN config
      PROVE  /\ results[i].id = config[i].id
             /\ config[i].id \in Seen
             /\ ResultOf(config[i].id) = results[i]
  <2>1. results[i].id = config[i].id
    BY <1>1 DEF MatrixInv
  <2>2. {j \in DOMAIN results : results[j].id = config[i].id} = {i}
    BY <1>1, <2>1 DEF MatrixInv
  <2>3. Max({i}) = i
    BY <1>1, MaxOfOne
  <2>4. QED
    BY <1>1, <2>1, <2>2, <2>3 DEF ResultOf, Seen
<1>3. Seen = {config[i].id : i \in DOMAIN config}
  BY <1>1, <1>2 DEF Seen
<1>4. QED
  BY <1>1, <1>2, <1>3 DEF All

(* The matrix is valid when all results are.                                *)
LEMMA InvVerdict == MatrixInv => VerdictExact
<1> SUFFICES ASSUME MatrixInv, phase = "done"
             PROVE  merged.valid <=>
       \A i \in DOMAIN config :
         /\ config[i].toc \in disk.there
         /\ \A p \in Reach(config[i].toc) \cup {RootOf(config[i].toc)} :
              Fine(p, results[i].commit)
  BY DEF VerdictExact
<1>1. Len(results) = Len(config) /\ merged = Summary
  BY DEF MatrixInv, merged
<1>2. merged.valid <=> \A i \in DOMAIN results : results[i].valid
  BY <1>1 DEF Summary, Range
<1>3. DOMAIN results = DOMAIN config
  BY <1>1, FoundById
<1>4. \A i \in DOMAIN results : results[i].valid <=>
         /\ config[i].toc \in disk.there
         /\ \A p \in Reach(config[i].toc) \cup {RootOf(config[i].toc)} :
              Fine(p, results[i].commit)
  BY DEF MatrixInv, Right
<1>5. QED
  BY <1>2, <1>3, <1>4

(* What is shared and what is beyond that are together what there is.       *)
LEMMA ShownIsAll ==
  ASSUME NEW by, NEW id \in DOMAIN by
  PROVE  Shown(MergeSets(by), id) = by[id]
BY DEF Shown, MergeSets, Range

(* Every target is shown as it is in its result.                            *)
LEMMA InvCovers == MatrixInv => SummaryCovers
<1> SUFFICES ASSUME MatrixInv, phase = "done"
             PROVE  /\ Len(results) = Len(config)
                    /\ \A i \in DOMAIN config :
                         LET id == config[i].id
                         IN  /\ results[i].id = id
                             /\ Shown(merged.files, id) = Reach(config[i].toc)
                             /\ Shown(merged.diagnostics, id) = Keys(results[i].diagnostics)
                             /\ merged.unresolved[id] = results[i].unresolved
  BY DEF SummaryCovers
<1>1. Len(results) = Len(config) /\ merged = Summary
  BY DEF MatrixInv, merged
<1>2. ASSUME NEW i \in DOMAIN config, NEW id, id = config[i].id
      PROVE  /\ results[i].id = id
             /\ Shown(merged.files, id) = Reach(config[i].toc)
             /\ Shown(merged.diagnostics, id) = Keys(results[i].diagnostics)
             /\ merged.unresolved[id] = results[i].unresolved
  <2>1. id \in Seen /\ ResultOf(id) = results[i] /\ results[i].id = id /\ i \in DOMAIN results
    BY <1>1, <1>2, FoundById
  <2>2. results[i].files = Reach(config[i].toc)
    BY <2>1 DEF MatrixInv, Right
  <2>3. Shown(merged.files, id) = results[i].files
    <3>1. PICK by : by = [j \in Seen |-> ResultOf(j).files]
      OBVIOUS
    <3>2. merged.files = MergeSets(by)
      BY <1>1, <3>1 DEF Summary
    <3>3. QED
      BY <2>1, <3>1, <3>2, ShownIsAll
  <2>4. Shown(merged.diagnostics, id) = Keys(results[i].diagnostics)
    <3>1. PICK by : by = [j \in Seen |-> Keys(ResultOf(j).diagnostics)]
      OBVIOUS
    <3>2. merged.diagnostics = MergeSets(by)
      BY <1>1, <3>1 DEF Summary
    <3>3. QED
      BY <2>1, <3>1, <3>2, ShownIsAll
  <2>5. merged.unresolved[id] = results[i].unresolved
    BY <1>1, <2>1 DEF Summary
  <2>6. QED
    BY <2>1, <2>2, <2>3, <2>4, <2>5
<1>3. QED
  BY <1>1, <1>2

(* What a result says of a name is what its target established, if that is  *)
(* one value.                                                               *)
LEMMA SaysEstablished ==
  ASSUME MatrixInv, Len(results) = Len(config), NEW i \in DOMAIN config,
         NEW g \in GroupNames, NEW n, OneKind(g, n)
  PROVE  /\ Observed(results[i], g, n) <=> Established(i, g, n) # {}
         /\ Observed(results[i], g, n) =>
              Established(i, g, n) = {ValueOf(results[i], g, n)}
<1>1. PICK r, t : r = results[i] /\ t = config[i].toc
  OBVIOUS
<1>2. Right(r, t)
  BY <1>1, FoundById DEF MatrixInv
<1>3. Used(i) = UsedIn(r.files)
  BY <1>1 DEF Used, UsedIn
<1>4. "interface" \notin Groups[g]
  BY DEF GroupNames, Groups
<1>5. \A v : v \in Established(i, g, n) <=>
        \E u \in UsedIn(r.files) : /\ u.kind \in Groups[g] /\ u.name = n /\ Settled(r.commit, u)
                                   /\ v = Value(r.commit, u)
  BY <1>1, <1>3 DEF Established
<1>6. \A v, w \in Established(i, g, n) : v = w
  <2>1. SUFFICES ASSUME NEW v \in Established(i, g, n), NEW w \in Established(i, g, n)
                 PROVE  v = w
    OBVIOUS
  <2>2. PICK u \in UsedIn(r.files) : u.kind \in Groups[g] /\ u.name = n /\ v = Value(r.commit, u)
    BY <1>5
  <2>3. PICK x \in UsedIn(r.files) : x.kind \in Groups[g] /\ x.name = n /\ w = Value(r.commit, x)
    BY <1>5
  <2>4. u.kind = x.kind
    BY <1>3, <2>2, <2>3 DEF OneKind
  <2>5. QED
    BY <2>2, <2>3, <2>4 DEF Value, Exists
<1>7. \A l \in FactsOf(r, g, n) : r.facts[l].value \in Established(i, g, n)
  <2>1. SUFFICES ASSUME NEW l \in FactsOf(r, g, n)
                 PROVE  r.facts[l].value \in Established(i, g, n)
    OBVIOUS
  <2>2. l \in DOMAIN r.facts /\ r.facts[l].kind \in Groups[g] /\ r.facts[l].name = n
    BY DEF FactsOf
  <2>3. PICK u \in UsedIn(r.files) : Settled(r.commit, u) /\ Said(r, l, u)
    BY <1>2, <1>4, <2>2 DEF Right
  <2>4. QED
    BY <1>5, <2>2, <2>3 DEF Said
<1>8. Established(i, g, n) # {} => FactsOf(r, g, n) # {}
  <2>1. SUFFICES ASSUME NEW v \in Established(i, g, n)
                 PROVE  FactsOf(r, g, n) # {}
    OBVIOUS
  <2>2. PICK u \in UsedIn(r.files) : u.kind \in Groups[g] /\ u.name = n /\ Settled(r.commit, u)
    BY <1>5
  <2>3. PICK l \in DOMAIN r.facts : Said(r, l, u)
    BY <1>2, <2>2 DEF Right
  <2>4. l \in FactsOf(r, g, n)
    BY <2>2, <2>3 DEF Said, FactsOf
  <2>5. QED
    BY <2>4
<1>9. FactsOf(r, g, n) # {} => ValueOf(r, g, n) \in Established(i, g, n)
  <2>1. SUFFICES ASSUME FactsOf(r, g, n) # {}
                 PROVE  ValueOf(r, g, n) \in Established(i, g, n)
    OBVIOUS
  <2>2. FactsOf(r, g, n) \in SUBSET DOMAIN r.facts
    BY DEF FactsOf
  <2>3. FactsOf(r, g, n) \in SUBSET (Nat \X Nat) /\ IsFiniteSet(FactsOf(r, g, n))
    BY <1>2, <2>2, FS_Subset DEF Right
  <2>4. Last(FactsOf(r, g, n)) \in FactsOf(r, g, n)
    BY <2>1, <2>3, LastIsIn
  <2>5. ValueOf(r, g, n) = r.facts[Last(FactsOf(r, g, n))].value
    BY <2>1 DEF ValueOf, Observed, LastSaid
  <2>6. QED
    BY <1>7, <2>4, <2>5
<1>10. QED
  BY <1>1, <1>6, <1>7, <1>8, <1>9 DEF Observed

(* What the results say is what the targets established.                    *)
LEMMA InvSummary == MatrixInv => SummaryExact
<1> SUFFICES ASSUME MatrixInv, phase = "done", NEW g \in GroupNames, NEW n \in Names, OneKind(g, n)
             PROVE
      /\ n \in merged.facts[g].shared <=>
           \E v \in UNION {Established(i, g, n) : i \in DOMAIN config} :
             \A i \in DOMAIN config : Established(i, g, n) = {v}
      /\ n \in DOMAIN merged.facts[g].differs =>
           \A i \in DOMAIN config :
             Established(i, g, n) \subseteq {merged.facts[g].differs[n][config[i].id]}
  BY DEF SummaryExact
<1>1. Len(results) = Len(config) /\ merged = Summary
  BY DEF MatrixInv, merged
<1>2. merged.facts[g] = MergeFacts(g)
  BY <1>1 DEF Summary
<1>3. All = {results[i] : i \in DOMAIN config}
  BY <1>1, FoundById
<1>4. \A i \in DOMAIN config :
         /\ Observed(results[i], g, n) <=> Established(i, g, n) # {}
         /\ Observed(results[i], g, n) => Established(i, g, n) = {ValueOf(results[i], g, n)}
  BY <1>1, SaysEstablished
<1>5. n \in Mentioned(g) <=> \E i \in DOMAIN config : Observed(results[i], g, n)
  BY <1>3 DEF Mentioned
<1>6. Agreed(g, n) <=>
        /\ \A i \in DOMAIN config : Observed(results[i], g, n)
        /\ \A i, j \in DOMAIN config : ValueOf(results[i], g, n) = ValueOf(results[j], g, n)
  BY <1>3 DEF Agreed
<1>7. n \in MergeFacts(g).shared <=> n \in Mentioned(g) /\ Agreed(g, n)
  BY DEF MergeFacts
<1>8. n \in MergeFacts(g).shared <=>
           \E v \in UNION {Established(i, g, n) : i \in DOMAIN config} :
             \A i \in DOMAIN config : Established(i, g, n) = {v}
  <2>1. ASSUME n \in MergeFacts(g).shared
        PROVE  \E v \in UNION {Established(i, g, n) : i \in DOMAIN config} :
                 \A i \in DOMAIN config : Established(i, g, n) = {v}
    <3>1. PICK j \in DOMAIN config : Observed(results[j], g, n)
      BY <1>5, <1>7, <2>1
    <3>2. PICK v : v = ValueOf(results[j], g, n)
      OBVIOUS
    <3>3. \A i \in DOMAIN config : Established(i, g, n) = {v}
      BY <1>4, <1>6, <1>7, <2>1, <3>2
    <3>4. v \in UNION {Established(i, g, n) : i \in DOMAIN config}
      BY <3>3
    <3>5. QED
      BY <3>3, <3>4
  <2>2. ASSUME NEW v \in UNION {Established(i, g, n) : i \in DOMAIN config},
               \A i \in DOMAIN config : Established(i, g, n) = {v}
        PROVE  n \in MergeFacts(g).shared
    <3>1. PICK j \in DOMAIN config : TRUE
      OBVIOUS
    <3>2. \A i \in DOMAIN config : Observed(results[i], g, n) /\ ValueOf(results[i], g, n) = v
      <4>1. SUFFICES ASSUME NEW i \in DOMAIN config
                     PROVE  Observed(results[i], g, n) /\ ValueOf(results[i], g, n) = v
        OBVIOUS
      <4>2. Established(i, g, n) = {v}
        BY <2>2
      <4>3. Observed(results[i], g, n)
        BY <1>4, <4>2
      <4>4. {v} = {ValueOf(results[i], g, n)}
        BY <1>4, <4>2, <4>3
      <4>5. QED
        BY <4>3, <4>4
    <3>3. QED
      BY <1>5, <1>6, <1>7, <3>1, <3>2
  <2>3. QED
    BY <2>1, <2>2
<1>9. ASSUME n \in DOMAIN MergeFacts(g).differs, NEW i \in DOMAIN config
      PROVE  Established(i, g, n) \subseteq {MergeFacts(g).differs[n][config[i].id]}
  <2>1. config[i].id \in Seen /\ ResultOf(config[i].id) = results[i]
    BY <1>1, FoundById
  <2>2. MergeFacts(g).differs[n][config[i].id] = ValueOf(results[i], g, n)
    BY <1>9, <2>1 DEF MergeFacts
  <2>3. QED
    BY <1>4, <2>2
<1>10. QED
  BY <1>2, <1>8, <1>9

(* All that was shown for the load closure holds in the command.            *)
THEOREM ClosureInMatrix ==
  MatrixSpec => /\ [](ClosureExact /\ EveryReferenceAnswered /\ CyclesFound /\ LoadOrder)
                /\ ReadingEnds
BY MatrixInvariant, InvExact, InvAnswers, InvCycles, InvOrder, ReadingComesToAnEnd, PTL

(* The matrix is valid exactly when the TOC file of every target and all    *)
(* files it reaches are fine with the snapshot of that target               *)
(* (validate.go, matrix.go MergeMatrix).                                    *)
THEOREM VerdictIsExact == MatrixSpec => []VerdictExact
BY MatrixInvariant, InvVerdict, PTL

(* A name is merged as common exactly when every target established the     *)
(* same of it, and a difference shows what each of them established         *)
(* (matrix.go mergeFacts).                                                  *)
THEOREM SummaryIsExact == MatrixSpec => []SummaryExact
BY MatrixInvariant, InvSummary, PTL

(* The summary shows, under the identifier of every configured target, the  *)
(* files it reaches, each of its findings by its merge key (and nothing     *)
(* else), and what it left unresolved (matrix.go mergeFiles,                *)
(* mergeDiagnostics, diagnosticKey).                                        *)
THEOREM SummaryCoversAll == MatrixSpec => []SummaryCovers
BY MatrixInvariant, InvCovers, PTL
================================================================================
