------------------------------ MODULE LoadClosure ------------------------------
(***************************************************************************)
(* The load closure of an AddOn (internal/validator/closure.go): the files *)
(* the game loads for a TOC file, in the order in which it loads them.     *)
(*                                                                         *)
(* The TOC file and the XML files name other files.  BuildClosure reads    *)
(* them depth first: a reference either cannot be resolved, or leads to a  *)
(* file that is known (a duplicate, or a cycle if that file is being read) *)
(* or to a new one, which is entered where it is named.                    *)
(*                                                                         *)
(* Abstractions.  A file stands for its path up to letter case.  Reading a *)
(* file yields the sequence of its references; a torn file ends, after     *)
(* these, with a syntax error (XML) or a line that is too long (TOC).  A   *)
(* torn Lua file does not parse; nothing is read from Lua files here.      *)
(* References that resolve to no loadable file carry their diagnostic.     *)
(* A symbolic link to a parent directory gives a file another path each    *)
(* time it is followed: paths are files with the number of links on the    *)
(* way, and the operating system resolves at most MaxLinks of them.  Which *)
(* links they are is left out: paths through different links are one path  *)
(* here, while in the code the number of paths, and of files loaded, grows *)
(* exponentially with the links followed where there is more than one.     *)
(***************************************************************************)
EXTENDS Naturals, Sequences, FiniteSets

CONSTANTS Lua, Xml, Tocs,  \* the files of the AddOn directory
          Rejected,        \* diagnostics of references that lead to no file
          MaxLinks,        \* links the operating system follows in one path
          Disks            \* the contents of the directory to be considered

Loadable == Lua \cup Xml
Readers  == Xml \cup Tocs

References == [to : Loadable \cup Rejected, link : BOOLEAN]

ASSUME ClosureAssumption ==
  /\ IsFiniteSet(Loadable)
  /\ MaxLinks \in Nat
  /\ Disks \subseteq [says : [Readers -> Seq(References)],
                      torn : SUBSET (Lua \cup Readers), there : SUBSET Tocs]

(* Warnings do not make a result invalid; all other diagnostics are errors. *)
Warnings == {"circular_load_reference", "duplicate_load_reference"}

ASSUME ClosureDistinct ==
  /\ Lua \cap Xml = {}
  /\ Loadable \cap Tocs = {}
  /\ Loadable \cap Rejected = {}
  /\ Rejected \cap Warnings = {}

VARIABLES
  disk,        \* the AddOn directory; nobody changes it meanwhile
  toc,         \* the TOC file the closure is built for, or NoToc
  stack,       \* the files that are being read and the reference each is at
  files,       \* result.Files: the loaded files in load order
  loadedBy,    \* the references to each loaded file, in the order they were read
  diagnostics  \* result.Diagnostics

closureVars == <<disk, toc, stack, files, loadedBy, diagnostics>>

NoToc == "none"

ASSUME NoTocAssumption == NoToc \notin Tocs

Paths == [file : Loadable, links : 0 .. MaxLinks]
Root  == [file |-> toc, links |-> 0]

(* The path a reference in the file `from` resolves to, relative to the    *)
(* directory of that file.  References in which `..` follows a link are    *)
(* left out: path.Clean removes both, so that the path has one link less.  *)
Resolve(from, r) == [file |-> r.to, links |-> from.links + IF r.link THEN 1 ELSE 0]

Init ==
  /\ disk \in Disks
  /\ toc = NoToc
  /\ stack = <<>>
  /\ files = <<>>
  /\ loadedBy = [p \in Paths |-> <<>>]
  /\ diagnostics = <<>>

(* A reference is the file it stands in and its position there             *)
(* (LoadSource); position 0 is the request for the TOC file itself.        *)
Top == stack[Len(stack)]
Says(p) == disk.says[p.file]
Reference(o) == Says(o.in)[o.at]

Pending  == stack # <<>> /\ Top.at <= Len(Says(Top.in))
Advanced == [stack EXCEPT ![Len(stack)].at = @ + 1]
Target   == Resolve(Top.in, Reference(Top))

(* The XML files that are being read (b.active).                           *)
Active == {stack[i].in : i \in DOMAIN stack}

Diagnostic(code, o) == [code |-> code, at |-> o]
Report(code, o) == diagnostics' = Append(diagnostics, Diagnostic(code, o))

-----------------------------------------------------------------------------
BuildClosure(t) ==
  /\ stack = <<>>
  /\ toc' = t
  /\ files' = <<>>
  /\ loadedBy' = [p \in Paths |-> <<>>]
  /\ LET request == [in |-> [file |-> t, links |-> 0], at |-> 0]
     IN  IF t \in disk.there
         THEN stack' = <<[request EXCEPT !.at = 1]>> /\ diagnostics' = <<>>
         ELSE stack' = <<>> /\ diagnostics' = <<Diagnostic("load_file_missing", request)>>
  /\ UNCHANGED disk

(* Mutant: the rest of a file is given up at a reference that leads to no  *)
(* file.                                                                   *)
LoadRejectedGivesUp ==
  /\ Pending
  /\ Reference(Top).to \in Rejected
  /\ Report(Reference(Top).to, Top)
  /\ stack' = SubSeq(stack, 1, Len(stack) - 1)
  /\ UNCHANGED <<disk, toc, files, loadedBy>>

(* load: the reference escapes the AddOn, is missing, unreadable or of     *)
(* another type.                                                           *)
LoadRejected ==
  /\ Pending
  /\ Reference(Top).to \in Rejected
  /\ Report(Reference(Top).to, Top)
  /\ stack' = Advanced
  /\ UNCHANGED <<disk, toc, files, loadedBy>>

LoadTooManyLinks ==
  /\ Pending
  /\ Reference(Top).to \in Loadable
  /\ Target.links > MaxLinks
  /\ Report("load_file_unreadable", Top)
  /\ stack' = Advanced
  /\ UNCHANGED <<disk, toc, files, loadedBy>>

Resolved == Pending /\ Reference(Top).to \in Loadable /\ Target.links <= MaxLinks
Known    == loadedBy[Target] # <<>>
RecordSource == loadedBy' = [loadedBy EXCEPT ![Target] = Append(@, Top)]

(* Mutant: a known file is only noted, not examined for a cycle.           *)
WarningAlwaysDuplicate == "duplicate_load_reference"

Warning ==
  IF Target \in Active THEN "circular_load_reference" ELSE "duplicate_load_reference"

LoadKnown ==
  /\ Resolved
  /\ Known
  /\ RecordSource
  /\ Report(Warning, Top)
  /\ stack' = Advanced
  /\ UNCHANGED <<disk, toc, files>>

LoadLua ==
  /\ Resolved
  /\ ~Known
  /\ Target.file \in Lua
  /\ RecordSource
  /\ files' = Append(files, Target)
  /\ stack' = Advanced
  /\ UNCHANGED <<disk, toc, diagnostics>>

(* Mutant: an XML file is put in a queue and read after the current one.   *)
LoadXmlQueued ==
  /\ Resolved
  /\ ~Known
  /\ Target.file \in Xml
  /\ RecordSource
  /\ files' = Append(files, Target)
  /\ stack' = <<[in |-> Target, at |-> 1]>> \o Advanced
  /\ UNCHANGED <<disk, toc, diagnostics>>

(* An XML file is read before the reader goes on to its next reference.    *)
LoadXml ==
  /\ Resolved
  /\ ~Known
  /\ Target.file \in Xml
  /\ RecordSource
  /\ files' = Append(files, Target)
  /\ stack' = Append(Advanced, [in |-> Target, at |-> 1])
  /\ UNCHANGED <<disk, toc, diagnostics>>

(* Mutant: a read error ends the file as if it were its end.               *)
EndFileSilently ==
  /\ stack # <<>>
  /\ Top.at > Len(Says(Top.in))
  /\ stack' = SubSeq(stack, 1, Len(stack) - 1)
  /\ UNCHANGED <<disk, toc, files, loadedBy, diagnostics>>

(* Mutant: the reader asks for the next token after an error.              *)
EndFileReadsOn ==
  /\ stack # <<>>
  /\ Top.at > Len(Says(Top.in))
  /\ stack' = IF Top.in.file \in disk.torn THEN stack ELSE SubSeq(stack, 1, Len(stack) - 1)
  /\ UNCHANGED <<disk, toc, files, loadedBy, diagnostics>>

(* The end of a file, or the place where it cannot be read further.        *)
EndFile ==
  /\ stack # <<>>
  /\ Top.at > Len(Says(Top.in))
  /\ IF Top.in.file \in disk.torn
     THEN Report(IF Top.in = Root THEN "load_file_unreadable" ELSE "xml_parse_failed", Top)
     ELSE UNCHANGED diagnostics
  /\ stack' = SubSeq(stack, 1, Len(stack) - 1)
  /\ UNCHANGED <<disk, toc, files, loadedBy>>

Loading ==
  \/ LoadRejected \/ LoadTooManyLinks \/ LoadKnown \/ LoadLua \/ LoadXml \/ EndFile

Next == (\E t \in Tocs : BuildClosure(t)) \/ Loading

Spec == Init /\ [][Next]_closureVars
-----------------------------------------------------------------------------
(* Properties.                                                             *)

Finished == toc # NoToc /\ stack = <<>>

Loaded == {p \in Paths : loadedBy[p] # <<>>}

(* The references in the file p, and the one at position i leads to q.     *)
Positions(p) == IF p.file \in Readers THEN DOMAIN Says(p) ELSE {}
LeadsTo(p, i, q) ==
  /\ Says(p)[i].to \in Loadable
  /\ Resolve(p, Says(p)[i]) = q

(* S contains, with a file, every file it names (as far as it can be       *)
(* resolved); the least such set that contains the files the TOC names is  *)
(* what the game loads.                                                    *)
ClosedFor(S, p) == \A i \in Positions(p) : \A q \in Paths : LeadsTo(p, i, q) => q \in S
Closed(S) == \A p \in S \cup {Root} : ClosedFor(S, p)

(* Nothing is loaded that cannot be reached from the TOC, and in the end   *)
(* everything is that can: cycles, duplicates and references that cannot   *)
(* be resolved neither lose a file nor add one.                            *)
NothingExtra == toc # NoToc => \A S \in SUBSET Paths : Closed(S) => Loaded \subseteq S
ClosureExact == NothingExtra /\ (Finished /\ toc \in disk.there => Closed(Loaded))

(* Every reference in a file that was read has exactly one answer, the     *)
(* file it led to or an error with its position, and a file that could not *)
(* be read to its end is reported: no part of the AddOn drops out of the   *)
(* result unnoticed.                                                       *)
Recorded(o) == {p \in Paths : \E n \in DOMAIN loadedBy[p] : loadedBy[p][n] = o}
Reported(o) == {n \in DOMAIN diagnostics :
                  diagnostics[n].at = o /\ diagnostics[n].code \notin Warnings}

EveryReferenceAnswered ==
  Finished /\ toc \in disk.there =>
    \A p \in {Root} \cup Loaded :
      /\ \A i \in Positions(p) :
           LET o == [in |-> p, at |-> i]
           IN  /\ Cardinality(Recorded(o)) + Cardinality(Reported(o)) = 1
               /\ \A q \in Recorded(o) : LeadsTo(p, i, q)
      /\ p.file \in disk.torn \cap Readers =>
           Reported([in |-> p, at |-> Len(Says(p)) + 1]) # {}

(* The references reported as closing a cycle are the right ones: without  *)
(* them nothing that was loaded is on a cycle, and each of them is on one. *)
Closing == {d.at : d \in {diagnostics[n] : n \in
              {m \in DOMAIN diagnostics : diagnostics[m].code = "circular_load_reference"}}}

LeavesAcyclic(S) ==
  S # {} => \E p \in S : \A i \in Positions(p) : \A q \in S :
              LeadsTo(p, i, q) => [in |-> p, at |-> i] \in Closing

ReachesItself(o) ==
  \A S \in SUBSET Paths :
    /\ \E q \in S : LeadsTo(o.in, o.at, q)
    /\ \A p \in S : ClosedFor(S, p)
    => o.in \in S

CyclesFound ==
  Finished => /\ \A S \in SUBSET Loaded : LeavesAcyclic(S)
              /\ \A o \in Closing : ReachesItself(o)

(* The way to a reference: the positions, from the TOC on, of the          *)
(* references through which the reader came to it.                         *)
Way[p \in Loaded] ==
  LET o == loadedBy[p][1]
  IN  IF o.in = Root THEN <<o.at>> ELSE Append(Way[o.in], o.at)

WayTo(o) == IF o.in = Root THEN <<o.at>> ELSE Append(Way[o.in], o.at)

Before(s, t) ==
  \E n \in 1 .. Len(t) :
    /\ \A m \in 1 .. n - 1 : m <= Len(s) /\ s[m] = t[m]
    /\ n > Len(s) \/ s[n] < t[n]

(* Files are loaded in the order in which they are first named when every  *)
(* file is read where it is named; later references follow in that order.  *)
LoadOrder ==
  /\ \A i, j \in DOMAIN files : i < j => Before(Way[files[i]], Way[files[j]])
  /\ \A p \in Loaded : \A n \in DOMAIN loadedBy[p] \ {1} :
       Before(WayTo(loadedBy[p][n - 1]), WayTo(loadedBy[p][n]))

================================================================================
