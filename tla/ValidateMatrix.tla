---------------------------- MODULE ValidateMatrix ----------------------------
(***************************************************************************)
(* `wowdoc validate-matrix`: one AddOn directory is validated for several  *)
(* clients, each with its own TOC file and its own snapshot, and the       *)
(* results are merged (internal/app/validation.go, internal/validator,     *)
(* internal/query/compat.go).                                              *)
(*                                                                         *)
(* For each target of the configuration the command selects the snapshot,  *)
(* builds the load closure (module LoadClosure), collects what the loaded  *)
(* files use, looks each use up in the snapshot, and keeps the result.  A  *)
(* bad target ends the command without a result; findings do not.          *)
(*                                                                         *)
(* Abstractions.  What a file uses is the constant Uses: a sequence of     *)
(* names with their kinds, in the order of the file (the walk over the Lua *)
(* or XML tree that yields it is left out); a use is named, computed at    *)
(* run time, or the candidate for an API (a call of a global function).    *)
(* The TOC file uses its Interface number.  A snapshot is what it says     *)
(* about names: a function from kinds and names to signatures.             *)
(* Positions in a file are numbers of references and uses; each stands on  *)
(* a line of its own, except in the files OneLine.                         *)
(***************************************************************************)
EXTENDS LoadClosure, FiniteSetsExt

CONSTANTS
  Ids, NoId,   \* identifiers of targets, and the missing one
  Names, Signatures,
  Uses,        \* what each file uses
  OneLine,     \* the files whose text stands on one line
  MessageOf,   \* the message for each reference that leads to no file
  Snapshots,   \* the snapshots a reference may be resolved to
  Inputs       \* the directories and configurations considered

Kinds == {"api", "event", "template", "mixin", "frame-type", "interface"}
Usage == [kind : Kinds, name : Names, form : {"named", "candidate", "computed"}]
Entry == [id : Ids \cup {NoId}, toc : Tocs]

ASSUME MatrixAssumption ==
  /\ NoId \notin Ids
  /\ OneLine \subseteq Loadable
  /\ DOMAIN MessageOf = Rejected
  /\ Uses \in [Loadable \cup Tocs -> Seq(Usage)]
  /\ \A t \in Tocs : \A n \in DOMAIN Uses[t] : Uses[t][n].kind = "interface"
  /\ \A s \in Snapshots : /\ DOMAIN s \subseteq Kinds \X Names
                          /\ \A k \in DOMAIN s : s[k] \in Signatures
  /\ Inputs \subseteq [disk : Disks, config : Seq(Entry)]

VARIABLES
  config,   \* the targets of the configuration
  phase,    \* where the command is
  results,  \* the results of the targets validated so far
  output    \* what is written: the merged result, if the command succeeds

matrixVars == <<closureVars, config, phase, results, output>>

Nothing == "nothing"

MatrixInit ==
  /\ \E input \in Inputs : disk = input.disk /\ config = input.config
  /\ Init
  /\ phase = "select"
  /\ results = <<>>
  /\ output = <<>>

-----------------------------------------------------------------------------
(* Selecting a target.                                                     *)

Entered == phase = "select" /\ Len(results) < Len(config)
Current == config[Len(results) + 1]
Seen    == {results[i].id : i \in DOMAIN results}

(* Mutant: identifiers are not compared with those of earlier targets.     *)
AcceptableIfComplete == Current.id # NoId

Acceptable == Current.id # NoId /\ Current.id \notin Seen

EndCommand(p) == phase' = p /\ UNCHANGED <<closureVars, config, results, output>>

(* An empty configuration, a target with a missing field, or an identifier *)
(* that is used twice.                                                     *)
RejectConfig ==
  /\ phase = "select"
  /\ config = <<>> \/ (Entered /\ ~Acceptable)
  /\ EndCommand("rejected")

SelectFails == Entered /\ Acceptable /\ EndCommand("failed")

SelectTarget ==
  /\ Entered
  /\ Acceptable
  /\ BuildClosure(Current.toc)
  /\ phase' = "load"
  /\ UNCHANGED <<config, results, output>>

LoadFiles == phase = "load" /\ Loading /\ UNCHANGED <<config, phase, results, output>>

-----------------------------------------------------------------------------
(* Analyze and Lookup.                                                     *)

At(p, n) == [in |-> p, at |-> n]
Broken(p) == p.file \in Lua \cap disk.torn
Analyze(p) == IF Broken(p) THEN {} ELSE DOMAIN Uses[p.file]

(* The uses of all files in load order, and then the Interface number,     *)
(* which is known only if the TOC file could be read.  The use <<n, m>> is *)
(* the m-th of the n-th file; they are ordered by n, and then by m.        *)
Sources  == IF toc \in disk.there THEN Append(files, Root) ELSE files
Usages   == UNION {{n} \X Analyze(Sources[n]) : n \in DOMAIN Sources}
UseAt(l) == Uses[Sources[l[1]].file][l[2]]

Exists(s, u) == <<u.kind, u.name>> \in DOMAIN s
CategoryKnown(s, kind) == \E k \in DOMAIN s : k[1] = kind

(* Mutant: also Mixins and frame types are taken to be complete.           *)
ProvesAllKinds(s, u) == Exists(s, u) \/ CategoryKnown(s, u.kind)

Proves(s, u) ==
  Exists(s, u) \/ (CategoryKnown(s, u.kind) /\ u.kind \notin {"mixin", "frame-type"})

Settled(s, u) ==
  /\ u.form # "computed"
  /\ Proves(s, u)
  /\ u.form = "candidate" => Exists(s, u)

Value(s, u) == [exists |-> Exists(s, u),
                signature |-> IF Exists(s, u) THEN s[<<u.kind, u.name>>] ELSE Nothing]

(* The Interface number is looked up without a place; the diagnostic names *)
(* the number.                                                             *)
Place(l) ==
  IF UseAt(l).kind = "interface"
  THEN At([file |-> UseAt(l).name, links |-> 0], 0)
  ELSE At(Sources[l[1]], l[2])

Fact(s, l) ==
  [kind |-> UseAt(l).kind, name |-> UseAt(l).name, value |-> Value(s, UseAt(l)), at |-> Place(l)]

Errors(ds) == {d \in ds : d.code \notin Warnings}

(* The result for the current target with the snapshot s (Validate).       *)
ResultWith(s) ==
  LET settled == {l \in Usages : Settled(s, UseAt(l))}
      facts == [l \in settled |-> Fact(s, l)]
      found ==
        Range(diagnostics)
        \cup {Diagnostic("lua_parse_failed", At(p, 0)) : p \in {q \in Range(files) : Broken(q)}}
        \cup {Diagnostic("not_found", f.at) : f \in {g \in Range(facts) : ~g.value.exists}}
  IN  [id |-> Current.id, commit |-> s, valid |-> Errors(found) = {}, files |-> Range(files),
       diagnostics |-> found, facts |-> facts,
       unresolved |-> {Place(l) : l \in Usages \ settled}]

Validated == phase = "load" /\ stack = <<>>

LookupFails == Validated /\ EndCommand("failed")

Lookup(s) ==
  /\ Validated
  /\ results' = Append(results, ResultWith(s))
  /\ phase' = "select"
  /\ UNCHANGED <<closureVars, config, output>>

-----------------------------------------------------------------------------
(* MergeMatrix.                                                            *)

Groups == [apis |-> {"api"}, events |-> {"event"}, xml |-> {"template", "mixin", "frame-type"}]
GroupNames == DOMAIN Groups

(* What a result says of a name: its last fact in the group.               *)
FactsOf(r, g, n) == {l \in DOMAIN r.facts : r.facts[l].kind \in Groups[g] /\ r.facts[l].name = n}
Last(S) == LET n == Max({l[1] : l \in S}) IN <<n, Max({l[2] : l \in {k \in S : k[1] = n}})>>
Observed(r, g, n) == FactsOf(r, g, n) # {}
LastSaid(r, g, n) == r.facts[Last(FactsOf(r, g, n))].value
Unobserved == [exists |-> FALSE, signature |-> Nothing]
ValueOf(r, g, n) == IF Observed(r, g, n) THEN LastSaid(r, g, n) ELSE Unobserved

(* The results are kept by identifier: the last one of an identifier.      *)
ResultOf(id) == results[Max({i \in DOMAIN results : results[i].id = id})]
All == {ResultOf(id) : id \in Seen}

Mentioned(g) == {n \in Names : \E r \in All : Observed(r, g, n)}

(* Mutant: the targets that did not observe a name are passed over.        *)
AgreedWhereObserved(g, n) ==
  \A r, q \in All : Observed(r, g, n) /\ Observed(q, g, n) => ValueOf(r, g, n) = ValueOf(q, g, n)

Agreed(g, n) ==
  /\ \A r \in All : Observed(r, g, n)
  /\ \A r, q \in All : ValueOf(r, g, n) = ValueOf(q, g, n)

MergeFacts(g) ==
  [shared  |-> {n \in Mentioned(g) : Agreed(g, n)},
   differs |-> [n \in {m \in Mentioned(g) : ~Agreed(g, m)} |->
                  [id \in Seen |-> ValueOf(ResultOf(id), g, n)]]]

(* The key by which findings are merged (diagnosticKey): code and message, *)
(* file and line.  The column adds nothing: it is always 0, but for a file *)
(* that cannot be read further, which is reported once.  A warning names   *)
(* the path it is about, a missing symbol its kind and name; a reference   *)
(* that leads to no file is not named, only what is wrong with it.         *)
Line(o) == IF o.at > 0 /\ o.in.file \in OneLine THEN 1 ELSE o.at

Message(d) ==
  CASE d.code \in Rejected -> <<MessageOf[d.code], Nothing>>
    [] d.code \in Warnings -> <<d.code, Resolve(d.at.in, Reference(d.at))>>
    [] d.code = "not_found" /\ d.at.at > 0 -> <<d.code, Uses[d.at.in.file][d.at.at]>>
    [] OTHER -> <<d.code, Nothing>>

MergeKey(d) == [message |-> Message(d), file |-> d.at.in, line |-> Line(d.at)]
Keys(ds) == {MergeKey(d) : d \in ds}

(* mergeFiles and mergeDiagnostics: what all targets have, and what each   *)
(* has beyond that.  Of the findings with one key the summary shows one.   *)
MergeSets(by) ==
  LET shared == {x \in UNION Range(by) : \A id \in DOMAIN by : x \in by[id]}
  IN  [shared |-> shared, only |-> [id \in DOMAIN by |-> by[id] \ shared]]

Summary ==
  [valid |-> \A r \in Range(results) : r.valid,
   facts |-> [g \in GroupNames |-> MergeFacts(g)],
   files |-> MergeSets([id \in Seen |-> ResultOf(id).files]),
   diagnostics |-> MergeSets([id \in Seen |-> Keys(ResultOf(id).diagnostics)]),
   unresolved |-> [id \in Seen |-> ResultOf(id).unresolved]]

MergeMatrix ==
  /\ phase = "select"
  /\ config # <<>>
  /\ Len(results) = Len(config)
  /\ output' = <<Summary>>
  /\ phase' = "done"
  /\ UNCHANGED <<closureVars, config, results>>

MatrixStep ==
  \/ RejectConfig \/ SelectFails \/ SelectTarget
  \/ LoadFiles
  \/ LookupFails \/ \E s \in Snapshots : Lookup(s)
  \/ MergeMatrix

MatrixSpec == MatrixInit /\ [][MatrixStep]_matrixVars /\ WF_matrixVars(MatrixStep)

-----------------------------------------------------------------------------
(* Properties.                                                             *)

merged == output[1]

(* What the game reaches from a TOC file: the least set that contains,     *)
(* with a file, what it names; nothing if it cannot be read.               *)
RootOf(t) == [file |-> t, links |-> 0]
Roots(t) == {RootOf(r) : r \in {t} \cap disk.there}
Reach(t) == {p \in Paths : \A S \in SUBSET Paths :
               (\A q \in S \cup Roots(t) : ClosedFor(S, q)) => p \in S}

(* A file is fine with the snapshot s: it can be read, each of its         *)
(* references leads to a file, and no use of it is missing in s, as far as *)
(* s can tell.                                                             *)
Fine(p, s) ==
  /\ p.file \notin disk.torn
  /\ \A i \in Positions(p) : \E q \in Paths : LeadsTo(p, i, q)
  /\ \A i \in DOMAIN Uses[p.file] :
       LET u == Uses[p.file][i]
       IN  \/ u.form = "computed"
           \/ Exists(s, u)
           \/ u.form = "candidate"
           \/ u.kind \in {"mixin", "frame-type"}
           \/ \A k \in DOMAIN s : k[1] # u.kind

(* The matrix is valid exactly when, for every configured target, the TOC  *)
(* file and all files the game would reach from it are fine with the       *)
(* snapshot of that target: nothing that is loaded escapes the verdict and *)
(* nothing else enters it (addon-validation/spec.md:31, :60).              *)
VerdictExact ==
  phase = "done" =>
    (merged.valid <=>
       \A i \in DOMAIN config :
         /\ config[i].toc \in disk.there
         /\ \A p \in Reach(config[i].toc) \cup {RootOf(config[i].toc)} :
              Fine(p, results[i].commit))

(* What target i establishes of a name in a group, from all it loads.      *)
Used(i) == UNION {Range(Uses[p.file]) : p \in {q \in results[i].files : ~Broken(q)}}

Established(i, g, n) ==
  LET s == results[i].commit
  IN  {Value(s, u) : u \in {v \in Used(i) :
         v.kind \in Groups[g] /\ v.name = n /\ Settled(s, v)}}

(* Names are merged without their kinds: a name that stands for two kinds  *)
(* of one group has only its last fact in the summary.                     *)
OneKind(g, n) ==
  \A i, j \in DOMAIN config : \A u \in Used(i), v \in Used(j) :
    {u.kind, v.kind} \subseteq Groups[g] /\ u.name = n /\ v.name = n => u.kind = v.kind

(* A name is reported as common exactly when every target established the  *)
(* same of it (existence and signature), and a difference shows what a     *)
(* target established: a client where the name is missing, changed or not  *)
(* used is never merged away (addon-validation/spec.md:64-66).             *)
SummaryExact ==
  phase = "done" =>
    \A g \in GroupNames : \A n \in {m \in Names : OneKind(g, m)} :
      /\ n \in merged.facts[g].shared <=>
           \E v \in UNION {Established(i, g, n) : i \in DOMAIN config} :
             \A i \in DOMAIN config : Established(i, g, n) = {v}
      /\ n \in DOMAIN merged.facts[g].differs =>
           \A i \in DOMAIN config :
             Established(i, g, n) \subseteq {merged.facts[g].differs[n][config[i].id]}

(* Every target of the configuration has its result, in order, and the     *)
(* summary shows under its identifier the files it reaches, each of its    *)
(* findings by its message, file and line, and nothing else, and what it   *)
(* left unresolved: no target overwrites another                           *)
(* (addon-validation/spec.md:60, :62, :68-70).                             *)
Shown(part, id) == part.shared \cup part.only[id]

SummaryCovers ==
  phase = "done" =>
    /\ Len(results) = Len(config)
    /\ \A i \in DOMAIN config :
         LET id == config[i].id
         IN  /\ results[i].id = id
             /\ Shown(merged.files, id) = Reach(config[i].toc)
             /\ Shown(merged.diagnostics, id) = Keys(results[i].diagnostics)
             /\ merged.unresolved[id] = results[i].unresolved

(* The command comes to an end, whatever the files refer to.               *)
MatrixReturns == <>(phase \in {"done", "rejected", "failed"})
================================================================================
