--------------------------- MODULE MCValidateMatrix ---------------------------
EXTENDS ValidateMatrix, TLC

CONSTANTS a, b, l, t, w, missing, gone, x, y, F, E, B, M

Refs(link) == [to : {a, b, l, missing}, link : link]
UpTo(S, n) == UNION {[1 .. m -> S] : m \in 0 .. n}

(* One TOC file and two XML files that refer to each other in every way.   *)
Tangled ==
  {[says |-> (t :> st @@ a :> sa @@ b :> sb @@ w :> <<>>), torn |-> torn, there |-> {t}] :
     st \in UpTo(Refs({FALSE}), 2), sa \in UpTo(Refs({FALSE}), 2),
     sb \in UpTo(Refs(BOOLEAN), 1), torn \in {{}, {a, t}}}

Ref(f) == [to |-> f, link |-> FALSE]

(* Two TOC files that share some files, sound or with a torn file.         *)
Plain ==
  {[says |-> (t :> <<Ref(l), Ref(a)>> @@ w :> su @@ a :> <<>> @@ b :> <<Ref(l)>>),
    torn |-> torn, there |-> there] :
     su \in {<<Ref(l), Ref(a)>>, <<Ref(l), Ref(b)>>, <<Ref(b)>>},
     torn \in {{}, {l}}, there \in {{t, w}, {t}}}

(* An XML file on one line that refers to files that are not there.        *)
Gaps ==
  {[says |-> (t :> <<Ref(a), Ref(r)>> @@ a :> sa @@ b :> <<>> @@ w :> <<>>),
    torn |-> {}, there |-> {t}] :
     r \in {missing, gone}, sa \in UpTo({Ref(missing), Ref(gone)}, 2)}

MCDisks == Tangled \cup Gaps \cup Plain

MCMessageOf == [r \in Rejected |-> "load_file_missing"]

Use(kind, name, form) == [kind |-> kind, name |-> name, form |-> form]

MCUses ==
  l :> <<Use("api", F, "named"), Use("api", E, "candidate"), Use("event", E, "computed")>> @@
  a :> <<Use("template", B, "named"), Use("mixin", M, "named")>> @@
  b :> <<Use("event", E, "named"), Use("api", F, "named"), Use("template", B, "named")>> @@
  t :> <<Use("interface", F, "named")>> @@
  w :> <<Use("interface", F, "named")>>

Old == <<"api", F>> :> "old" @@ <<"template", B>> :> "s" @@ <<"mixin", B>> :> "s"
       @@ <<"event", E>> :> "s" @@ <<"interface", F>> :> "s"
New == [Old EXCEPT ![<<"api", F>>] = "new"]
Api == <<"api", E>> :> "s" @@ <<"event", F>> :> "s" @@ <<"mixin", M>> :> "s"
MCSnapshots == {Old, New, Api, <<>>}

One == <<[id |-> x, toc |-> t]>>
Configs == {<<>>} \cup [1 .. 2 -> [id : {x, y, NoId}, toc : {t, w}]]

MCInputs == [disk : Tangled \cup Gaps, config : {One}] \cup [disk : Plain, config : Configs]
================================================================================
