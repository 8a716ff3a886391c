----------------------------- MODULE Definitions -----------------------------
(* internal/generate/clusterserviceversion/bases: the base CSV that "generate *)
(* kustomize manifests" keeps in the project, and the descriptions of owned   *)
(* CRDs that it reads from the markers of the project's Go API types.         *)
(*                                                                            *)
(* A Go package is a record of its group ("" without a groupName marker),    *)
(* version, skip marker, imports (the place of a package by the name it has   *)
(* here) and types. A type has a doc, the order and resources of its markers, *)
(* the name of its CRD and its fields. A field has its JSON tag, the types it *)
(* mentions, each by an import's name ("" for none) and its own, and the      *)
(* descriptors its markers ask for.                                           *)
EXTENDS ClusterServiceVersion

CONSTANTS
    Rank,           \* the order of <<CRD name, kind, version>>: by name, by kind, newest version first
    MaxOrder,       \* the order of a description without one: after all others
    MaxDepth        \* bound on the nesting of the API types, which do not contain themselves

ASSUME DepthAssumption == MaxDepth \in Nat

-----------------------------------------------------------------------------
(* Types                                                                      *)

\* needTypes: a package that asks to be skipped ends the collection.
Loaded(pkgs) ==
    LET skips == {i \in DOMAIN pkgs : pkgs[i].skip}
    IN  {i \in DOMAIN pkgs : \A s \in skips : i < s}

TypeAt(pkgs, t) == pkgs[t[1]].types[t[2]]

Known(pkgs, t) == t[1] \in Loaded(pkgs) /\ t[2] \in DOMAIN pkgs[t[1]].types

\* getPathSegmentForField: "inline" and "ignore" are the two tags that are no
\* name.  An embedded field is inlined though its tag may name it (markers.go:214).
Segment(f) ==
    CASE f.embedded                      -> [tag |-> "inline", array |-> FALSE]
      [] ~f.embedded /\ ~f.exported      -> [tag |-> "ignore", array |-> FALSE]
      [] ~f.embedded /\ f.exported       -> [tag |-> IF f.json = "" THEN f.name ELSE f.json,
                                             array |-> f.array /\ f.json \notin {"inline", "ignore"}]

\* The types that a mention may be of: whatever package the field is in, the root
\* package's imports are searched, and the root package for every identifier, the
\* two of a selector too (ast.go:108-131).
Candidates(pkgs, root, ref) ==
    LET imports == pkgs[root].imports
    IN  {<<root, ref.name>>, <<root, ref.from>>}
        \cup (IF ref.from \in DOMAIN imports THEN {<<imports[ref.from], ref.name>>} ELSE {})

TypesFound(pkgs, root, f) ==
    {t \in UNION {Candidates(pkgs, root, ref) : ref \in f.types} : Known(pkgs, t)}

\* The fields below a field, with the segments that lead to them.
Below(pkgs, root, at) ==
    UNION {{[field |-> f, path |-> Append(at.path, Segment(f))] : f \in ToSet(TypeAt(pkgs, t).fields)} :
           t \in TypesFound(pkgs, root, at.field)}

\* getMarkedChildrenOfField: breadth first from a field of the root package, which itself is not included.
MarkedChildrenOfField(pkgs, root, child) ==
    LET Level[n \in 0 .. MaxDepth] ==
          IF n = 0 THEN {[field |-> child, path |-> <<>>]}
          ELSE UNION {Below(pkgs, root, at) : at \in Level[n - 1]}
    IN  UNION {Level[n] : n \in 1 .. MaxDepth}

\* makePath: not for what is ignored or inlined itself; an index only before another segment.
HasPath(path) ==
    /\ \A i \in DOMAIN path : path[i].tag # "ignore"
    /\ Last(path).tag # "inline"

\* Mutant of MakePath: the names of embedded structs are part of the path.
MakeFullPath(path) ==
    [i \in DOMAIN path |-> IF i = Len(path) THEN [path[i] EXCEPT !.array = FALSE] ELSE path[i]]

MakePath(path) ==
    LET named == Where(path, LAMBDA s : s.tag # "inline")
    IN  [i \in DOMAIN named |-> IF i = Len(named) THEN [named[i] EXCEPT !.array = FALSE] ELSE named[i]]

\* The paths of the fields under the spec or status that have a descriptor of that type.
Descriptors(pkgs, root, child, type) ==
    {MakePath(at.path) : at \in {at \in MarkedChildrenOfField(pkgs, root, child) :
                                    type \in at.field.descriptors /\ HasPath(at.path)}}

-----------------------------------------------------------------------------
(* Descriptions of owned CRDs                                                 *)

Child(t, json) == SelectSeq(t.fields, LAMBDA f : f.json = json)

\* A kind needs a spec and a status, and its resources a kind and a version.
Buildable(t) ==
    /\ Child(t, "spec") # <<>> /\ Child(t, "status") # <<>>
    /\ \A r \in t.resources : Len(r) >= 2

GVKAt(pkgs, t) == <<pkgs[t[1]].group, pkgs[t[1]].version, t[2]>>

\* The loaded types of the kinds that the project's configuration lists.
KindTypes(pkgs, gvks) ==
    {t \in UNION {{<<i, n>> : n \in DOMAIN pkgs[i].types} : i \in Loaded(pkgs)} :
        pkgs[t[1]].group # "" /\ GVKAt(pkgs, t) \in gvks}

BuildCRDDescription(pkgs, t) ==
    LET k == TypeAt(pkgs, t)
    IN  [name |-> k.crd, version |-> pkgs[t[1]].version, kind |-> t[2], about |-> k.doc,
         resources |-> k.resources,
         specs |-> Descriptors(pkgs, t[1], Child(k, "spec")[1], "spec"),
         statuses |-> Descriptors(pkgs, t[1], Child(k, "status")[1], "status")]

DescToGVK(d) == <<GroupOf[d.name], d.version, d.kind>>

SortKey(d) == Rank[<<d.name, d.kind, d.version>>]

\* Mutant of UpdateDefinitionsByKey: a generated description takes the place alone.
UpdateDefinitionsByOrder(owned, pkgs, types) ==
    LET Made(n) == {t \in types : TypeAt(pkgs, t).order = n}
        gvks    == {GVKAt(pkgs, t) : t \in types}
        orders  == SetToSortSeq({TypeAt(pkgs, t).order : t \in types} \cup {i - 1 : i \in DOMAIN owned}, <)
        At(n)   == IF Made(n) # {} THEN SetToSeq({BuildCRDDescription(pkgs, t) : t \in Made(n)})
                   ELSE SelectSeq(<<owned[n + 1]>>, LAMBDA d : DescToGVK(d) \notin gvks)
    IN  FlattenSeq([i \in DOMAIN orders |-> At(orders[i])])

\* updateDefinitionsByKey: generated descriptions take the place of their order,
\* the others the place of their index, behind those generated for it.
UpdateDefinitionsByKey(owned, pkgs, types) ==
    LET gen   == {[order |-> TypeAt(pkgs, t).order, desc |-> BuildCRDDescription(pkgs, t)] : t \in types}
        gvks  == {GVKAt(pkgs, t) : t \in types}
        Made(n) == LET ds == {g.desc : g \in {g \in gen : g.order = n}}
                   IN  InOrder(ds, [d \in ds |-> {e \in ds : SortKey(e) <= SortKey(d)}])
        Others(n) == IF n + 1 \in DOMAIN owned /\ DescToGVK(owned[n + 1]) \notin gvks
                     THEN <<owned[n + 1]>> ELSE <<>>
        places == {g.order : g \in gen} \cup {i - 1 : i \in DOMAIN owned}
        orders == InOrder(places, [n \in places |-> {m \in places : m <= n}])
    IN  Joined([i \in DOMAIN orders |-> Made(orders[i]) \o Others(orders[i])])

-----------------------------------------------------------------------------
(* The base                                                                   *)

\* The prompt comes up when it is asked for, or by default if there is no base.
RequiresInteraction(hasBase, level) == level = "on" \/ (level = "default" /\ ~hasBase)

\* The answers replace the base's metadata.
RunInteractivePrompt(csv, answer) == [csv EXCEPT !.meta = answer]

\* A base of the old name pattern gets the name of its version.
Migrated(base, operator) ==
    IF base.name = MakeCSVName(operator, "X.Y.Z") THEN [base EXCEPT !.name = MakeCSVName(operator, base.version)]
    ELSE base

\* GetBase for a Go project: none (<<>>) stands for a base that does not exist.
GetBase(base, operator, pkgs, gvks, prompted, answer) ==
    LET old  == IF base = <<>> THEN NewBase(operator) ELSE Migrated(base, operator)
        told == IF prompted THEN RunInteractivePrompt(old, answer) ELSE old
    IN  IF pkgs = <<>> THEN told
        ELSE [told EXCEPT !.owned = UpdateDefinitionsByKey(@, pkgs, KindTypes(pkgs, gvks))]

Gettable(pkgs, gvks) == \A t \in KindTypes(pkgs, gvks) : Buildable(TypeAt(pkgs, t))
=============================================================================
