------------------------------ MODULE Collector ------------------------------
(* internal/generate/collector: how the manifests that "kustomize build"      *)
(* prints (or that lie in --deploy-dir and --crds-dir) are sorted by kind,    *)
(* filtered, freed of duplicates, and how their RBAC objects are divided      *)
(* between the CSV and the bundle; and how the objects that are not part of   *)
(* the CSV reach files (cmd/operator-sdk/generate/internal).                  *)
(*                                                                            *)
(* An object is a record with a kind, a name and the fields that the          *)
(* generators read; rules, labels and schema fields are sets of model values. *)
(* A collection is a function from the fields of Manifests to sequences.      *)
EXTENDS Naturals, SequencesExt

CONSTANT GroupOf    \* MakeFullGroupFromName: a CRD's name without its first element

-----------------------------------------------------------------------------
(* Sequences. TLAPS cannot reason about SelectSeq, FlattenSeq and folds, which *)
(* are recursive; what is proved about is written by positions instead.       *)

\* The elements of P, each at the number of those up to it.
InOrder(P, upTo) == [n \in 1 .. Cardinality(P) |-> CHOOSE p \in P : Cardinality(upTo[p]) = n]

\* What a sequence has at some of its positions.
Filtered(s, at) ==
    LET nth == InOrder(at, [i \in at |-> {j \in at : j <= i}]) IN [n \in 1 .. Cardinality(at) |-> s[nth[n]]]

\* SelectSeq(s, Test).
Where(s, Test(_)) == Filtered(s, {i \in DOMAIN s : Test(s[i])})

\* FlattenSeq(ss).
Joined(ss) ==
    LET at  == UNION {{i} \X DOMAIN ss[i] : i \in DOMAIN ss}
        nth == InOrder(at, [p \in at |-> {q \in at : q[1] < p[1] \/ (q[1] = p[1] /\ q[2] <= p[2])}])
    IN  [n \in DOMAIN nth |-> ss[nth[n][1]][nth[n][2]]]

\* The function f, with v for x.
Put(f, x, v) == [y \in DOMAIN f \cup {x} |-> IF y = x THEN v ELSE f[y]]

-----------------------------------------------------------------------------
(* Kinds                                                                      *)

\* The kinds that Manifests has a field for; "Others" is its last field.
Kinds == {"ClusterServiceVersion", "Role", "ClusterRole", "RoleBinding", "ClusterRoleBinding",
          "ServiceAccount", "Service", "Deployment", "CustomResourceDefinition",
          "ValidatingWebhookConfiguration", "MutatingWebhookConfiguration", "Configuration"}

Fields == Kinds \cup {"CustomResourceDefinition-v1beta1", "CustomResources", "Others"}

FieldOf(o) ==
    IF o.kind = "CustomResourceDefinition" /\ o.api = "v1beta1"
    THEN "CustomResourceDefinition-v1beta1"
    ELSE IF o.kind \in Kinds THEN o.kind ELSE "Others"

\* The webhooks of the configurations, one by one; their type is the configuration's kind.
Webhooks(configs) ==
    FlattenSeq([i \in DOMAIN configs |-> [j \in DOMAIN configs[i].hooks |->
        [configs[i].hooks[j] EXCEPT !.kind = configs[i].kind]]])

\* A second scorecard configuration and an unknown version of the CRD API are errors.
Readable(stream) ==
    /\ Len(Where(stream, LAMBDA o : o.kind = "Configuration")) <= 1
    /\ \A o \in ToSet(stream) : o.kind = "CustomResourceDefinition" => o.api \in {"v1", "v1beta1"}

Read(stream) ==
    [f \in Fields |->
        LET objs == Where(stream, LAMBDA o : FieldOf(o) = f)
        IN  IF f \in {"ValidatingWebhookConfiguration", "MutatingWebhookConfiguration"}
            THEN Webhooks(objs) ELSE objs]

-----------------------------------------------------------------------------
(* Custom resources                                                           *)

CRDs(c) == c["CustomResourceDefinition"] \o c["CustomResourceDefinition-v1beta1"]

\* Only the versions that the API server serves can be owned or have examples.
ServedVersions(crd) ==
    LET served == Where(crd.versions, LAMBDA v : v.served)
    IN  [i \in DOMAIN served |-> [name |-> crd.name, version |-> served[i].name, kind |-> crd.crkind]]

Definitions(crds) == Joined([i \in DOMAIN crds |-> ServedVersions(crds[i])])

GVKs(crds) == {<<GroupOf[d.name], d.version, d.kind>> : d \in ToSet(Definitions(crds))}

\* The unrecognized objects of a group, version and kind that a collected CRD serves.
WithCustomResources(c) ==
    LET gvks == GVKs(CRDs(c))
    IN  [c EXCEPT !["CustomResources"] = Where(c["Others"], LAMBDA o : <<o.group, o.version, o.kind>> \in gvks)]

\* The CRDs of a directory: nothing may be defined twice, not even by one CRD in
\* two versions of the CRD API.
DistinctGVKs(crds) == Cardinality(GVKs(crds)) = Len(Definitions(crds))

-----------------------------------------------------------------------------
(* Duplicates                                                                 *)

\* What the hash of an object covers. The encoding of a typed object does not
\* say its type: two objects of different kinds are the same if their content is.
Content(o) == IF o.kind \in Kinds THEN [f \in DOMAIN o \ {"kind"} |-> o[f]] ELSE o

Contents(objs) == {Content(o) : o \in ToSet(objs)}

\* One set of hashes serves all kinds, in this order.
Hashed == <<"Role", "ClusterRole", "Deployment", "CustomResourceDefinition",
            "CustomResourceDefinition-v1beta1", "ValidatingWebhookConfiguration",
            "MutatingWebhookConfiguration", "CustomResources">>

\* What was seen before the objects of a field, duplicates or not.
SeenBefore(c, f) == UNION {Contents(c[Hashed[j]]) : j \in {j \in DOMAIN Hashed : \A i \in 1 .. j : Hashed[i] # f}}

\* The first object of each content that was not seen.
Unique(objs, seen) ==
    Filtered(objs, {i \in DOMAIN objs : /\ Content(objs[i]) \notin seen
                                       /\ \A j \in 1 .. i - 1 : Content(objs[j]) # Content(objs[i])})

Deduplicated(c) ==
    [f \in Fields |-> IF f \in ToSet(Hashed) THEN Unique(c[f], SeenBefore(c, f)) ELSE c[f]]

-----------------------------------------------------------------------------
(* The two ways to pass manifests                                             *)

\* From a pipe (or from one directory).
FromReader(stream) == Deduplicated(WithCustomResources(Read(stream)))

\* From two directories: the CRDs of crdsDir replace those of deployDir.
FromDirs(deploy, crds) ==
    LET c  == Read(deploy)
        cs == Read(Where(crds, LAMBDA o : o.kind = "CustomResourceDefinition"))
        in == {"CustomResourceDefinition", "CustomResourceDefinition-v1beta1"}
    IN  Deduplicated(WithCustomResources([f \in Fields |-> IF f \in in THEN cs[f] ELSE c[f]]))

DirsReadable(deploy, crds) ==
    /\ Readable(deploy)
    /\ Readable(crds)
    /\ DistinctGVKs(Where(crds, LAMBDA o : o.kind = "CustomResourceDefinition"))

-----------------------------------------------------------------------------
(* RBAC objects inside and outside of the CSV                                 *)

AccountOf(dep) == IF dep.sa = "" THEN "default" ELSE dep.sa

\* The service accounts whose permissions the CSV asks for.
Accounts(c, extra) == {AccountOf(d) : d \in ToSet(c["Deployment"])} \cup extra

IsAccount(s, accounts) == s.kind = "ServiceAccount" /\ s.name \in accounts

\* The binding refers to a collected role that its kind may refer to.
Refers(c, b) ==
    /\ b.ref.kind \in (IF b.kind = "RoleBinding" THEN {"Role", "ClusterRole"} ELSE {"ClusterRole"})
    /\ \E r \in ToSet(c[b.ref.kind]) : r.name = b.ref.name

\* The bindings of a kind through which accounts get a collected role.
Binding(c, kind, refKind, accounts) ==
    Where(c[kind], LAMBDA b : /\ Refers(c, b) /\ b.ref.kind = refKind
                                  /\ \E s \in ToSet(b.subjects) : IsAccount(s, accounts))

RefNames(bindings) == {b.ref.name : b \in ToSet(bindings)}

\* The roles of the CSV's permissions and of its cluster permissions.
InPerms(c, accounts) ==
    {r \in ToSet(c["Role"]) : r.name \in RefNames(Binding(c, "RoleBinding", "Role", accounts))}
    \cup {r \in ToSet(c["ClusterRole"]) : r.name \in RefNames(Binding(c, "RoleBinding", "ClusterRole", accounts))}

InClusterPerms(c, accounts) ==
    {r \in ToSet(c["ClusterRole"]) :
        r.name \in RefNames(Binding(c, "ClusterRoleBinding", "ClusterRole", accounts))}

\* A Role leaves the lookup table with the first binding that uses it; a second
\* one finds nothing, and applyRoles dereferences it.
NilRole(c, accounts) ==
    LET bs == Binding(c, "RoleBinding", "Role", accounts)
    IN  \E i, j \in DOMAIN bs : i # j /\ bs[i].ref.name = bs[j].ref.name

\* Mutant of Remains: one subject of the CSV is enough to drop a binding.
RemainsUnlessAny(c, b, accounts) ==
    ~Refers(c, b) \/ \A s \in ToSet(b.subjects) : ~IsAccount(s, accounts)

\* What a binding grants besides: subjects that are not the CSV's, or a role
\* that was not collected.
Remains(c, b, accounts) ==
    ~Refers(c, b) \/ \E s \in ToSet(b.subjects) : ~IsAccount(s, accounts)

\* SplitCSVPermissionsObjects: the objects that go to the bundle as they are. It
\* keeps roles and bindings by their names, which are distinct for each kind (see
\* Generate's ManifestsAssumption): of two of one name, a namespace apart, the
\* second would be there twice and the first be lost.
OutsideCSV(c, accounts) ==
    LET inside   == InPerms(c, accounts) \cup InClusterPerms(c, accounts)
        Outside(r) == r \notin inside
        Kept(b)    == Remains(c, b, accounts)
    IN  Where(c["Role"] \o c["ClusterRole"], Outside)
        \o Where(c["RoleBinding"] \o c["ClusterRoleBinding"], Kept)
        \o Where(c["ServiceAccount"], LAMBDA s : s.name \notin accounts)

-----------------------------------------------------------------------------
(* The objects of a bundle and their files                                    *)

\* The kinds that OLM applies from a bundle (operator-registry).
Supported == {"ConfigMap", "Secret", "PodDisruptionBudget", "PriorityClass", "ServiceMonitor"}

GetManifestObjects(c, accounts) ==
    CRDs(c) \o c["Service"] \o Where(c["Others"], LAMBDA o : o.kind \in Supported)
            \o OutsideCSV(c, accounts)

\* The name of an object's file; dup counts the files whose name was taken.
FileName(o, dup) == <<o.kind, o.name, dup>>

\* Mutant of WriteObjectsToFiles: two objects with one file name share the file.
WriteObjectsToOneFile(dir, objs) ==
    FoldLeft(LAMBDA files, o : Put(files, FileName(o, 0), o), dir, objs)

\* The file of the i-th object: its name may be taken by an earlier one.
FileAt(objs, i) ==
    LET Taken(k) == \E j \in 1 .. k - 1 : FileName(objs[j], 0) = FileName(objs[k], 0)
    IN  FileName(objs[i], IF Taken(i) THEN Cardinality({k \in 1 .. i : Taken(k)}) ELSE 0)

\* The files that the objects are written to, over those that are there.
WriteObjectsToFiles(dir, objs) ==
    LET written == {FileAt(objs, i) : i \in DOMAIN objs}
    IN  [f \in DOMAIN dir \cup written |->
            IF f \in written THEN objs[CHOOSE i \in DOMAIN objs : FileAt(objs, i) = f] ELSE dir[f]]
=============================================================================
