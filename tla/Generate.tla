------------------------------ MODULE Generate -------------------------------
(* "operator-sdk generate kustomize manifests", "generate bundle", "generate  *)
(* packagemanifests" and "pkgman-to-bundle", run in any order by a user who   *)
(* edits the project in between. The commands are sequential programs; what   *)
(* makes them hard is that each starts from the files that the earlier ones,  *)
(* or a failed run of itself, left behind.                                    *)
EXTENDS Integers, Definitions, BundleTests

CONSTANTS
    Operator,       \* the package name
    Features,       \* what the user may add to the project
    Manifests,      \* what kustomize prints: a sequence of [feature, object]
    Packages,       \* the Go packages of the API types
    Resources,      \* the kinds that the PROJECT file lists for a feature
    Versions,       \* versions of the operator, a sequence
    BundleFlags,    \* flags of "generate bundle": [mode, version, overwrite, extra]
    PackageFlags,   \* flags of "generate packagemanifests": [mode, version, from, channel, isDefault]
    MaxSteps        \* bound on the commands and edits of a behaviour

\* A CSV has the fields of the model's CSVs; OLM knows one install strategy.
IsCSV(o) ==
    /\ o.kind = "ClusterServiceVersion" /\ DOMAIN o = DOMAIN NewBase(Operator)
    /\ o.strategy \in {"", "deployment"}
    /\ o.owned \in Seq(ToSet(o.owned))

\* What kustomize may print: no two resources have one kind and name, but for a
\* CRD in two versions of the CRD API, of which one has a conversion webhook; the
\* API server lets a ClusterRoleBinding refer to ClusterRoles only.
Everything == {Manifests[i].object : i \in DOMAIN Manifests}

IsResource(o) ==
    /\ o.kind = "ClusterServiceVersion" => IsCSV(o)
    /\ o.kind = "CustomResourceDefinition" => o.versions \in Seq(ToSet(o.versions))
    /\ o.kind \in {"RoleBinding", "ClusterRoleBinding"} =>
         {"ref", "subjects"} \subseteq DOMAIN o /\ o.ref = [kind |-> o.ref.kind, name |-> o.ref.name]
    /\ o.kind = "ClusterRoleBinding" => o.ref.kind = "ClusterRole"

ASSUME ManifestsAssumption ==
    /\ Manifests \in Seq(ToSet(Manifests))
    /\ \A o \in Everything : IsResource(o)
    /\ \A o, q \in Everything : o.kind = q.kind /\ o.name = q.name =>
         /\ o.kind \in {"Role", "ClusterRole", "RoleBinding", "ClusterRoleBinding", "Service"} => o = q
         /\ o.kind = "CustomResourceDefinition" /\ o.hook # <<>> /\ q.hook # <<>> => o = q

ASSUME PackagesAssumption ==
    /\ Packages \in Seq(ToSet(Packages))
    /\ \A pkg \in ToSet(Packages) : IsFiniteSet(DOMAIN pkg.types)

\* The API types of a group and version are in one package, the plural name of
\* their resources has no dot, and the order of the descriptions is total.
ASSUME KindsAssumption ==
    LET kinds == KindTypes(Packages, UNION {Resources[f] : f \in Features \cup {"core"}})
        Name(t) == TypeAt(Packages, t).crd
        Place(t) == Rank[<<Name(t), t[2], Packages[t[1]].version>>]
    IN  /\ \A t \in kinds : /\ TypeAt(Packages, t).order \in Int /\ Place(t) \in Int
                           /\ GroupOf[Name(t)] = Packages[t[1]].group
        /\ \A t, u \in kinds : t # u => GVKAt(Packages, t) # GVKAt(Packages, u) /\ Place(t) # Place(u)

ASSUME VersionsAssumption ==
    /\ Versions \in Seq(ToSet(Versions))
    /\ \A f \in PackageFlags : f.version # "" => f.version \in ToSet(Versions)

VARIABLES
    project,        \* the features of the project
    base,           \* config/manifests/bases: the CSV, <<>> if there is none
    bundle,         \* the bundle directory, <<>> if there is none
    package,        \* the packagemanifests directory
    bundles,        \* what pkgman-to-bundle wrote for each version; <<>> if nothing
    made,           \* history: what the last commands that succeeded were run for
    steps

vars == <<project, base, bundle, package, bundles, made, steps>>

\* The modes are "pipe" (stdin), "dirs" (--deploy-dir with --crds-dir) and "input" (--input-dir).
VersionSet == ToSet(Versions)

NoPackage == [channels |-> <<>>, default |-> "", dirs |-> <<>>]

Init ==
    /\ project \in SUBSET Features
    /\ base \in {<<>>, [NewBase(Operator) EXCEPT !.name = MakeCSVName(Operator, "X.Y.Z")]}
    /\ bundle = <<>>
    /\ package = NoPackage
    /\ bundles = <<>>
    /\ made = [base |-> <<>>, bundle |-> <<>>, failed |-> {}, heads |-> <<>>, migrated |-> FALSE]
    /\ steps = 0

Step == steps < MaxSteps /\ steps' = steps + 1

-----------------------------------------------------------------------------
(* The user                                                                   *)

\* What kustomize prints for a project.
Objects == [p \in SUBSET Features |->
    LET of == Where(Manifests, LAMBDA m : m.feature \in p \cup {"core"})
    IN  [i \in DOMAIN of |-> of[i].object]]

\* Adds a feature to the project, or removes it.
EditProject(f) ==
    /\ Step
    /\ project' = IF f \in project THEN project \ {f} ELSE project \cup {f}
    /\ UNCHANGED <<base, bundle, package, bundles, made>>

\* Edits the metadata of the base, or the description of an owned CRD in it.
EditBase ==
    /\ Step /\ base # <<>>
    /\ base' \in {[base EXCEPT !.meta = "edited"], [base EXCEPT !.supported = FALSE],
                  [base EXCEPT !.annotated = FALSE]}
                 \cup {[base EXCEPT !.owned = Append(@, [Described(k) EXCEPT !.about = "edited"])] :
                       k \in ToSet(Definitions(CRDs(Read(Objects[project])))) \ {KeyOf(d) : d \in ToSet(base.owned)}}
    /\ UNCHANGED <<project, bundle, package, bundles, made>>

\* Takes the bundle's CSV for the base.
AdoptBase ==
    /\ Step /\ bundle # <<>>
    /\ base' = bundle.csv
    /\ made' = [made EXCEPT !.base = <<>>]
    /\ UNCHANGED <<project, bundle, package, bundles>>

\* Puts scorecard configurations into a package directory.
AddConfigs(v, n) ==
    /\ Step /\ v \in DOMAIN package.dirs /\ package.dirs[v].configs = 0
    /\ package' = [package EXCEPT !.dirs[v].configs = n]
    /\ UNCHANGED <<project, base, bundle, bundles, made>>

RemoveBundles ==
    /\ Step /\ bundles # <<>>
    /\ bundles' = <<>>
    /\ made' = [made EXCEPT !.migrated = FALSE]
    /\ UNCHANGED <<project, base, bundle, package>>

-----------------------------------------------------------------------------
(* generate kustomize manifests                                               *)

GVKsOf(p) == UNION {Resources[f] : f \in p \cup {"core"}}

GenerateKustomize(level) ==
    /\ Step
    /\ Gettable(Packages, GVKsOf(project))
    /\ base' = GetBase(base, Operator, Packages, GVKsOf(project),
                       RequiresInteraction(base # <<>>, level), "answered")
    /\ made' = [made EXCEPT !.base = [of |-> project]]
    /\ UNCHANGED <<project, bundle, package, bundles>>

-----------------------------------------------------------------------------
(* What the two generators of manifests have in common                        *)

\* kustomize prints the base too; otherwise the base is read where it lies.
Stream(p, b, mode) == Objects[p] \o (IF mode = "pipe" /\ b # <<>> THEN <<b>> ELSE <<>>)

CanCollect(p, b, mode) ==
    LET s == Stream(p, b, mode) IN IF mode = "dirs" THEN DirsReadable(s, s) ELSE Readable(s)

Collected(p, b, mode) ==
    LET s == Stream(p, b, mode)
        c == IF mode = "dirs" THEN FromDirs(s, s) ELSE FromReader(s)
    IN  IF c["ClusterServiceVersion"] = <<>> /\ b # <<>>
        THEN [c EXCEPT !["ClusterServiceVersion"] = <<GetBase(b, Operator, <<>>, {}, FALSE, "")>>] ELSE c

-----------------------------------------------------------------------------
(* generate bundle                                                            *)

CSVOfBundle(c, version, extra) == Generated(c, Operator, version, "", FindRelatedImages(c), extra)

\* The labels: a bundle with a scorecard configuration says where its tests are.
GenerateMetadata(channels, default, hasConfig) ==
    [channels |-> channels, default |-> default, tests |-> hasConfig]

FindBundleMetadata(dir) == dir.metadata # <<>>

\* The metadata is looked for in the input directory if there is one, where
\* there is none; elsewhere what exists is kept unless it may be overwritten.
RunMetadata(old, mode, channels, overwrite, config) ==
    IF mode # "input" /\ FindBundleMetadata(old) /\ ~overwrite THEN old.metadata
    ELSE GenerateMetadata(channels, "", mode # "input" /\ config)

GenerateBundle(mode, version, channels, overwrite, extra) ==
    LET c    == Collected(project, base, mode)
        csv  == CSVOfBundle(c, version, extra)
        old  == IF bundle = <<>> THEN [files |-> <<>>, config |-> FALSE, metadata |-> <<>>] ELSE bundle
        config == old.config \/ c["Configuration"] # <<>>
    IN  /\ Step
        /\ CanCollect(project, base, mode)
        /\ ImagesReadable(c)
        /\ Generates(c, csv, Accounts(c, extra))
        /\ bundle' = [csv |-> csv, config |-> config,
                      files |-> WriteObjectsToFiles(old.files, GetManifestObjects(c, Accounts(c, extra))),
                      metadata |-> RunMetadata(old, mode, channels, overwrite, config)]
        /\ made' = [made EXCEPT !.bundle = [of |-> project, base |-> base, basedOn |-> made.base, mode |-> mode,
                                            version |-> version, extra |-> extra, fresh |-> bundle = <<>>]]
        /\ UNCHANGED <<project, base, package, bundles>>

-----------------------------------------------------------------------------
(* generate packagemanifests                                                  *)

ValidFlags(f) == f.version # "" /\ (f.isDefault => f.channel # "")

\* Mutant of SetChannels: the version is added as a new channel.
AddChannel(channels, name, csv) == Append(channels, [name |-> name, csv |-> csv])

\* The channel gets the version; a new one is added.
SetChannels(channels, name, csv) ==
    IF \E i \in DOMAIN channels : channels[i].name = name
    THEN [i \in DOMAIN channels |-> IF channels[i].name = name THEN [channels[i] EXCEPT !.csv = csv] ELSE channels[i]]
    ELSE Append(channels, [name |-> name, csv |-> csv])

\* Without a channel, a package that has channels keeps them as they are.
NextPackage(version, channel, isDefault) ==
    LET csv  == MakeCSVName(Operator, version)
        name == IF channel # "" THEN channel ELSE "alpha"
        set  == SetChannels(package.channels, name, csv)
    IN  IF channel = "" /\ package.channels # <<>> THEN package
        ELSE [package EXCEPT !.channels = set,
                             !.default = IF channel = "" \/ isDefault \/ Len(set) = 1 THEN name ELSE @]

\* The package file is written before the manifests are read.
GeneratePackage(mode, version, from, channel, isDefault) ==
    LET c    == Collected(project, base, mode)
        csv  == Generated(c, Operator, version, from, <<>>, {})
        next == NextPackage(version, channel, isDefault)
        old  == IF version \in DOMAIN package.dirs THEN package.dirs[version].files ELSE <<>>
        dir  == [csv |-> csv, configs |-> IF version \in DOMAIN package.dirs THEN package.dirs[version].configs ELSE 0,
                 files |-> WriteObjectsToFiles(old, GetManifestObjects(c, Accounts(c, {})))]
        fails == ~CanCollect(project, base, mode) \/ ~Generates(c, csv, Accounts(c, {}))
    IN  /\ Step
        /\ package' = IF fails THEN next ELSE [next EXCEPT !.dirs = Put(@, version, dir)]
        /\ made' = [made EXCEPT
             !.failed = IF fails THEN @ \cup {version} ELSE @ \ {version},
             !.heads = IF next = package THEN @
                       ELSE Put(@, IF channel = "" THEN "alpha" ELSE channel, version),
             !.migrated = FALSE]
        /\ UNCHANGED <<project, base, bundle, bundles>>

-----------------------------------------------------------------------------
(* pkgman-to-bundle                                                           *)

ChannelsOf(csv) == {ch.name : ch \in {ch \in ToSet(package.channels) : ch.csv = csv.name}}

\* Mutant of GetChannelsByCSV: every version is offered in the default channel.
AddDefaultChannel(csv) == ChannelsOf(csv) \cup {package.default}

\* The channels whose head the version is, the default channel if there is none.
GetChannelsByCSV(csv) == IF ChannelsOf(csv) = {} THEN {package.default} ELSE ChannelsOf(csv)

HasPackageMetadata == package.channels # <<>> /\ package.default # ""

\* Two configurations are an error, found after the manifests were copied.
ScorecardConfigFails(dir) == dir.configs > 1

\* The configuration moves from the manifests to the tests.
WriteScorecardConfig(dir) == dir.configs = 1

\* The migrated version; its metadata comes last.
Bundled(dir) ==
    [csv |-> dir.csv, files |-> dir.files, config |-> WriteScorecardConfig(dir),
     metadata |-> IF ScorecardConfigFails(dir) THEN <<>>
                  ELSE GenerateMetadata(GetChannelsByCSV(dir.csv), package.default, WriteScorecardConfig(dir))]

\* BuildBundleImage: the n-th version is the last whose image is attempted.
Built(of, n) == n \in 1 .. Len(of)

\* The versions are migrated in order, up to the first that fails: because of its
\* configurations, or because its image (built after its metadata) cannot be built.
Migrate(built) ==
    LET of == Where(Versions, LAMBDA v : v \in DOMAIN package.dirs)
        bad == {i \in DOMAIN of : ScorecardConfigFails(package.dirs[of[i]])}
        done == {i \in DOMAIN of : i <= built /\ \A j \in bad : i <= j}
    IN  /\ Step
        /\ bundles = <<>>
        /\ HasPackageMetadata
        /\ Built(of, built)
        /\ bundles' = [v \in {of[i] : i \in done} |-> Bundled(package.dirs[v])]
        /\ made' = [made EXCEPT !.migrated = (built = Len(of) /\ bad = {})]
        /\ UNCHANGED <<project, base, bundle, package>>

-----------------------------------------------------------------------------

Next ==
    \/ \E f \in Features : EditProject(f)
    \/ EditBase
    \/ AdoptBase
    \/ \E v \in VersionSet, n \in 1 .. 2 : AddConfigs(v, n)
    \/ RemoveBundles
    \/ \E level \in {"default", "off", "on"} : GenerateKustomize(level)
    \/ \E f \in BundleFlags : GenerateBundle(f.mode, f.version, {"alpha"}, f.overwrite, f.extra)
    \/ \E f \in {f \in PackageFlags : ValidFlags(f)} : GeneratePackage(f.mode, f.version, f.from, f.channel, f.isDefault)
    \/ \E n \in DOMAIN Versions : Migrate(n)

Spec == Init /\ [][Next]_vars

-----------------------------------------------------------------------------
(* Properties                                                                 *)

Levels == {"default", "off", "on"}

DescriptionsOf(owned, gvks, generated) ==
    Where(owned, LAMBDA d : (DescToGVK(d) \in gvks) = generated)

\* "generate kustomize manifests" rewrites the list of owned descriptions by
\* position (definitions.go:104-139): no description that somebody wrote by hand
\* may be lost, doubled or overtaken by another, wherever the generated ones are
\* inserted, and each kind with markers is described once.
DescriptionsKept ==
    [][(\E level \in Levels : GenerateKustomize(level)) =>
        LET types == KindTypes(Packages, GVKsOf(project))
            gvks  == {GVKAt(Packages, t) : t \in types}
            old   == IF base = <<>> THEN <<>> ELSE base.owned
            gen   == DescriptionsOf(base'.owned, gvks, TRUE)
        IN  /\ DescriptionsOf(base'.owned, gvks, FALSE) = DescriptionsOf(old, gvks, FALSE)
            /\ Len(gen) = Cardinality(types)
            /\ {DescToGVK(d) : d \in ToSet(gen)} = gvks]_vars

\* Two CSVs have the same from the manifests.
Agree(t, u) ==
    /\ \A f \in {"permissions", "clusterPermissions", "deployments", "webhooks", "examples", "relatedImages"} : t[f] = u[f]
    /\ [i \in DOMAIN t.owned |-> KeyOf(t.owned[i])] = [i \in DOMAIN u.owned |-> KeyOf(u.owned[i])]

\* "A base CSV ... all non-metadata values in a base will be overwritten"
\* (bundle.go:52-53): whatever base the bundle's CSV was made from, also an
\* earlier generated CSV, the rest of it is what the manifests alone give.
BaseOnlyMetadata ==
    bundle # <<>> =>
        LET m == made.bundle
        IN  Agree(bundle.csv, CSVOfBundle(Collected(m.of, <<>>, m.mode), m.version, m.extra))

Files == {bundle.files[f] : f \in DOMAIN bundle.files}

\* What a binding gives an account of the CSV is in the CSV's permissions, which
\* hold nothing else; a binding for anybody else is in the bundle, with its role
\* unless that is shared with the CSV (see the README) and with its account.
Granted(c, accounts) ==
    LET bindings == {b \in ToSet(c["RoleBinding"] \o c["ClusterRoleBinding"]) : Refers(c, b)}
        Role(b)  == CHOOSE r \in ToSet(c[b.ref.kind]) : r.name = b.ref.name
        Given(kind, a) == UNION {Role(b).rules : b \in {b \in bindings :
                            b.kind = kind /\ \E s \in ToSet(b.subjects) : s.kind = "ServiceAccount" /\ s.name = a}}
        InCSV(perms, a) == IF a \in DOMAIN perms THEN perms[a] ELSE {}
    IN  /\ \A a \in accounts : /\ InCSV(bundle.csv.permissions, a) = Given("RoleBinding", a)
                               /\ InCSV(bundle.csv.clusterPermissions, a) = Given("ClusterRoleBinding", a)
        /\ \A b \in bindings : \A s \in ToSet(b.subjects) : ~IsAccount(s, accounts) =>
             /\ b \in Files
             /\ Role(b) \in Files \/ \E other \in bindings : /\ other.ref = b.ref
                                                            /\ \E t \in ToSet(other.subjects) : IsAccount(t, accounts)
             /\ \A sa \in ToSet(c["ServiceAccount"]) : (s.kind = sa.kind /\ s.name = sa.name) => sa \in Files

\* SplitCSVPermissionsObjects (collector/clusterserviceversion.go:37-137) divides
\* the RBAC objects between the CSV and the bundle: no grant is lost or invented.
GrantsKept ==
    bundle # <<>> =>
        LET c == Collected(made.bundle.of, made.bundle.base, made.bundle.mode)
        IN  Granted(c, Accounts(c, made.bundle.extra))

\* What the CSV speaks of is in the bundle: the CRDs it owns are in files (two
\* objects whose files would have one name get two, genutil.go:86-96), each CRD
\* with a conversion webhook has exactly one description with its path, although
\* descriptions are made for groups of CRDs (updaters.go:351-441), and its
\* service is there too, and a scorecard label has a configuration.
BundleSelfContained ==
    bundle # <<>> =>
        LET c == Collected(made.bundle.of, made.bundle.base, made.bundle.mode)
        IN  /\ \A d \in ToSet(bundle.csv.owned) :
                 \E crd \in {o \in Files : o.kind = "CustomResourceDefinition"} : KeyOf(d) \in ToSet(ServedVersions(crd))
            /\ \A crd \in ToSet(CRDs(c)) : \A svc \in ToSet(c["Service"]) :
                 (crd.hook # <<>> /\ crd.hook.service = svc.name) =>
                    /\ svc \in Files
                    /\ \E w \in bundle.csv.webhooks : /\ crd.name \in w.crds /\ w.path = crd.hook.path
                                                      /\ crd.api = "v1" => w.port = ContainerPort(svc, PortOf(crd.hook))
                                                      /\ \A v \in bundle.csv.webhooks \ {w} : crd.name \notin v.crds
            /\ bundle.metadata.tests => bundle.config

\* In Go a mention is of a type of its own package or of one imported there. A
\* field goes with its package, <<package, field>>: the fields of the structs that
\* some fields are of, and the inlined ones.
Meant(p, ref) ==
    IF ref.from = "" THEN {<<p, ref.name>>}
    ELSE IF ref.from \in DOMAIN Packages[p].imports THEN {<<Packages[p].imports[ref.from], ref.name>>}
    ELSE {}
TypesMeant(p, f) == {t \in UNION {Meant(p, ref) : ref \in f.types} : Known(Packages, t)}
FieldsOfType(t)  == {<<t[1], f>> : f \in ToSet(TypeAt(Packages, t).fields)}
FieldsOf(fields) == UNION {FieldsOfType(t) : t \in UNION {TypesMeant(pf[1], pf[2]) : pf \in fields}}
NameOf(f)  == IF f.json = "" THEN f.name ELSE f.json
Inlines(f) == f.embedded \/ (f.exported /\ NameOf(f) = "inline")
SpecOf(t)  == Child(TypeAt(Packages, t), "spec")[1]

\* The names of the marked fields of a kind's spec, of the structs that are
\* inlined in it, and of those inlined in them.
Marked(t) ==
    LET Inlined[n \in 0 .. MaxDepth] ==
          IF n = 0 THEN {<<t[1], SpecOf(t)>>} ELSE {pf \in FieldsOf(Inlined[n - 1]) : Inlines(pf[2])}
        fields == {pf[2] : pf \in UNION {FieldsOf(Inlined[n - 1]) : n \in 1 .. MaxDepth}}
    IN  {NameOf(f) : f \in {f \in fields : /\ f.exported /\ ~f.embedded /\ NameOf(f) \notin {"inline", "ignore"}
                                         /\ "spec" \in f.descriptors}}

\* The code searches the kind's package and its imports for every type, whatever
\* package mentions it: there it finds what is meant.
Near(p) == {p} \cup {Packages[p].imports[i] : i \in DOMAIN Packages[p].imports}
FieldsNear(t) ==
    {<<t[1], SpecOf(t)>>}
    \cup UNION {UNION {FieldsOfType(<<q, n>>) : n \in DOMAIN Packages[q].types} : q \in Near(t[1]) \cap Loaded(Packages)}
FoundAsMeant(t) ==
    \A pf \in FieldsNear(t) : TypesFound(Packages, t[1], pf[2]) = TypesMeant(pf[1], pf[2])

\* What the scorecard sees of the bundle, and the API types of its project.
Seen       == [csv |-> bundle.csv, objects |-> Files]
ProjectTypes == KindTypes(Packages, GVKsOf(made.bundle.of))
TypesOf(d) == {t \in ProjectTypes : t[2] = d.kind /\ Packages[t[1]].version = d.version}

\* The bundle's base was refreshed from the API types, no other CSV was printed,
\* and what the CSV owns are the CRDs of these types.
FromTypes ==
    /\ made.bundle.basedOn = [of |-> made.bundle.of]
    /\ \A o \in ToSet(Objects[made.bundle.of]) : o.kind # "ClusterServiceVersion"
    /\ \A d \in ToSet(bundle.csv.owned) : \E t \in ProjectTypes : KeyOf(d) = KeyOf(BuildCRDDescription(Packages, t))

\* An example says its kind and version, but the tests do not read its group.
Unambiguous == \A t, u \in ProjectTypes : t[2] = u[2] /\ Packages[t[1]].version = Packages[u[1]].version => t = u

\* The verdict of the scorecard's descriptor and resource tests (scorecard/tests/
\* olm.go) on a bundle whose base was refreshed from the API types follows from
\* the markers in their source: an example passes exactly if each field of its
\* spec is a marked field of the spec's struct or of one inlined in it, provided
\* that the kind's package and its imports mean the same types by what they
\* mention (ast.go:127-131 does not tell them apart). The first bundle in a
\* directory passes the bundle validation, the scorecard's and the command's.
ScorecardAgrees ==
    bundle # <<>> =>
        /\ FromTypes /\ Unambiguous /\ (\A t \in ProjectTypes : FoundAsMeant(t)) =>
             /\ RunTest("olm-spec-descriptors", Seen)
                  = Verdict(\E cr \in ToSet(bundle.csv.examples) :
                              ~cr.hasSpec \/ \E t \in TypesOf(cr) : ~(cr.spec \subseteq Marked(t)))
             /\ RunTest("olm-crds-have-resources", Seen)
                  = Verdict(\E d \in ToSet(bundle.csv.owned) : \E t \in TypesOf(d) : TypeAt(Packages, t).resources = {})
        /\ made.bundle.fresh =>
             RunTest("olm-bundle-validation", Seen) = "pass" /\ ValidateBundle(Seen) = "pass"

ChannelNames == {ch.name : ch \in ToSet(package.channels)}

\* The package file (packagemanifest.go:73-204) over any sequence of commands,
\* failed ones included: a channel has one head, the version it was last given
\* to; the default is one of the channels; a head whose directory is missing is
\* one whose last command failed; and a directory holds its own version.
PackageConsistent ==
    /\ Cardinality(ChannelNames) = Len(package.channels)
    /\ package.channels # <<>> => package.default \in ChannelNames
    /\ ChannelNames = DOMAIN made.heads
    /\ \A ch \in ToSet(package.channels) :
         /\ ch.csv = MakeCSVName(Operator, made.heads[ch.name])
         /\ made.heads[ch.name] \in DOMAIN package.dirs \cup made.failed
    /\ \A v \in DOMAIN package.dirs : package.dirs[v].csv.name = MakeCSVName(Operator, v)

\* pkgman-to-bundle (pkgmantobundle/cmd.go:149-233) over a package that any
\* commands made: after a complete migration every channel offers the head it
\* had, a version that heads no channel is offered in the default one only, and
\* a bundle that got its metadata, after a failure too, says it has tests
\* exactly if it holds their configuration.
MigratedAsPublished ==
    /\ \A v \in DOMAIN bundles : bundles[v].metadata # <<>> => bundles[v].metadata.tests = bundles[v].config
    /\ made.migrated =>
         /\ DOMAIN bundles = DOMAIN package.dirs
         /\ \A ch \in ToSet(package.channels), v \in DOMAIN bundles :
              (ch.name \in bundles[v].metadata.channels)
                <=> \/ ch.csv = bundles[v].csv.name
                    \/ /\ ch.name = package.default
                       /\ \A other \in ToSet(package.channels) : other.csv # bundles[v].csv.name
=============================================================================
