------------------------------ MODULE MCGenerate ------------------------------
(* Instance of Generate: an operator with one deployment and one API type,    *)
(* and three features that a project may have or not.                         *)
EXTENDS Generate

MCFeatures == {"hooks", "beta", "broken"}

Object(f, o) == [feature |-> f, object |-> o]

Account(n)          == [kind |-> "ServiceAccount", name |-> n]
RoleObj(k, n, r)    == [kind |-> k, name |-> n, rules |-> r]
Bind(k, n, rk, r, s) == [kind |-> k, name |-> n, ref |-> [kind |-> rk, name |-> r], subjects |-> s]

CRD(n, k, api, vs, hook) ==
    [kind |-> "CustomResourceDefinition", name |-> n, api |-> api, crkind |-> k, versions |-> vs, hook |-> hook]
Served(v) == [name |-> v, served |-> TRUE, schema |-> <<>>]

Foo == CRD("foos", "Foo", "v1",
           <<[name |-> "v0", served |-> FALSE, schema |-> [spec |-> {}, status |-> {}]],
             [name |-> "v1", served |-> TRUE, schema |-> [spec |-> {"size", "image"}, status |-> {}]]>>, <<>>)

Variable(n, v, rel) == [name |-> n, value |-> v, related |-> rel]

\* "leader" is shared by the operator's account and another one; "viewer" is not.
MCManifests == <<
    Object("core", [kind |-> "Deployment", name |-> "manager", sa |-> "ctrl", labels |-> {"l", "m"},
                    containers |-> <<[name |-> "op", init |-> FALSE, env |-> <<Variable("WATCH_NAMESPACE", "ns", FALSE),
                                                                               Variable("RELATED_A", "img1", TRUE)>>],
                                     [name |-> "migrate", init |-> TRUE, env |-> <<Variable("RELATED_A", "img2", TRUE)>>]>>]),
    Object("core", Account("ctrl")), Object("core", Account("other")),
    Object("core", RoleObj("Role", "leader", {"lease"})),
    Object("core", Bind("RoleBinding", "leader", "Role", "leader", <<Account("ctrl"), Account("other")>>)),
    Object("core", RoleObj("ClusterRole", "manager", {"pods", "foos"})),
    Object("core", Bind("ClusterRoleBinding", "manager", "ClusterRole", "manager", <<Account("ctrl")>>)),
    Object("core", RoleObj("ClusterRole", "viewer", {"get"})),
    Object("core", Bind("RoleBinding", "viewer", "ClusterRole", "viewer", <<Account("other")>>)),
    Object("core", Foo),
    Object("core", [kind |-> "Foo", name |-> "sample", group |-> "g", version |-> "v1", hasSpec |-> TRUE,
                    spec |-> {"size", "image"}, status |-> {}]),
    Object("hooks", [kind |-> "Configuration", name |-> "config"]),
    Object("hooks", [kind |-> "Service", name |-> "hook-service", selector |-> {"l"}, ports |-> {443, 9443}, external |-> FALSE]),
    Object("hooks", CRD("bars", "Bar", "v1", <<Served("v1")>>, [service |-> "hook-service", port |-> 0, path |-> "/convert"])),
    Object("hooks", CRD("bazs", "Baz", "v1", <<Served("v1")>>, [service |-> "hook-service", port |-> 9443, path |-> "/convert"])),
    Object("hooks", [kind |-> "Bar", name |-> "sample", group |-> "g", version |-> "v1", hasSpec |-> TRUE, spec |-> {"mode"}, status |-> {}]),
    Object("hooks", [kind |-> "ValidatingWebhookConfiguration", name |-> "v",
                     hooks |-> <<[kind |-> "", name |-> "vfoo", service |-> "hook-service", port |-> 0, path |-> "/validate"]>>]),
    \* not an example of Foo, whose group is another
    Object("hooks", [kind |-> "Foo", name |-> "alien", group |-> "h", version |-> "v1"]),
    Object("hooks", [kind |-> "ConfigMap", name |-> "cm", group |-> "", version |-> "v1"]),
    Object("beta", CRD("foos", "Foo", "v1beta1", <<Served("v2")>>, <<>>)),
    \* a second binding of a Role, which applyRoles cannot take
    Object("broken", Bind("RoleBinding", "leader2", "Role", "leader", <<Account("ctrl")>>)) >>

Field(n, json, types, descs) ==
    [name |-> n, json |-> json, embedded |-> FALSE, exported |-> TRUE, array |-> FALSE,
     types |-> types, descriptors |-> descs]
Embedded(types) == [Field("Common", "", types, {}) EXCEPT !.embedded = TRUE]
Local(n)        == [from |-> "", name |-> n]
In(p, n)        == [from |-> p, name |-> n]
Struct(fields)  == [doc |-> "", order |-> 0, resources |-> {}, crd |-> "", fields |-> fields]
Kind(doc, order, res, crd, spec, status) ==
    [doc |-> doc, order |-> order, resources |-> res, crd |-> crd,
     fields |-> <<Field("Spec", "spec", {Local(spec)}, {}), Field("Status", "status", {Local(status)}, {})>>]

\* Bar's only field has no marker, and Bar no resources; Foo's spec inlines a
\* struct of another package.
MCPackages == <<
    [group |-> "g", version |-> "v1", skip |-> FALSE, imports |-> ("shared" :> 2), types |->
        ("Foo" :> Kind("doc of Foo", 1, {<<"Deployment", "v1">>}, "foos", "FooSpec", "FooStatus")) @@
        ("FooSpec" :> Struct(<<Field("Size", "size", {Local("int32"), Local("Image")}, {"spec"}),
                               Embedded({In("shared", "Common")})>>)) @@
        ("Image" :> Struct(<<Field("Tag", "mode", {}, {"spec"})>>)) @@
        ("FooStatus" :> Struct(<<Field("Nodes", "nodes", {}, {"status"})>>)) @@
        ("Bar" :> Kind("doc of Bar", MaxOrder, {}, "bars", "BarSpec", "FooStatus")) @@
        ("BarSpec" :> Struct(<<Field("Mode", "mode", {Local("Image")}, {})>>))],
    [group |-> "", version |-> "", skip |-> FALSE, imports |-> <<>>, types |->
        ("Common" :> Struct(<<Field("Image", "image", {Local("string")}, {"spec"}),
                              Field("Since", "since", {In("metav1", "Time")}, {})>>))],
    [group |-> "g", version |-> "v2", skip |-> TRUE, imports |-> <<>>, types |->
        ("Foo" :> Kind("doc of v2", 0, {}, "foos", "FooSpec", "FooStatus")) @@
        ("FooSpec" :> Struct(<<>>)) @@ ("FooStatus" :> Struct(<<>>))] >>

MCResources == [f \in {"core", "hooks", "beta", "broken"} |->
    CASE f = "core" -> {<<"g", "v1", "Foo">>} [] f = "hooks" -> {<<"g", "v1", "Bar">>}
      [] f = "beta" -> {<<"g", "v2", "Foo">>} [] OTHER -> {}]

MCGroupOf == [n \in {"foos", "bars", "bazs"} |-> "g"]

MCRank == (<<"bars", "Bar", "v1">> :> 1) @@ (<<"bazs", "Baz", "v1">> :> 2)
          @@ (<<"foos", "Foo", "v2">> :> 3) @@ (<<"foos", "Foo", "v1">> :> 4)

MCStem == [s \in {"hook-service"} |-> "hook"]

MCVersions == <<"1", "2">>

MCBundleFlags ==
    {[mode |-> m[1], version |-> m[2], overwrite |-> m[3], extra |-> m[4]] :
        m \in {<<"pipe", "1", FALSE, {}>>, <<"pipe", "", TRUE, {"other"}>>, <<"dirs", "2", TRUE, {}>>,
               <<"input", "1", TRUE, {"other"}>>}}

MCPackageFlags ==
    {[mode |-> m[1], version |-> m[2], from |-> m[3], channel |-> m[4], isDefault |-> m[5]] :
        m \in {<<"pipe", "1", "", "", FALSE>>, <<"pipe", "1", "", "beta", TRUE>>, <<"dirs", "2", "1", "", FALSE>>,
               <<"pipe", "2", "1", "beta", FALSE>>, <<"dirs", "2", "", "stable", TRUE>>}}
=============================================================================
