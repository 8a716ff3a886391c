------------------------ MODULE ClusterServiceVersion ------------------------
(* internal/generate/clusterserviceversion: what a collection of manifests    *)
(* (module Collector) turns a base CSV into. Only the values that come from   *)
(* the manifests are computed; the metadata of the base (display name, links, *)
(* icon...) is one value that nothing here reads.                             *)
EXTENDS Collector

CONSTANT Stem       \* a service's name without the suffix "-service"

\* A CSV's name is made of the operator's name and the version.
MakeCSVName(operator, version) == <<operator, version>>

NoPermissions == <<>>       \* the function of no service account
NoName == ""

NewBase(operator) ==
    [kind |-> "ClusterServiceVersion", name |-> MakeCSVName(operator, "0.0.0"), version |-> "0.0.0",
     replaces |-> <<>>, meta |-> "default", annotated |-> TRUE, strategy |-> "", supported |-> TRUE,
     permissions |-> NoPermissions, clusterPermissions |-> NoPermissions, deployments |-> <<>>,
     owned |-> <<>>, examples |-> <<>>, webhooks |-> {}, relatedImages |-> <<>>]

-----------------------------------------------------------------------------
(* Permissions                                                                *)

\* The rules that the bindings give each account from the roles of the CSV.
Rules(bindings, roles, account) ==
    UNION {r.rules : r \in {r \in roles : \E b \in ToSet(bindings) :
        /\ b.ref.kind = r.kind /\ b.ref.name = r.name
        /\ \E s \in ToSet(b.subjects) : s.kind = "ServiceAccount" /\ s.name = account}}

\* Accounts without rules are left out.
Permissions(bindings, roles, accounts) ==
    [a \in {a \in accounts : Rules(bindings, roles, a) # {}} |-> Rules(bindings, roles, a)]

\* Mutant of ApplyRoles: the permissions of the base are kept.
AddRoles(c, csv, accounts) ==
    [csv EXCEPT !.permissions = Permissions(c["RoleBinding"], InPerms(c, accounts), accounts) @@ @]

ApplyRoles(c, csv, accounts) ==
    [csv EXCEPT !.permissions = Permissions(c["RoleBinding"], InPerms(c, accounts), accounts)]

\* The kind of the reference of a ClusterRoleBinding is not looked at.
ApplyClusterRoles(c, csv, accounts) ==
    LET AsCluster(b) == [b EXCEPT !.ref.kind = "ClusterRole"]
        bs == c["ClusterRoleBinding"]
    IN  [csv EXCEPT !.clusterPermissions =
            Permissions([i \in DOMAIN bs |-> AsCluster(bs[i])], InClusterPerms(c, accounts), accounts)]

-----------------------------------------------------------------------------
(* Deployments and their images                                               *)

\* A deployment's containers are followed by its init containers. WATCH_NAMESPACE,
\* where one that is no init container has it, follows the operator group.
SetNamespacedFields(dep) ==
    [dep EXCEPT !.containers = [i \in DOMAIN dep.containers |->
        [dep.containers[i] EXCEPT !.env = [j \in DOMAIN @ |->
            IF @[j].name = "WATCH_NAMESPACE" /\ ~dep.containers[i].init THEN [@[j] EXCEPT !.value = "olm.targetNamespaces"] ELSE @[j]]]]]

ApplyDeployments(c, csv) ==
    [csv EXCEPT !.deployments =
        [i \in DOMAIN c["Deployment"] |-> SetNamespacedFields(c["Deployment"][i])]]

\* RELATED_IMAGE_ variables in order, each with the container it was found in:
\* the deployment's name is enough if it has only one.
RelatedVariables(c) ==
    FlattenSeq([i \in DOMAIN c["Deployment"] |->
        LET dep == c["Deployment"][i]
        IN  FlattenSeq([k \in DOMAIN dep.containers |->
              LET ref == IF Len(dep.containers) > 1 THEN <<dep.name, dep.containers[k].name>> ELSE <<dep.name>>
                  env == Where(dep.containers[k].env, LAMBDA e : e.related)
              IN  [e \in DOMAIN env |-> [name |-> env[e].name, image |-> env[e].value, ref |-> ref]]])])

\* A variable whose value comes from elsewhere is an error.
ImagesReadable(c) == \A v \in ToSet(RelatedVariables(c)) : v.image # "valueFrom"

\* A name with an image is collected once.
Collect(variables) ==
    FoldLeft(LAMBDA s, v : IF \E u \in ToSet(s) : u.name = v.name /\ u.image = v.image THEN s ELSE Append(s, v),
             <<>>, variables)

\* A name with two images gets the container as a prefix; an image with two
\* names is listed where it is first found, without a name.
CollectedRelatedImages(vs) ==
    LET SameName(v)  == Where(vs, LAMBDA u : u.name = v.name)
        SameImage(v) == Where(vs, LAMBDA u : u.image = v.image)
        Listed == Where(vs, LAMBDA v : SameImage(v)[1].name = v.name)
        Name(v) == IF Len(SameImage(v)) > 1 THEN <<>>
                   ELSE IF Len(SameName(v)) > 1 THEN v.ref \o <<v.name>> ELSE <<v.name>>
    IN  [i \in DOMAIN Listed |-> [name |-> Name(Listed[i]), image |-> Listed[i].image]]

FindRelatedImages(c) == CollectedRelatedImages(Collect(RelatedVariables(c)))

-----------------------------------------------------------------------------
(* Custom resources                                                           *)

KeyOf(d) == [name |-> d.name, version |-> d.version, kind |-> d.kind]

Described(d) ==
    [name |-> d.name, version |-> d.version, kind |-> d.kind,
     about |-> "none", resources |-> {}, specs |-> {}, statuses |-> {}]

\* The served versions of the collected CRDs, in their order; the base's
\* description of a version is kept, the last one if it has several.
ApplyCustomResourceDefinitions(c, csv) ==
    LET keys == Definitions(CRDs(c))
        Of(k) == Where(csv.owned, LAMBDA d : KeyOf(d) = KeyOf(k))
    IN  [csv EXCEPT !.owned = [i \in DOMAIN keys |->
            IF Of(keys[i]) = <<>> THEN Described(keys[i]) ELSE Last(Of(keys[i]))]]

ApplyCustomResources(c, csv) == [csv EXCEPT !.examples = c["CustomResources"]]

-----------------------------------------------------------------------------
(* Webhooks                                                                   *)

DefaultPort == 443

PortOf(ref) == IF ref.port = 0 THEN DefaultPort ELSE ref.port

\* The first deployment whose pods have all labels of the service's selector.
FindMatchingDepNameFromService(c, svc) ==
    LET match == Where(c["Deployment"], LAMBDA d : d.labels # {} /\ svc.selector \subseteq d.labels)
    IN  IF match = <<>> THEN NoName ELSE match[1].name

\* A service without selector points at something that is not a deployment.
FindMatchingDeployment(c, svc) ==
    IF svc.external \/ svc.selector = {} THEN NoName ELSE FindMatchingDepNameFromService(c, svc)

\* The port of the description, 0 if the service does not have it.
ContainerPort(svc, port) == IF port \in svc.ports THEN port ELSE 0

\* An admission webhook; without service, an external server is meant.
AdmissionDescription(c, hook) ==
    LET svcs == Where(c["Service"], LAMBDA s : s.name = hook.service)
        dep  == IF svcs = <<>> THEN NoName ELSE FindMatchingDeployment(c, svcs[1])
    IN  IF hook.service = NoName
        THEN [type |-> hook.kind, name |-> hook.name, crds |-> {}, deployment |-> NoName, port |-> 0, path |-> NoName]
        ELSE [type |-> hook.kind, name |-> hook.name, crds |-> {},
              deployment |-> IF dep = NoName THEN Stem[hook.service] ELSE dep,
              port |-> IF svcs = <<>> THEN 0 ELSE ContainerPort(svcs[1], PortOf(hook)),
              path |-> hook.path]

\* The CRDs that the service converts; of a v1beta1 CRD's reference only the path is read.
Converted(c, service) ==
    LET Refs(s) == [i \in DOMAIN s |-> [crd |-> s[i].name, path |-> s[i].hook.path,
                                        port |-> IF s[i].api = "v1" THEN s[i].hook.port ELSE 0,
                                        api |-> s[i].api]]
    IN  ToSet(Refs(Where(CRDs(c), LAMBDA d : d.hook # <<>> /\ d.hook.service = service)))

\* The path of a conversion webhook may be left out; the generator needs it.
PathsGiven(c) == \A s \in ToSet(c["Service"]) : \A r \in Converted(c, s.name) : r.path # NoName

\* CRDs are grouped by their path and the pointer to their port: those that
\* leave it out share a group, every other one has its own. A group is described
\* from any of its members.
CRDGroups(refs) ==
    {{r \in refs : r.port = 0 /\ r.path = p} : p \in {r.path : r \in {r \in refs : r.port = 0}}}
    \cup {{r} : r \in {r \in refs : r.port # 0}}

ConversionDescriptions(c, svc) ==
    LET dep == FindMatchingDepNameFromService(c, svc)
        Description(group) ==
          LET r == CHOOSE r \in group : TRUE
          IN  [type |-> "ConversionWebhook", name |-> NoName, crds |-> {m.crd : m \in group},
               deployment |-> IF dep = NoName /\ r.api = "v1" THEN Stem[svc.name] ELSE dep,
               port |-> ContainerPort(svc, PortOf(r)), path |-> r.path]
    IN  {Description(g) : g \in CRDGroups(Converted(c, svc.name))}

ApplyWebhooks(c, csv) ==
    LET hooks == c["ValidatingWebhookConfiguration"] \o c["MutatingWebhookConfiguration"]
    IN  [csv EXCEPT !.webhooks = {AdmissionDescription(c, h) : h \in ToSet(hooks)}
                                 \cup UNION {ConversionDescriptions(c, s) : s \in ToSet(c["Service"])}]

-----------------------------------------------------------------------------
(* The generator                                                              *)

\* Only a deployment strategy, which is the default, is filled in.
Apply(c, csv, accounts) ==
    LET s == IF csv.strategy = "" THEN [csv EXCEPT !.strategy = "deployment"] ELSE csv
        t == IF s.strategy = "deployment"
             THEN ApplyDeployments(c, ApplyClusterRoles(c, ApplyRoles(c, s, accounts), accounts)) ELSE s
    IN  ApplyWebhooks(c, ApplyCustomResources(c, ApplyCustomResourceDefinitions(c, t)))

\* The first collected CSV of the operator, or the default.
BaseOf(c, operator) ==
    LET own == Where(c["ClusterServiceVersion"], LAMBDA b : b.name[1] = operator)
    IN  IF own = <<>> THEN NewBase(operator) ELSE own[1]

Generated(c, operator, version, from, images, extra) ==
    LET base == BaseOf(c, operator)
        named == IF version = "" THEN base
                 ELSE [base EXCEPT !.name = MakeCSVName(operator, version), !.version = version]
        next == IF from = "" THEN named ELSE [named EXCEPT !.replaces = MakeCSVName(operator, from)]
    IN  Apply(c, [next EXCEPT !.relatedImages = images], Accounts(c, extra))

\* The validation of operator-framework/api: an install mode must be supported,
\* a kind and version owned once, and an example's CRD owned.
ValidCSV(csv) ==
    /\ csv.supported
    /\ \A i, j \in DOMAIN csv.owned : KeyOf(csv.owned[i]) = KeyOf(csv.owned[j]) => i = j
    /\ \A e \in ToSet(csv.examples) : \E d \in ToSet(csv.owned) : d.kind = e.kind /\ d.version = e.version

\* The generator ends in a panic when a Role was lost (see NilRole), when a
\* conversion webhook has no path and when it dates a base without annotations.
Generates(c, csv, accounts) ==
    /\ csv.strategy = "deployment" => ~NilRole(c, accounts)
    /\ PathsGiven(c)
    /\ csv.annotated
    /\ ValidCSV(csv)
=============================================================================
