----------------------------- MODULE BundleTests -----------------------------
(* internal/scorecard/tests: the checks that the scorecard's test image makes *)
(* of a bundle, a record of its CSV and the objects in its files. Module      *)
(* Scorecard runs them and sees their verdicts only. The annotation with the  *)
(* examples is written by the generator, so that it can be read.              *)
EXTENDS Collector

Verdict(failed) == IF failed THEN "fail" ELSE "pass"

CRDsOf(bundle) == {o \in bundle.objects : o.kind = "CustomResourceDefinition"}

\* The first owned description of the example's kind and version (not group).
OwnedOf(csv, cr) == Where(csv.owned, LAMBDA d : d.kind = cr.kind /\ d.version = cr.version)

\* A missing spec is a suggestion only.
CheckSpec(bundle) == Verdict(FALSE)

\* The fields of an example are validated by every CRD version of its kind that
\* has a schema, served or not.
IsCRFromCRDApi(cr, crd) ==
    \A v \in ToSet(crd.versions) :
        (v.name = cr.version /\ crd.crkind = cr.kind /\ v.schema # <<>>)
            => cr.spec \subseteq v.schema.spec /\ cr.status \subseteq v.schema.status

CRDsHaveValidation(bundle) ==
    Verdict(\E cr \in ToSet(bundle.csv.examples) : \E crd \in CRDsOf(bundle) : ~IsCRFromCRDApi(cr, crd))

CRDsHaveResources(bundle) == Verdict(\E d \in ToSet(bundle.csv.owned) : d.resources = {})

\* A descriptor's path is compared with the name of a field below the spec: the
\* deeper fields have no say.
Names(path, key) == Len(path) = 1 /\ path[1].tag = key

SpecDescribed(cr, csv) ==
    /\ cr.hasSpec
    /\ OwnedOf(csv, cr) # <<>>
    /\ \A key \in cr.spec : \E path \in OwnedOf(csv, cr)[1].specs : Names(path, key)

\* One descriptor is enough for a status.
StatusDescribed(cr, csv) ==
    /\ OwnedOf(csv, cr) # <<>>
    /\ cr.status # {} => OwnedOf(csv, cr)[1].statuses # {}

SpecDescriptors(bundle) ==
    Verdict(\E cr \in ToSet(bundle.csv.examples) : ~SpecDescribed(cr, bundle.csv))

StatusDescriptors(bundle) ==
    Verdict(\E cr \in ToSet(bundle.csv.examples) : ~StatusDescribed(cr, bundle.csv))

\* The bundle validator of operator-framework/api: the owned kinds and versions
\* are those of the CRDs in the files. The validators of the format, of the CSV
\* and of the objects, code of other projects as well, are taken to find nothing.
BundleValidation(bundle) ==
    LET served == UNION {ToSet(ServedVersions(crd)) : crd \in CRDsOf(bundle)}
    IN  Verdict({[name |-> d.name, version |-> d.version, kind |-> d.kind] : d \in ToSet(bundle.csv.owned)}
                # served)

\* ValidateBundleContent of `bundle validate': the files hold only what OLM applies,
\* and the CSV and the CRDs are validated as by the scorecard.
ValidateBundleContent(bundle) ==
    LET applied == Supported \cup {"Service", "ServiceAccount", "Role", "ClusterRole",
                                   "RoleBinding", "ClusterRoleBinding"}
    IN  {Verdict(\E o \in bundle.objects \ CRDsOf(bundle) : o.kind \notin applied),
         BundleValidation(bundle)}

\* validate.Result: an error of any validator is the command's failure.
Combined(results) == Verdict("fail" \in results)

ValidateBundle(bundle) == Combined(ValidateBundleContent(bundle))

\* The test image: one verdict for the name of the test, failure for another name.
RunTest(test, bundle) ==
    CASE test = "basic-check-spec"         -> CheckSpec(bundle)
      [] test = "olm-bundle-validation"    -> BundleValidation(bundle)
      [] test = "olm-crds-have-validation" -> CRDsHaveValidation(bundle)
      [] test = "olm-crds-have-resources"  -> CRDsHaveResources(bundle)
      [] test = "olm-spec-descriptors"     -> SpecDescriptors(bundle)
      [] test = "olm-status-descriptors"   -> StatusDescriptors(bundle)
      [] OTHER                             -> "fail"
=============================================================================
