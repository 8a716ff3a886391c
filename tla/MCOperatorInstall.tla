-------------------------- MODULE MCOperatorInstall -------------------------
(***************************************************************************)
(* Three bundles of a package; index images: the default one, one with     *)
(* another package, two with the package, in one of them behind another    *)
(* channel and with a second bundle, and a database.                       *)
(***************************************************************************)
EXTENDS OperatorInstall, TLC

MCReplaces == ("b1" :> None) @@ ("b2" :> "b1") @@ ("b3" :> "b2")
Other == [packages |-> {[name |-> "q", channel |-> "stable"]},
          channels |-> <<[name |-> "stable", package |-> "q", entries |-> <<Entry("q1", None)>>]>>,
          bundles |-> <<[name |-> "q1", package |-> "q"]>>]
Stable == [packages |-> {PackageBlob("stable")},
           channels |-> <<Channel("stable", <<Entry("b1", None)>>)>>,
           bundles |-> <<BundleBlob("b1")>>]
Newer == [Stable EXCEPT !.channels = <<[name |-> "alpha", package |-> "p",
                                        entries |-> <<Entry("b1", None)>>],
                                       Channel("stable", <<Entry("b1", None), Entry("b2", "b1")>>)>>,
                        !.bundles = Append(@, BundleBlob("b2"))]
MCIndex == ("opm" :> [fbc |-> TRUE, opm |-> TRUE, catalog |-> EmptyCatalog])
        @@ ("other" :> [fbc |-> TRUE, opm |-> FALSE, catalog |-> Other])
        @@ ("stable" :> [fbc |-> TRUE, opm |-> FALSE, catalog |-> Stable])
        @@ ("newer" :> [fbc |-> TRUE, opm |-> FALSE, catalog |-> Newer])
        @@ ("sqlite" :> [fbc |-> FALSE, opm |-> FALSE, catalog |-> Other])
MCModes == {"OwnNamespace", "SingleNamespace"}
MCListed == MCModes \cup {"MultiNamespace"}
MCTargetsOf == ("OwnNamespace" :> {"ns"}) @@ ("SingleNamespace" :> {"else"})
            @@ ("MultiNamespace" :> {"ns", "else"}) @@ ("AllNamespaces" :> {})
MCManifests == {<<"b1">>, <<"b1", "b2">>}
MCTraditional == [installed : {"b1", "b2"}, index : {"stable", "newer"}, channel : {"stable"}]
                    \ {[installed |-> "b2", index |-> "stable", channel |-> "stable"]}
=============================================================================
