------------------------------- MODULE Catalog ------------------------------
(***************************************************************************)
(* File-based catalogs (FBC) as `run bundle' and `run bundle-upgrade' make *)
(* them: bundle/install.go, registry/index_image.go and fbcutil.           *)
(*                                                                         *)
(* A catalog has packages [name, channel], the default one, channels       *)
(* [name, package, entries], whose entries are [name, replaces], and       *)
(* bundles [name, package].  An operator that returns a catalog and an     *)
(* error in the code returns a catalog or None here; one that depends on   *)
(* the order of a Go map returns the set of its outcomes.  Where bundles   *)
(* are left out the others keep their numbers: only an index image's       *)
(* bundles are a sequence.                                                 *)
(***************************************************************************)
EXTENDS Naturals, SequencesExt

CONSTANTS
    Package,         \* the package of the operator
    DefaultChannel,  \* operator-sdk-run-bundle
    MaxConfigMap,    \* what fits in a ConfigMap, compressed: see Size
    None

EmptyCatalog == [packages |-> {}, channels |-> <<>>, bundles |-> <<>>]

\* A catalog as an index image has it.
IsCatalog(c) ==
    /\ DOMAIN c = DOMAIN EmptyCatalog
    /\ IsFiniteSet(c.packages)
    /\ c.channels \in Seq(ToSet(c.channels)) /\ c.bundles \in Seq(ToSet(c.bundles))

Entry(name, replaces) == [name |-> name, replaces |-> replaces]
Channel(name, entries) == [name |-> name, package |-> Package, entries |-> entries]
PackageBlob(channel) == [name |-> Package, channel |-> channel]
BundleBlob(name) == [name |-> name, package |-> Package]

NamesIn(seq) == {seq[i].name : i \in DOMAIN seq}
Of(seq, name) == {i \in DOMAIN seq : seq[i].package = Package /\ seq[i].name = name}

\* The names that nothing replaces: the code takes the first in map order.
ChannelHeads(entries) == NamesIn(entries) \ {entries[i].replaces : i \in DOMAIN entries}

----------------------------------------------------------------------------
(* ConvertToModel of operator-registry, for one package                    *)

Duplicates(seq) ==
    \E i, j \in DOMAIN seq : i # j /\ seq[i].name = seq[j].name
                             /\ ("package" \in DOMAIN seq[i] => seq[i].package = seq[j].package)

InChannels(c, package) ==
    UNION {NamesIn(c.channels[i].entries) : i \in {j \in DOMAIN c.channels :
                                                     c.channels[j].package = package}}

Valid(c) ==
    /\ c # EmptyCatalog
    /\ \A i \in DOMAIN c.channels :
          /\ \E p \in c.packages : p.name = c.channels[i].package
          /\ ~Duplicates(c.channels[i].entries)
          /\ \E h \in ChannelHeads(c.channels[i].entries) :
                ChannelHeads(c.channels[i].entries) = {h}
    /\ ~Duplicates(c.bundles)
    /\ \A p \in c.packages :
          /\ \E i \in DOMAIN c.channels :
                c.channels[i].package = p.name /\ c.channels[i].name = p.channel
          /\ InChannels(c, p.name) =
                {c.bundles[i].name : i \in {j \in DOMAIN c.bundles : c.bundles[j].package = p.name}}
    /\ \A i \in DOMAIN c.bundles : \E p \in c.packages : p.name = c.bundles[i].package

\* ValidateAndStringify
Validated(c) == IF c # None /\ Valid(c) THEN c ELSE None

----------------------------------------------------------------------------
(* run bundle                                                              *)

CreateFBC(bundle) ==
    [packages |-> {PackageBlob(DefaultChannel)},
     channels |-> <<Channel(DefaultChannel, <<Entry(bundle, None)>>)>>,
     bundles |-> <<BundleBlob(bundle)>>]

\* The bundle added to an index image that must have neither it nor the
\* channel.  The packages of an index that has the package are dropped.
GenerateFBC(index, bundle) ==
    LET fbc == CreateFBC(bundle) IN
    IF Of(index.bundles, bundle) # {} \/ Of(index.channels, DefaultChannel) # {} THEN None
    ELSE [packages |-> IF \E p \in index.packages : p.name = Package THEN {}
                       ELSE index.packages \cup fbc.packages,
          channels |-> index.channels \o fbc.channels,
          bundles |-> index.bundles \o fbc.bundles]

\* isDefault: is the index image the one that is used if none is given?
GenerateFBCContent(isDefault, index, bundle) ==
    Validated(IF isDefault THEN CreateFBC(bundle) ELSE GenerateFBC(index, bundle))

----------------------------------------------------------------------------
(* run bundle-upgrade                                                      *)

\* The first upgrade of an operator that was installed with OLM.
HandleTraditionalUpgrade(index, bundle, channel) ==
    LET at == Of(index.channels, channel)
        first == CHOOSE i \in at : \A j \in at : i <= j
        added == [index EXCEPT !.bundles = Append(@, BundleBlob(bundle))]
    IN  IF at = {} THEN {Validated(added)}
        ELSE IF ChannelHeads(index.channels[first].entries) = {} THEN {None}
        ELSE {Validated([added EXCEPT !.channels[first].entries =
                            Append(@, Entry(bundle, head))]) :
                 head \in ChannelHeads(index.channels[first].entries)}

\* Every bundle replaces the one before it, the first one the channel's head.
ChainOf(refs, head) ==
    [i \in DOMAIN refs |-> Entry(refs[i], IF i = 1 THEN head ELSE refs[i - 1])]

\* The bundles that were injected so far and the new one, in a new channel
\* or, each in place of the one before it, in the index's channel, whose place
\* in the index is used in a list that has only this channel: an index out of
\* range ends the command (in a panic) as an error does, before it changed anything.
UpgradeFBC(index, refs, channel) ==
    LET at == Of(index.channels, channel)
        first == CHOOSE i \in at : \A j \in at : i <= j
        catalog(entries) ==
            [packages |-> {PackageBlob(channel)},
             channels |-> <<Channel(channel, entries)>>,
             bundles |-> [i \in {j \in DOMAIN refs : BundleBlob(refs[j]) \notin ToSet(index.bundles)} |->
                             BundleBlob(refs[i])]]
    IN  IF at = {} THEN {catalog(ChainOf(refs, None))}
        ELSE IF \/ Last(refs) \in NamesIn(index.channels[first].entries)
                \/ ChannelHeads(index.channels[first].entries) = {}
                \/ first # 1
             THEN {None}
        ELSE {catalog(<<Last(ChainOf(refs, head))>>) :
                 head \in ChannelHeads(index.channels[first].entries)}

\* The default index image is not rendered.
RunFBCUpgrade(isDefault, index, previous, bundle, channel) ==
    {Validated(c) : c \in UpgradeFBC(IF isDefault THEN EmptyCatalog ELSE index,
                                     Append(previous, bundle), channel)}

----------------------------------------------------------------------------
(* ConfigMaps that hold a catalog                                          *)

\* The documents of a catalog: packages, channels, bundles. (They are written
\* package by package, which only decides which ConfigMap takes a document.)
Docs(c) ==
    IF c = None THEN <<>>
    ELSE SetToSeq(c.packages) \o c.channels \o SetToSeq({c.bundles[i] : i \in DOMAIN c.bundles})

IsBundle(doc) == DOMAIN doc = {"name", "package"}

\* What opm serves from a set of documents, in whatever files and order.
Contents(docs) ==
    [channels |-> {d \in docs : "entries" \in DOMAIN d}, bundles |-> {d \in docs : IsBundle(d)}]

Offers(c) ==
    IF c = None THEN None
    ELSE Contents(c.packages \cup ToSet(c.channels) \cup {c.bundles[i] : i \in DOMAIN c.bundles})

\* A bundle has its CSV and its other objects in it.
Size(docs) == Len(docs) + Cardinality({i \in DOMAIN docs : IsBundle(docs[i])})

\* getConfigMaps: how many of the documents that are left the next ConfigMap takes.
\* Each goes in if it fits with those before it; the first is not measured.
InNextConfigMap(docs) ==
    Max({n \in DOMAIN docs : n = 1 \/ Size(SubSeq(docs, 1, n)) <= MaxConfigMap})

----------------------------------------------------------------------------
(* SQLite index images                                                     *)

\* What `opm registry add' in mode does to the catalog of a database: in
\* semver mode the bundle goes after the others, in replaces mode after the
\* one that its CSV names.
AddToDatabase(db, item, channel, replaces) ==
    LET at == IF db = None THEN {} ELSE Of(db.channels, channel)
        entries == IF at = {} THEN <<>> ELSE db.channels[CHOOSE i \in at : TRUE].entries
        old == IF item.mode = "replaces" THEN replaces
               ELSE IF entries = <<>> THEN None ELSE Last(entries).name
    IN  IF \/ db = None \/ Of(db.bundles, item.bundle) # {}
           \/ old \notin NamesIn(entries) \cup {None}
        THEN None
        ELSE [packages |-> db.packages \cup {PackageBlob(channel)},
              channels |-> Append(SelectSeq(db.channels, LAMBDA c : c.name # channel),
                                  Channel(channel, Append(entries, Entry(item.bundle, old)))),
              bundles |-> Append(db.bundles, BundleBlob(item.bundle))]

\* The container adds one bundle after the other, and serves if all succeed.
Database(db, items, channel, Replaces) ==
    FoldLeft(LAMBDA acc, item : AddToDatabase(acc, item, channel, Replaces[item.bundle]),
             db, items)
=============================================================================
