-------------------------- MODULE PreferenceOrder --------------------------
(***************************************************************************)
(* The order of preference of drivers: preferreddrivers.xml is read        *)
(* (xml.c) when the list of PPDs has been fetched (ppds.c:585-608), node   *)
(* by node, into two global arrays.                                        *)
(*                                                                         *)
(* A document is the sequence of its root's children, or NoDocument when   *)
(* it cannot be parsed or has another root.  A node is                     *)
(*   element    its name; "text" is what is between two elements           *)
(*   name, match     its attributes, NULL if it has none                   *)
(*   content         its text                                              *)
(*   children        the nodes in it                                       *)
(* The regular expressions are compiled and never used.                    *)
(***************************************************************************)
EXTENDS Texts

CONSTANTS NoDocument

VARIABLES
    document,     \* preferreddrivers.xml
    nodes,        \* what PreferredDrivers found
    drvtypes,     \* the types of drivers
    pordertypes,  \* the printers and the types to prefer for them
    pkghint,      \* the local of DriverTypes_load
    reading       \* "file", "types", "order", "read" or "crashed"

orderVars == <<document, nodes, drvtypes, pordertypes, pkghint, reading>>

NULL == <<>>
Unset == <<"unset">>

OrderInit ==
    /\ nodes = <<>>
    /\ drvtypes = <<>>
    /\ pordertypes = <<>>
    /\ pkghint = Unset
    /\ reading = "file"

Elements(node, element) == SelectSeq(node.children, LAMBDA c : c.element = element)

-----------------------------------------------------------------------------
(* What a node gives. *)

\* Where the PPDs of a name come from; Unset when nothing is written to the
\* string.
add_ppd_name(pattern) ==
    LET pieces == split(pattern, ":")
        drv == slice(pieces[2], 3)
        f == rfind(drv, <<"/">>)
    IN  IF pieces = <<>> THEN NULL
        ELSE IF pieces[1] # <<"drv">> \/ Len(pieces) = 1 THEN <<"driver">> \o pieces[1]
        ELSE IF startswith(<<"/", "/", "/">>, pieces[2]) /\ f # -1
        THEN <<"drv">> \o SubSeq(drv, 1, f + 1)
        ELSE Unset

\* The last ppdname counts.
Hint(node, old) ==
    LET names == Elements(node, "ppdname")
    IN  IF names = <<>> THEN old ELSE add_ppd_name(Last(names).match)

\* A hash table of names and matches.
Table(list, key(_)) == FoldLeft(LAMBDA t, c : (key(c.name) :> c.match) @@ t, <<>>, list)
Fields(deviceid) == Table(Elements(deviceid, "field"), strupr)
DeviceIds(node) ==
    LET ids_of == Elements(node, "deviceid") IN [i \in DOMAIN ids_of |-> Fields(ids_of[i])]

\* As many lines as there are line ends.
Lines(fit_node) ==
    LET lines == split(fit_node.content, "\n")
    IN  SubSeq(lines, 1, Min({Len(lines), count_tokens(fit_node.content, "\n")}))
Exact == <<"exact">>
ExactCmd == <<"exact", "-", "cmd">>
Fits(node) ==
    LET lines == UNION {ToSet(Lines(c)) : c \in ToSet(Elements(node, "fit"))}
        kinds == {strstrip(l) : l \in lines}
    IN  kinds \cup (IF Exact \in kinds THEN {ExactCmd} ELSE {})

\* More line ends than lines: pointers that nothing set are read.
LinesMissing(node) ==
    \E c \in ToSet(Elements(node, "fit")) :
        count_tokens(c.content, "\n") > Len(split(c.content, "\n"))

DriverType(node, hint) ==
    [name |-> node.name, pkghint |-> hint,
     attributes |-> Table(Elements(node, "attribute"), LAMBDA name : name),
     deviceid |-> DeviceIds(node), fit |-> Fits(node)]

\* The contents of the drivertypes in the elements of this name.
TypesIn(node, element) ==
    LET of(n) == LET types == Elements(n, "drivertype")
                 IN  [i \in DOMAIN types |-> types[i].content]
        lists == Elements(node, element)
    IN  FlattenSeq([i \in DOMAIN lists |-> of(lists[i])])
Printer(node) ==
    LET models == Elements(node, "make-and-model")
    IN  [make_and_model |-> [i \in DOMAIN models |-> models[i].match],
         deviceid |-> DeviceIds(node),
         drivertype_patterns |-> TypesIn(node, "drivers"),
         avoid |-> TypesIn(node, "avoid"),
         blacklist |-> TypesIn(node, "blacklist")]

\* An attribute that is used without looking whether it is there.
NamelessField(node) ==
    \E d \in ToSet(Elements(node, "deviceid")) :
        \E f \in ToSet(Elements(d, "field")) : f.name = NULL
TypeFails(node) ==
    \/ \E c \in ToSet(Elements(node, "ppdname")) : c.match = NULL
    \/ \E c \in ToSet(Elements(node, "attribute")) : c.name = NULL
    \/ NamelessField(node)
PrinterFails(node) ==
    \/ \E c \in ToSet(Elements(node, "make-and-model")) : c.match = NULL
    \/ NamelessField(node)

-----------------------------------------------------------------------------
(* The steps. *)

KnownNodes(d) ==
    SelectSeq(d, LAMBDA n : n.element \in {"drivertypes", "preferenceorder"})
PreferredDrivers ==
    /\ reading = "file"
    /\ IF document = NoDocument
       THEN reading' = "read" /\ UNCHANGED nodes
       ELSE /\ reading' = "types"
            /\ nodes' = KnownNodes(document)
    /\ UNCHANGED <<document, drvtypes, pordertypes, pkghint>>

\* The first node is taken for the types, the second for the order; one that is
\* not there is read behind the end of the array.
NodeMissing ==
    /\ \/ reading = "types" /\ Len(nodes) < 1
       \/ reading = "order" /\ Len(nodes) < 2
    /\ reading' = "crashed"
    /\ UNCHANGED <<document, nodes, drvtypes, pordertypes, pkghint>>

\* Each node in the first makes a type, also the text between two elements.  A
\* mistake: a type gets the hint of the type before it.
DriverTypes_load_late ==
    LET node == nodes[1].children[Len(drvtypes) + 1]
    IN  /\ reading = "types" /\ Len(nodes) >= 1
        /\ Len(drvtypes) < Len(nodes[1].children)
        /\ drvtypes' = Append(drvtypes, DriverType(node, pkghint))
        /\ pkghint' = Hint(node, pkghint)
        /\ UNCHANGED <<document, nodes, pordertypes, reading>>
DriverTypes_load ==
    LET node == nodes[1].children[Len(drvtypes) + 1]
    IN  /\ reading = "types" /\ Len(nodes) >= 1
        /\ Len(drvtypes) < Len(nodes[1].children)
        /\ \/ /\ ~TypeFails(node)
              /\ pkghint' = Hint(node, pkghint)
              /\ drvtypes' = Append(drvtypes, DriverType(node, pkghint'))
              /\ UNCHANGED reading
           \/ /\ TypeFails(node) \/ LinesMissing(node)
              /\ reading' = "crashed"
              /\ UNCHANGED <<drvtypes, pkghint>>
        /\ UNCHANGED <<document, nodes, pordertypes>>

TypesEnd ==
    /\ reading = "types" /\ Len(nodes) >= 1
    /\ Len(drvtypes) = Len(nodes[1].children)
    /\ reading' = "order"
    /\ UNCHANGED <<document, nodes, drvtypes, pordertypes, pkghint>>

PreferenceOrder_load ==
    LET node == nodes[2].children[Len(pordertypes) + 1]
    IN  /\ reading = "order" /\ Len(nodes) >= 2
        /\ Len(pordertypes) < Len(nodes[2].children)
        /\ IF PrinterFails(node)
           THEN reading' = "crashed" /\ UNCHANGED pordertypes
           ELSE pordertypes' = Append(pordertypes, Printer(node)) /\ UNCHANGED reading
        /\ UNCHANGED <<document, nodes, drvtypes, pkghint>>

OrderEnds ==
    /\ reading = "order" /\ Len(nodes) >= 2
    /\ Len(pordertypes) = Len(nodes[2].children)
    /\ reading' = "read"
    /\ UNCHANGED <<document, nodes, drvtypes, pordertypes, pkghint>>

ReadPreferences ==
    \/ PreferredDrivers
    \/ NodeMissing
    \/ DriverTypes_load
    \/ TypesEnd
    \/ PreferenceOrder_load
    \/ OrderEnds

-----------------------------------------------------------------------------
(* What a document promises. *)

\* The document has the two nodes, the types first, and every attribute.
Sound(d) ==
    d # NoDocument =>
        LET known == KnownNodes(d)
        IN  /\ Len(known) = 2
            /\ known[1].element = "drivertypes" /\ known[2].element = "preferenceorder"
            /\ \A n \in ToSet(known[1].children) : ~TypeFails(n) /\ ~LinesMissing(n)
            /\ \A n \in ToSet(known[2].children) : ~PrinterFails(n)

\* A hint is "the package": the driver's scheme, or the directory of its file.
IsHintOf(hint, pattern) ==
    \/ Head(hint) = "driver" /\ startswith(Tail(hint), pattern)
    \/ /\ Head(hint) = "drv" /\ Last(hint) = "/"
       /\ startswith(<<"drv", ":", "/", "/", "/">> \o Tail(hint), pattern)
       /\ \A i \in (Len(hint) + 5) .. Len(pattern) : pattern[i] # "/"

-----------------------------------------------------------------------------
(* Properties. *)

\* A type of drivers that names its PPDs has a hint at its own package, although
\* the hint is kept in a local that the types share (xml.c:151, 215); and who
\* takes an exact match takes one of the commands too (xml.c:205).
HintIsOwn ==
    \A i \in DOMAIN drvtypes :
        LET named == Elements(nodes[1].children[i], "ppdname")
            t == drvtypes[i]
        IN  /\ named # <<>> /\ t.pkghint \notin {Unset, NULL} =>
                   IsHintOf(t.pkghint, Last(named).match)
            /\ Exact \in t.fit => ExactCmd \in t.fit

\* The search with Knuth, Morris and Pratt's table finds what find and rfind
\* promise, the lowest and the highest index (nstring.c:252, 265), for every part
\* of the names that have been read, with all their repeated "/".
SearchIsExact ==
    \A i \in DOMAIN drvtypes : \A c \in ToSet(Elements(nodes[1].children[i], "ppdname")) :
        \A first, last \in DOMAIN c.match :
            first <= last => SearchIsExactFor(c.match, SubSeq(c.match, first, last))

=============================================================================
