--------------------------- MODULE MCPPDMatching ---------------------------
(* Answers of up to three records, devices and orders of preference of each kind. *)
EXTENDS PPDMatching

HPId(mfg, model) ==
    [fields |-> <<[key |-> "MFG", value |-> mfg], [key |-> "MDL", value |-> model]>>,
     closed |-> TRUE]
NoId == [fields |-> <<>>, closed |-> TRUE]

LaserJet == <<"LaserJet", " ", "4">>
Record(name, language, id, make, model, product) ==
    [ppd_name |-> name, ppd_natural_language |-> language, ppd_device_id |-> id,
     ppd_make |-> make, ppd_make_and_model |-> make \o <<" ">> \o model,
     ppd_product |-> product]

\* Two drivers of one model, a driver of it in another language, one for it of
\* another make, two models of a make whose name may be one or two words, a
\* queue and a fallback.
Records == {
    Record(<<"laserjet">>, <<"en">>, HPId(<<"HP">>, LaserJet), <<"HP">>, LaserJet,
           <<"(", "LaserJet", " ", "4", ")">>),
    Record(<<"driverless", ":", "laserjet">>, <<"en">>, HPId(<<"hp">>, strlwr(LaserJet)),
           <<"HP">>, <<"LaserJet">>, <<>>),
    Record(<<"german">>, <<"de">>, HPId(<<"HP">>, LaserJet), <<"HP">>, <<"LaserJet">>, <<>>),
    Record(<<"fs">>, <<"en", "_", "US">>, NoId, <<"Kyocera">>, <<"FS", "-", "1000">>,
           <<"(", "Kyocera", " ", "FS", "-", "1000", ")">>),
    Record(<<"km">>, <<"en">>, HPId(<<"Kyocera">>, <<"KM", "-", "2000">>),
           <<"Kyocera", " ", "Mita">>, <<"KM", "-", "2000", " ", "dn">>, <<>>),
    Record(<<"clone">>, <<"en">>, HPId(<<"HP">>, LaserJet), <<"ACME">>, <<"DeskJet">>, <<>>),
    Record(<<"raw">>, <<"en">>, NoId, <<"Raw">>, <<"Queue">>, <<>>),
    Record(<<"textonly", ".", "ppd">>, <<"en">>, NoId, <<"Generic">>, <<"text">>, <<>>)}

\* A record without a make: the next record's stands in for it.
Makeless == [a \in ToSet(Attributes) \ {"ppd_make"} |->
                Record(<<"makeless">>, <<"en">>, NoId, <<"HP">>, <<"DeskJet">>, <<>>)[a]]

\* A name that cannot be split.
OneWord == [Record(<<"oneword">>, <<"en">>, NoId, <<"ACME">>, <<>>, <<>>)
               EXCEPT !.ppd_make_and_model = <<"ACME">>]

\* The order of records matters for what one record leaves to the next; two are
\* enough for that.
Responses ==
    {s \in UNION {[1 .. n -> Records] : n \in 0 .. 2} : IsInjective(s)}
        \cup {SetToSeq(S) : S \in kSubset(3, Records)}
        \cup {<<Makeless, r>> : r \in Records} \cup {<<OneWord>>}

Device(scheme, fields, closed) ==
    [scheme |-> scheme,
     id |-> [fields |-> [i \in DOMAIN fields |-> [key |-> fields[i][1], value |-> fields[i][2]]],
             closed |-> closed]]
Devices == {
    Device("usb", <<(<<"MFG", <<"HP">>>>), <<"MODEL", LaserJet>>, <<"CMD", <<"PCL", ",", "PJL">>>>>>, TRUE),
    Device("ipp", <<(<<"MANUFACTURER", <<"Hewlett", "-", "Packard">>>>),
                    <<"MDL", <<"HP", " ", "LaserJet">>>>>>, TRUE),
    Device("ipps", <<(<<"MFG", <<"HP">>>>), <<"MDL", <<"DeskJet", " ", "4", " ", "series">>>>>>, TRUE),
    Device("dnssd", <<(<<"MDL", <<"Kyocera", " ", "FS", "-", "1000">>>>)>>, TRUE),
    Device("usb", <<(<<"MFG", <<"Kyocera">>>>), <<"MDL", <<"KM", "-", "2001">>>>>>, TRUE),
    Device("usb", <<(<<"MFG", <<"Kyocera">>>>), <<"MDL", <<"x", "2000", " ", "dn">>>>>>, TRUE),
    Device("usb", <<(<<"MFG", <<"Kyocera">>>>), <<"MDL", <<"FS", "-", "1020">>>>>>, TRUE),
    Device("usb", <<(<<"MDL", <<"x">>>>)>>, TRUE),
    Device("usb", <<(<<"MFG", <<"ACME">>>>), <<"MDL", <<"x">>>>>>, TRUE),
    Device("usb", <<(<<"MFG", <<"HP">>>>), <<"MDL", LaserJet>>>>, FALSE),
    Device("usb", <<(<<"MFG", <<"HP">>>>), <<"MDL", <<>>>>>>, TRUE)}

-----------------------------------------------------------------------------
(* Orders of preference. *)

Node(element, name, match, content, children) ==
    [element |-> element, name |-> name, match |-> match, content |-> content,
     children |-> children]
Text == Node("text", NULL, NULL, NULL, <<>>)
Attribute(element, name, match) == Node(element, name, match, NULL, <<>>)
PPDName(match) == Attribute("ppdname", NULL, match)
Fit(content) == Node("fit", NULL, NULL, content, <<>>)
TwoLines == <<"\n", " ", "exact", "\n", " ", "close", "\n", " ">>
DeviceId(name) ==
    Node("deviceid", NULL, NULL, NULL, <<Text, Attribute("field", name, <<"HP">>)>>)
Type(name, children) == Node("drivertype", name, NULL, NULL, children)

Slash == <<"drv", ":", "/", "/", "/">>
Types == <<
    Text,
    Type(<<"hpcups">>, <<PPDName(Slash \o <<"hp", "/", "lj", "/", "hpcups", ".", "drv">>),
                         Fit(TwoLines)>>),
    Type(<<"any">>, <<Attribute("attribute", <<"ppd", "-", "product">>, <<".">>),
                      DeviceId(<<"mfg">>)>>),
    Type(<<"foomatic">>, <<Text, PPDName(<<"foomatic", ":">>), Fit(<<"exact">>)>>),
    Type(<<"here">>, <<PPDName(Slash \o <<"hpcups", ".", "drv">>)>>),
    Type(<<"none">>, <<PPDName(<<":">>)>>)>>
Named_(content) == Node("drivertype", NULL, NULL, content, <<>>)
Printers == <<
    Text,
    Node("printer", NULL, NULL, NULL,
         <<Attribute("make-and-model", NULL, <<"HP">>), DeviceId(<<"mfg">>),
           Node("drivers", NULL, NULL, NULL, <<Text, Named_(<<"hpcups">>), Named_(<<"any">>)>>),
           Node("avoid", NULL, NULL, NULL, <<Named_(<<"foomatic">>)>>)>>),
    Node("printer", NULL, NULL, NULL,
         <<Node("drivers", NULL, NULL, NULL, <<Named_(<<"any">>)>>),
           Node("blacklist", NULL, NULL, NULL, <<Named_(<<"hpcups">>)>>)>>)>>
DriverTypes(types) == Node("drivertypes", NULL, NULL, NULL, types)
Order(printers) == Node("preferenceorder", NULL, NULL, NULL, printers)

\* A good one; one in the other order, and with a node missing; each attribute
\* missing; more line ends than lines.
Documents == {
    <<Text, DriverTypes(Types), Text, Order(Printers)>>,
    <<Order(Printers), DriverTypes(Types)>>,
    <<DriverTypes(Types)>>,
    <<Text>>,
    <<DriverTypes(<<Type(<<"x">>, <<PPDName(NULL)>>)>>), Order(Printers)>>,
    <<DriverTypes(<<Type(<<"x">>, <<DeviceId(NULL)>>)>>), Order(Printers)>>,
    <<DriverTypes(<<Type(<<"x">>, <<Fit(<<"\n", "\n", "exact", "\n">>)>>)>>), Order(Printers)>>,
    <<DriverTypes(Types),
      Order(<<Node("printer", NULL, NULL, NULL, <<Attribute("make-and-model", NULL, NULL)>>)>>)>>}
MCNoDocument == <<Node("none", NULL, NULL, NULL, <<>>)>>

\* The order of preference matters to no search: one answer and device with each.
MCInputs ==
    [response : Responses, device : Devices, document : {MCNoDocument}]
        \cup [response : {<<r>> : r \in {q \in Records : q.ppd_name = <<"laserjet">>}},
              device : Devices, document : Documents]

-----------------------------------------------------------------------------
MCLanguage == <<"en", "_", "US">>
MCShortLanguage == <<"en">>
MCLowerCase ==
    [LaserJet |-> "laserjet", HP |-> "hp", Kyocera |-> "kyocera", FS |-> "fs", KM |-> "km",
     Mita |-> "mita", Raw |-> "raw", Queue |-> "queue", Generic |-> "generic",
     DeskJet |-> "deskjet", Hewlett |-> "hewlett", Packard |-> "packard", ACME |-> "acme",
     PCL |-> "pcl", PJL |-> "pjl"]
MCDigits == {"4", "1000", "1020", "2000", "2001"}

\* The tokens of models, sorted.
Sorted == <<" ", "-", "1000", "1020", "2000", "2001", "4", "deskjet", "dn", "fs", "hp", "hplaserjet",
            "km", "laserjet", "queue", "series", "text", "x">>
MCBefore(a, b) == SelectInSeq(Sorted, LAMBDA t : t = a) < SelectInSeq(Sorted, LAMBDA t : t = b)
MCLength(token) == Len(token)
MCCommon(a, b) ==
    Max({n \in 0 .. Min({Len(a), Len(b)}) : SubSeq(a, 1, n) = SubSeq(b, 1, n)})
MCGlue(a, b) == a \o b

=============================================================================
