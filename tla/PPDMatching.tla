---------------------------- MODULE PPDMatching ----------------------------
(***************************************************************************)
(* The first GetBestDrivers request: the list of PPDs is fetched           *)
(* (asyncipp.c), the order of preference is read (PreferenceOrder), the    *)
(* PPDs are filtered and indexed (ppds.c) and the device is matched with   *)
(* them, in one method of searching after the other, each of which adds to *)
(* `fit` or takes from it.  `pc` names the part of the code that is next.  *)
(*                                                                         *)
(* Texts are those of module Texts.  A hash table is a function; where the *)
(* code depends on the order in which a table is iterated, any order is    *)
(* possible. A device id is the sequence of its fields and whether the     *)
(* last one ends in ";".                                                   *)
(*                                                                         *)
(* Left out: names of TurboPrint PPDs (ppds.c:235-288), and the canonical  *)
(* case of a manufacturer, which normalize() undoes.  Of the attributes of *)
(* a PPD, those the matching does not read are left out.                   *)
(***************************************************************************)
EXTENDS PreferenceOrder, IPPAnswers

CONSTANTS
    Inputs,         \* [response, device, document]: an answer of CUPS, the records of
                    \* PPDs, a device, its id and the kind of its URI, and the
                    \* order of preference
    Language,       \* the service's language, a text
    ShortLanguage,  \* what is before its "_"
    Digits,         \* the tokens of digits
    Before(_, _),   \* the alphabetical order of tokens
    Glue(_, _)      \* two words written as one

\* Texts are sequences of tokens, answers of records, and nodes of nodes.
ASSUME InputsAssumption ==
    \A input \in Inputs :
        /\ input.response \in Seq({input.response[i] : i \in DOMAIN input.response})
        /\ \A i \in DOMAIN input.response : \A a \in DOMAIN input.response[i] :
              a # "ppd_device_id" => input.response[i][a] \in Seq(STRING)
        /\ input.device.id.fields \in Seq([key : STRING, value : Seq(STRING)])
        /\ LET known == KnownNodes(input.document)
           IN  /\ known \in Seq({known[i] : i \in DOMAIN known})
               /\ \A i \in DOMAIN known : known[i].children \in Seq(ToSet(known[i].children))
               /\ \A i \in DOMAIN known : \A node \in ToSet(known[i].children) :
                     LET named == Elements(node, "ppdname")
                     IN  /\ named \in Seq(ToSet(named))
                         /\ \A c \in ToSet(named) : c.match \in Seq(STRING)

\* The one make that the code names with a capital.
ASSUME GenericAssumption == "Generic" \in DOMAIN LowerCase

Attributes == <<"ppd_name", "ppd_natural_language", "ppd_device_id", "ppd_make",
                "ppd_make_and_model", "ppd_product">>

VARIABLES
    response,   \* the answer to CUPS-Get-PPDs
    device,
    ppds,       \* PPD name |-> attributes
    ids,        \* <<manufacturer, model>> |-> PPD names
    makes,      \* make |-> (model |-> PPD names)
    lmakes,     \* normalised make |-> make
    lmodels,    \* normalised make |-> (normalised model |-> model)
    todo,       \* the PPDs that init_makes has yet to see
    id_matched,
    names,      \* [mfg, mdl, mfgl, mdll, make], the locals
    fit,        \* PPD name |-> kind of fit
    pc

tables == <<ppds, ids, makes, lmakes, lmodels>>
searchVars == <<todo, id_matched, names, fit>>
vars == <<response, device, tables, searchVars, pc, orderVars>>

Empty == <<>>
Crash == pc' = "crashed"

-----------------------------------------------------------------------------
(* Texts. *)

\* strcasecmp(t, u) < 0 of texts in lower case.
Precedes(t, u) ==
    LET n == Shared(t, u)
    IN  n < Len(u) /\ (n = Len(t) \/ Before(t[n + 1], u[n + 1]))

\* What strtok finds first, and what it leaves.
FirstWord(t) ==
    LET k == SelectInSeq(t, LAMBDA token : token = " ")
    IN  IF k = 0 THEN t ELSE SubSeq(t, 1, k - 1)
OtherWords(t) == slice(t, Len(FirstWord(t)) + 1)

Punctuation == {" ", "-", ".", ":", "(", ")", "/"}

\* Runs of letters and digits in lower case with a space between them.
normalize(t) ==
    LET runs == SelectSeq(strlwr(t), LAMBDA token : token \notin Punctuation)
    IN  [i \in 1 .. (2 * Len(runs) - 1) |-> IF i % 2 = 1 THEN runs[(i + 1) \div 2] ELSE " "]

-----------------------------------------------------------------------------
(* Device ids, makes and models. *)

\* count_tokens counts the ";", so that a last field without one is not read.
FieldsRead(id) == IF id.closed \/ id.fields = <<>> THEN id.fields ELSE Front(id.fields)

\* strtok finds no value after the ":".
ParseFails(id) == \E i \in DOMAIN FieldsRead(id) : FieldsRead(id)[i].value = <<>>

parseDeviceID(id) ==
    LET field(key) ==
            LET k == SelectLastInSeq(FieldsRead(id), LAMBDA f : f.key = key)
            IN  IF k = 0 THEN <<>> ELSE FieldsRead(id)[k].value
        either(long, short) == IF field(long) # <<>> THEN field(long) ELSE field(short)
    IN  [MFG |-> either("MANUFACTURER", "MFG"), MDL |-> either("MODEL", "MDL"),
         CMD |-> either("COMMAND SET", "CMD")]

\* The makes of two words.
SpecialMakes == <<
    [prefix |-> <<"konica", " ", "minolta", " ">>, make |-> <<"konica", " ", "minolta">>],
    [prefix |-> <<"lexmark", " ", "international", " ">>, make |-> <<"lexmark">>],
    [prefix |-> <<"kyocera", " ", "mita", " ">>, make |-> <<"kyocera">>],
    [prefix |-> <<"kyocera", " ">>, make |-> <<"kyocera">>],
    [prefix |-> <<"fuji", " ", "xerox", " ">>, make |-> <<"fuji", " ", "xerox">>]>>

\* A make found by the name of a range of models (MFR_BY_RANGE) has no effect:
\* this chain of cases goes on and sets it anew.
SpecialMake(t) == SelectInSeq(SpecialMakes, LAMBDA m : startswith(m.prefix, strlwr(t)))

HP == <<"hp">>
HP_MODEL_BY_NAME ==
    [dj |-> <<"deskjet">>, lj |-> <<"laserjet">>, oj |-> <<"officejet">>,
     ps |-> <<"photosmart">>, hp |-> <<>>]

\* Otherwise make and model are the first two words; the second must exist.
SplitFails(t) == SpecialMake(t) = 0 /\ OtherWords(t) = <<>>
ppdMakeModelSplit(t) ==
    LET k == SpecialMake(t)
        make == FirstWord(t)
        model == FirstWord(OtherWords(t))
        hp == \/ strlwr(make) = HP
              \/ /\ startswith(<<"hewlett">>, strlwr(make))
                 /\ endswith(<<"packard">>, strlwr(make))
        konica == /\ startswith(<<"konica">>, strlwr(make))
                  /\ endswith(<<"minolta">>, strlwr(make))
    IN  IF k # 0
        THEN [make |-> SpecialMakes[k].make, model |-> slice(t, Len(SpecialMakes[k].prefix))]
        ELSE IF ~hp
        THEN [make |-> IF konica THEN SpecialMakes[1].make ELSE make, model |-> model]
        ELSE [make |-> HP,
              model |-> LET first == strlwr(model)[1]
                        IN  IF first \in DOMAIN HP_MODEL_BY_NAME
                            THEN HP_MODEL_BY_NAME[first] \o Tail(model)
                            ELSE model]

-----------------------------------------------------------------------------
(* The list of PPDs. *)

\* A mistake: the last attribute of a record is not waited for.
getPPDs_early(records) == Collect(records, Attributes, ToSet(Front(Attributes)), "ppd_name")
getPPDs(records) == Collect(records, Attributes, ToSet(Attributes), "ppd_name")

Understood(list, p) ==
    list[p].ppd_natural_language \in {NULL, <<"en">>, Language, ShortLanguage}

Raw == <<"raw">>
Generic == <<"Generic", " ">>
\* A mistake: foreign PPDs are kept.
PPDs_all(list) == list
PPDs(list) ==
    [p \in {q \in DOMAIN list : Understood(list, q)} |->
        LET makemodel == list[p].ppd_make_and_model
        IN  IF p = Raw /\ ~startswith(Generic, makemodel)
            THEN [list[p] EXCEPT !.ppd_make_and_model = Generic \o makemodel]
            ELSE list[p]]

FetchPPDs ==
    /\ pc = "fetch"
    /\ ppds' = getPPDs(response)
    /\ pc' = "preferences"
    /\ UNCHANGED <<response, device, ids, makes, lmakes, lmodels, searchVars, orderVars>>

\* One step of reading the order of preference.
Preferences ==
    /\ pc = "preferences"
    /\ ReadPreferences
    /\ pc' = IF reading' \in {"read", "crashed"}
             THEN IF reading' = "read" THEN "filter" ELSE "crashed"
             ELSE pc
    /\ UNCHANGED <<response, device, tables, searchVars>>

FilterPPDs ==
    /\ pc = "filter"
    /\ ppds' = PPDs(ppds)
    /\ pc' = IF ParseFails(device.id) THEN "crashed" ELSE "ids"
    /\ UNCHANGED <<response, device, ids, makes, lmakes, lmodels, searchVars, orderVars>>

\* The key of a device id; none if a part of it is empty.
Key(id) ==
    LET parsed == parseDeviceID(id) IN <<strlwr(parsed.MFG), strlwr(parsed.MDL)>>
Keyed == {p \in DOMAIN ppds : <<>> \notin ToSet(Key(ppds[p].ppd_device_id))}

\* A mistake: each PPD replaces the one before it.
init_ids_replaces ==
    [k \in {Key(ppds[p].ppd_device_id) : p \in Keyed} |->
        {CHOOSE p \in Keyed : Key(ppds[p].ppd_device_id) = k}]
init_ids ==
    [k \in {Key(ppds[p].ppd_device_id) : p \in Keyed} |->
        {p \in Keyed : Key(ppds[p].ppd_device_id) = k}]

InitIds ==
    /\ pc = "ids"
    /\ ids' = init_ids
    /\ pc' = IF \E p \in DOMAIN ppds : ParseFails(ppds[p].ppd_device_id)
             THEN "crashed" ELSE "device id"
    /\ UNCHANGED <<response, device, ppds, makes, lmakes, lmodels, searchVars, orderVars>>

-----------------------------------------------------------------------------
(* The search by device id. *)

Insert(found, status) ==
    [p \in found \cup DOMAIN fit |-> IF p \in found THEN status ELSE fit[p]]

\* For hewlett-packard, a table is looked for under "hp" but taken, if that
\* exists, from under the device's own name once more.
SearchByDeviceID ==
    LET parsed == parseDeviceID(device.id)
        key == Key(device.id)
        mfgl == key[1]
        mdll == key[2]
    IN  /\ pc = "device id"
        /\ id_matched' = (key \in DOMAIN ids)
        /\ fit' = IF key \in DOMAIN ids THEN Insert(ids[key], "exact") ELSE fit
        /\ names' = [mfg |-> parsed.MFG, mdl |-> parsed.MDL, mfgl |-> mfgl, mdll |-> mdll,
                     make |-> NULL]
        /\ todo' = DOMAIN ppds
        /\ pc' = "makes"
        /\ UNCHANGED <<response, device, tables, orderVars>>

-----------------------------------------------------------------------------
(* The search by make and model. *)

\* The name in ppd-product, "(text)".  normalize(make) also takes the space off
\* the end of make, to which the product is then appended.
Product(attr) ==
    LET make == strlwr(attr.ppd_make)
        product == strlwr(SubSeq(attr.ppd_product, 2, Len(attr.ppd_product) - 1))
    IN  IF startswith(normalize(make), normalize(product))
        THEN product
        ELSE Front(make) \o <<Glue(Last(make), Head(product))>> \o Tail(product)

HasProduct(attr) == startswith(<<"(">>, attr.ppd_product)
NamesOf(attr) ==
    <<attr.ppd_make_and_model>> \o (IF HasProduct(attr) THEN <<Product(attr)>> ELSE <<>>)
ppd_makes_and_models(attr) ==
    LET names_of == NamesOf(attr)
    IN  [i \in DOMAIN names_of |-> ppdMakeModelSplit(names_of[i])]

\* Two mistakes: a PPD is filed before normalize() has lowered its make; each PPD
\* replaces the one before it.
File_early(p, index, s) ==
    LET lmake == normalize(s.make)
    IN  [makes |-> Put(index.makes, s.make, Put(Empty, strlwr(s.model), {p})),
         lmakes |-> Put(index.lmakes, lmake, strlwr(s.make)),
         lmodels |-> Put(index.lmodels, lmake,
                         Put(Empty, normalize(s.model), strlwr(s.model)))]
File_overwrites(p, index, s) ==
    LET lmake == normalize(s.make)
        lmodel == normalize(s.model)
        make == strlwr(s.make)
        model == strlwr(s.model)
    IN  [makes |-> Put(index.makes, make, Put(Empty, model, {p})),
         lmakes |-> Put(index.lmakes, lmake, make),
         lmodels |-> Put(index.lmodels, lmake, Put(Empty, lmodel, model))]

\* normalize() lowers its argument in place before a name becomes a key.
File(p, index, s) ==
    LET lmake == normalize(s.make)
        lmodel == normalize(s.model)
        known == lmake \in DOMAIN index.lmakes
        make == IF known THEN index.lmakes[lmake] ELSE strlwr(s.make)
        models == IF known THEN index.makes[make] ELSE Empty
        lnames == IF known THEN index.lmodels[lmake] ELSE Empty
        model == IF lmodel \in DOMAIN lnames THEN lnames[lmodel] ELSE strlwr(s.model)
        filed == IF lmodel \in DOMAIN lnames THEN models[model] ELSE {}
    IN  [makes |-> Put(index.makes, make, Put(models, model, filed \cup {p})),
         lmakes |-> Put(index.lmakes, lmake, make),
         lmodels |-> Put(index.lmodels, lmake, Put(lnames, lmodel, model))]

Index == [makes |-> makes, lmakes |-> lmakes, lmodels |-> lmodels]
FileAll(p, index, splits) == FoldLeft(LAMBDA i, s : File(p, i, s), index, splits)

\* One PPD of init_makes.  The aliases collected there are never used.
InitMakes(p) ==
    LET index == FileAll(p, Index, ppd_makes_and_models(ppds[p]))
        fails == \/ HasProduct(ppds[p]) /\ ppds[p].ppd_make = <<>>
                 \/ \E name \in ToSet(NamesOf(ppds[p])) : SplitFails(name)
    IN  /\ pc = "makes"
        /\ p \in todo
        /\ todo' = todo \ {p}
        /\ IF fails
           THEN Crash /\ UNCHANGED <<makes, lmakes, lmodels>>
           ELSE /\ makes' = index.makes
                /\ lmakes' = index.lmakes
                /\ lmodels' = index.lmodels
                /\ UNCHANGED pc
        /\ UNCHANGED <<response, device, ppds, ids, id_matched, names, fit, orderVars>>

\* With no PPD at all, init_makes frees a pointer that nothing set.
InitMakesEnds ==
    /\ pc = "makes"
    /\ todo = {}
    /\ pc' \in IF ppds = Empty THEN {"make", "crashed"} ELSE {"make"}
    /\ UNCHANGED <<response, device, tables, searchVars, orderVars>>

mfgrepl(mfgl) ==
    CASE mfgl = <<"hewlett", "-", "packard">> -> HP
      [] mfgl = <<"lexmark", " ", "international">> -> <<"lexmark">>
      [] mfgl = <<"kyocera">> -> <<"kyocera", " ", "mita">>
      [] OTHER -> mfgl

\* The manufacturer, from the model when the id names none.
FindMake ==
    LET s == ppdMakeModelSplit(names.mdl)
        n == IF names.mfgl # <<>> THEN names
             ELSE [mfg |-> strlwr(s.make), mdl |-> strlwr(s.model),
                   mfgl |-> normalize(s.make), mdll |-> normalize(s.model), make |-> NULL]
        other == mfgrepl(n.mfgl)
    IN  /\ pc = "make"
        /\ IF names.mfgl = <<>> /\ SplitFails(names.mdl)
           THEN Crash /\ UNCHANGED names
           ELSE /\ pc' = "model"
                /\ names' =
                     CASE n.mfgl \in DOMAIN lmakes -> [n EXCEPT !.make = lmakes[n.mfgl]]
                       [] n.mfgl \notin DOMAIN lmakes /\ other \in DOMAIN lmakes ->
                             [n EXCEPT !.mfg = other, !.mfgl = other, !.make = lmakes[other]]
                       [] OTHER -> n
        /\ UNCHANGED <<response, device, tables, todo, id_matched, fit, orderVars>>

\* The model's name without the manufacturer's.
Unprefixed(n) ==
    LET prefixes == <<n.mfgl \o <<" ">>, <<"hewlett", "-", "packard", " ">>, HP \o <<" ">>>>
        k == SelectInSeq(prefixes, LAMBDA prefix : startswith(prefix, n.mdll))
        mdl == slice(n.mdl, Len(prefixes[k]))
    IN  IF k = 0 THEN n ELSE [n EXCEPT !.mdl = strlwr(mdl), !.mdll = normalize(mdl)]

\* A mistake: the model is looked for in every make.
Filed_anywhere(n, model) ==
    UNION {makes[m][model] : m \in {o \in DOMAIN makes : model \in DOMAIN makes[o]}}
Filed(n, model) ==
    IF model \in DOMAIN lmodels[n.mfgl] THEN makes[n.make][lmodels[n.mfgl][model]] ELSE {}

SearchByModel ==
    LET n == Unprefixed(names)
        full == n.mfg \o <<" ">> \o n.mdl
        again == normalize(ppdMakeModelSplit(full).model)
    IN  /\ pc = "model"
        /\ IF names.make = NULL
           THEN pc' = "best" /\ UNCHANGED <<names, fit>>
           ELSE /\ names' = n
                /\ IF n.mdll \in DOMAIN lmodels[n.mfgl]
                   THEN fit' = Insert(Filed(n, n.mdll), "exact") /\ pc' = "best"
                   ELSE IF SplitFails(full)
                   THEN Crash /\ UNCHANGED fit
                   ELSE fit' = Insert(Filed(n, again), "exact") /\ pc' = "best"
        /\ UNCHANGED <<response, device, tables, todo, id_matched, orderVars>>

-----------------------------------------------------------------------------
(* The nearest model (findBestMatchPPDs). *)

\* As many words as there are spaces, the last one not among them.
WordsButLast(t) ==
    LET words == split(t, " ") IN SubSeq(words, 1, Min({Len(words), count_tokens(t, " ")}))
HasDigits(word) == \E i \in DOMAIN word : word[i] \in Digits

Series == <<" ", "series">>
Unseries(t) ==
    IF endswith(Series, strlwr(t)) THEN SubSeq(t, 1, Len(t) - Len(Series)) ELSE t

CRASH == [fit |-> "crash", list |-> {}]
NONE == [fit |-> "none", list |-> {}]

\* The most important word of the model is looked for in the other names; the
\* list that it would add to does not exist.
LastResort(models, mdll) ==
    LET words == WordsButLast(mdll)
        k == SelectInSeq(words, HasDigits)
    IN  CASE words = <<>> -> CRASH
          [] words # <<>> /\ k = 0 -> NONE
          [] OTHER -> IF \E m \in models \ {mdll} : words[k] \in ToSet(WordsButLast(m))
                      THEN CRASH ELSE NONE

\* The names as they are listed, and as they are sorted, are two arrays of one
\* length with one index.  The loop over a candidate's PPDs takes the other
\* candidates.
Candidates(listed, sorted, at) ==
    LET below == Put(Empty, listed[at - 1], sorted[at - 1])
    IN  IF at < Len(listed) THEN Put(below, listed[at + 1], sorted[at + 1]) ELSE below
Nearest(candidates, mdll) ==
    LET prefix(c) == commonprefix(candidates[c], mdll)
        alike == {c \in DOMAIN candidates : prefix(c) > 0}
    IN  IF alike = {}
        THEN {[best_mdl |-> {}, best_matchlen |-> 0]}
        ELSE {[best_mdl |-> DOMAIN candidates \ (earlier \cup {c}), best_matchlen |-> prefix(c)] :
                 c \in alike, earlier \in SUBSET (DOMAIN candidates \ alike)}

NearestModels(models, mdll, own) ==
    LET before == {m \in models : Precedes(m, mdll)}
        sorted == SetToSortSeq(before, Precedes) \o <<mdll>>
                      \o SetToSortSeq(models \ before, Precedes)
    IN  UNION {Nearest(Candidates(Append(listed, own), sorted, Cardinality(before) + 1), mdll) :
                   listed \in SetToSeqs(models)}

findBestMatchPPDs(models, mdl) ==
    LET mdll == Unseries(strlwr(mdl))
    IN  IF \A m \in models : ~Precedes(m, mdll)
        THEN {CRASH}
        ELSE {IF n.best_mdl = {} \/ n.best_matchlen <= strlen(mdll) \div 2
              THEN LastResort(models, mdll)
              ELSE [fit |-> IF n.best_matchlen = strlen(mdll) THEN "exact" ELSE "close",
                    list |-> n.best_mdl] : n \in NearestModels(models, mdll, Unseries(mdl))}

\* Without a make, the table of models is a pointer that nothing set.  A
\* mistake: the nearest model is looked for although a PPD was found.
BestMatch_always ==
    /\ pc = "best"
    /\ IF names.make = NULL
       THEN pc' \in {"generic", "crashed"} /\ UNCHANGED fit
       ELSE \E b \in findBestMatchPPDs(DOMAIN makes[names.make], names.mdl) :
                /\ fit' = Insert(b.list, b.fit)
                /\ pc' = IF b = CRASH THEN "crashed" ELSE "generic"
    /\ UNCHANGED <<response, device, tables, todo, id_matched, names, orderVars>>
BestMatch ==
    /\ pc = "best"
    /\ IF fit # Empty
       THEN pc' = "generic" /\ UNCHANGED fit
       ELSE IF names.make = NULL
       THEN pc' \in {"generic", "crashed"} /\ UNCHANGED fit
       ELSE \E b \in findBestMatchPPDs(DOMAIN makes[names.make], names.mdl) :
                IF b = CRASH
                THEN Crash /\ UNCHANGED fit
                ELSE fit' = Insert(b.list, b.fit) /\ pc' = "generic"
    /\ UNCHANGED <<response, device, tables, todo, id_matched, names, orderVars>>

-----------------------------------------------------------------------------
(* The drivers for a command set. *)

commandsets ==
    LET cmd == parseDeviceID(device.id).CMD IN IF cmd = <<>> THEN <<>> ELSE split(cmd, ",")

PCL_LASER == <<"PCL", " ", "Laser">>
CommandSets == <<
    [sets |-> {<<"postscript">>, <<"postscript", "2">>,
               <<"postscript", " ", "level", " ", "2", " ", "emulation">>},
     models |-> <<(<<"PostScript">>)>>],
    [sets |-> {<<"pclxl">>, <<"pcl", "-", "xl">>, <<"pcl", "6">>,
               <<"pcl", " ", "6", " ", "emulation">>},
     models |-> <<(<<"PCL", " ", "6", "/", "PCL", " ", "XL">>), PCL_LASER>>],
    [sets |-> {<<"pcl", "5", "e">>}, models |-> <<(<<"PCL", " ", "5", "e">>), PCL_LASER>>],
    [sets |-> {<<"pcl", "5", "c">>}, models |-> <<(<<"PCL", " ", "5", "c">>), PCL_LASER>>],
    [sets |-> {<<"pcl", "5">>, <<"pcl", " ", "5", " ", "emulation">>},
     models |-> <<(<<"PCL", " ", "5">>), PCL_LASER>>],
    [sets |-> {<<"pcl">>}, models |-> <<(<<"PCL", " ", "3">>), PCL_LASER>>],
    [sets |-> {<<"escpl", "2">>, <<"esc", "/", "p", "2">>, <<"escp", "2", "e">>},
     models |-> <<(<<"ESC", "/", "P", " ", "Dot", " ", "Matrix">>)>>]>>

\* What each model gives, the first that has an exact match.
get(models, wanted) ==
    LET final(results) == {b \in results : b.fit \in {"exact", "crash"}}
        next(results, model) ==
            IF results = final(results) THEN results
            ELSE final(results) \cup findBestMatchPPDs(models, model)
    IN  FoldLeft(next, {NONE}, wanted)

\* No make has a capital, so that "Generic" is none.
getPPDNameFromCommandSet ==
    LET k == SelectInSeq(CommandSets, LAMBDA c : \E s \in ToSet(commandsets) : strlwr(s) \in c.sets)
    IN  IF <<"Generic">> \notin DOMAIN makes \/ k = 0
        THEN {NONE}
        ELSE get(DOMAIN makes[<<"Generic">>], CommandSets[k].models)

ByCommandSet ==
    /\ pc = "generic"
    /\ \E generic \in getPPDNameFromCommandSet :
          /\ fit' = IF generic.fit = "exact" THEN Insert(generic.list, "generic") ELSE fit
          /\ pc' = IF generic = CRASH THEN "crashed" ELSE "driverless"
    /\ UNCHANGED <<response, device, tables, todo, id_matched, names, orderVars>>

-----------------------------------------------------------------------------
(* What is taken away, and the last resort. *)

Driverless(p) == startswith(<<"driverless", ":">>, p)

\* A "dnssd" URI is never equal to "._ipp".
OverIPP == device.scheme \in {"ipp", "ipps"}

RemoveDriverless ==
    /\ pc = "driverless"
    /\ fit' = Restrict(fit, {p \in DOMAIN fit : OverIPP \/ ~Driverless(p)})
    /\ pc' = "commands"
    /\ UNCHANGED <<response, device, tables, todo, id_matched, names, orderVars>>

\* The commands of a PPD are compared as pointers, and what is compared is the
\* array of them: no PPD is usable.  Those that fail are not removed.
usable(p) == FALSE

CheckCommands ==
    /\ pc = "commands"
    /\ fit' = [p \in DOMAIN fit |->
                  IF id_matched /\ commandsets # <<>> /\ usable(p) /\ fit[p] = "exact"
                  THEN "exact-cmd" ELSE fit[p]]
    /\ pc' = "fallback"
    /\ UNCHANGED <<response, device, tables, todo, id_matched, names, orderVars>>

Named(name) ==
    {p \in DOMAIN ppds : endswith(name, p) \/ endswith(name \o <<".", "gz">>, p)}
TextOnly == <<"textonly", ".", "ppd">>
PostScript == <<"postscript", ".", "ppd">>
Fallbacks == IF Named(TextOnly) # {} THEN Named(TextOnly) ELSE Named(PostScript)

\* A mistake: a fallback is always added.
Fallback_always ==
    /\ pc = "fallback"
    /\ \E p \in Fallbacks : fit' = Insert({p}, "none")
    /\ pc' = "done"
    /\ UNCHANGED <<response, device, tables, todo, id_matched, names, orderVars>>
Fallback ==
    /\ pc = "fallback"
    /\ IF fit = Empty /\ Fallbacks # {}
       THEN \E p \in Fallbacks : fit' = Insert({p}, "none")
       ELSE UNCHANGED fit
    /\ pc' = "done"
    /\ UNCHANGED <<response, device, tables, todo, id_matched, names, orderVars>>

-----------------------------------------------------------------------------
Init ==
    /\ \E input \in Inputs :
          response = input.response /\ device = input.device /\ document = input.document
    /\ OrderInit
    /\ ppds = Empty /\ ids = Empty /\ makes = Empty /\ lmakes = Empty /\ lmodels = Empty
    /\ todo = {}
    /\ id_matched = FALSE
    /\ names = [mfg |-> <<>>, mdl |-> <<>>, mfgl |-> <<>>, mdll |-> <<>>, make |-> NULL]
    /\ fit = Empty
    /\ pc = "fetch"

Next ==
    \/ FetchPPDs
    \/ Preferences
    \/ FilterPPDs
    \/ InitIds
    \/ SearchByDeviceID
    \/ \E p \in todo : InitMakes(p)
    \/ InitMakesEnds
    \/ FindMake
    \/ SearchByModel
    \/ BestMatch
    \/ ByCommandSet
    \/ RemoveDriverless
    \/ CheckCommands
    \/ Fallback

Spec == Init /\ [][Next]_vars

-----------------------------------------------------------------------------
(* Properties. *)

\* The tables of makes, models and PPDs are of one shape: each normalised make
\* and model leads to one that has PPDs, and those are PPDs of the list.
TypeOK ==
    /\ pc \in {"fetch", "preferences", "filter", "ids", "device id", "makes", "make",
               "model", "best", "generic", "driverless", "commands", "fallback", "done", "crashed"}
    /\ todo \subseteq DOMAIN ppds
    /\ \A p \in DOMAIN fit : fit[p] \in {"exact", "exact-cmd", "close", "generic", "none"}
    /\ DOMAIN lmodels = DOMAIN lmakes
    /\ \A m \in DOMAIN lmakes :
          /\ lmakes[m] \in DOMAIN makes
          /\ \A l \in DOMAIN lmodels[m] :
                /\ lmodels[m][l] \in DOMAIN makes[lmakes[m]]
                /\ makes[lmakes[m]][lmodels[m][l]] \subseteq DOMAIN ppds

\* When CUPS answers with complete records, each PPD has the attributes of its
\* own record (asyncipp.c:198 forgets where a record ends).
Complete(r) == DOMAIN r = ToSet(Attributes)
EntriesAreRecords ==
    (pc # "fetch" /\ \A i \in DOMAIN response : Complete(response[i])) =>
        \A p \in DOMAIN ppds :
            \E i \in DOMAIN response :
                /\ response[i].ppd_name = p
                /\ response[i].ppd_device_id = ppds[p].ppd_device_id
                /\ response[i].ppd_natural_language = ppds[p].ppd_natural_language
                /\ response[i].ppd_product = ppds[p].ppd_product

\* After init_makes each PPD is found under its make and model, whatever other
\* PPDs were filed under the same ones before and after it (ppds.c:1412).
FiledUnderItsModel ==
    (pc \notin {"crashed", "fetch", "preferences", "filter", "ids", "device id"}) =>
        \A p \in DOMAIN ppds \ todo :
            LET s == ppdMakeModelSplit(ppds[p].ppd_make_and_model)
                lmake == normalize(s.make)
                lmodel == normalize(s.model)
            IN  /\ lmake \in DOMAIN lmakes
                /\ lmodel \in DOMAIN lmodels[lmake]
                /\ p \in makes[lmakes[lmake]][lmodels[lmake][lmodel]]

\* Each PPD with the device's own id is offered as an exact match, whichever
\* searches follow; only a driverless one may be removed (ppds.c:962).
ExactIdIsOffered ==
    pc = "done" =>
        \A p \in Keyed :
            (Key(ppds[p].ppd_device_id) = Key(device.id) /\ (Driverless(p) => OverIPP)) =>
                p \in DOMAIN fit /\ fit[p] \in {"exact", "exact-cmd"}

\* What is offered is in a language the user reads, whichever search found it,
\* and driverless PPDs are offered over IPP only, or as the last resort.
OffersAreUsable ==
    pc = "done" =>
        \A p \in DOMAIN fit \cap DOMAIN ppds :
            /\ Understood(ppds, p)
            /\ Driverless(p) => OverIPP \/ fit[p] = "none"

\* An exact match has the device's id, or was filed under its make.
ExactIsOfMake ==
    pc = "done" =>
        \A p \in DOMAIN fit \cap DOMAIN ppds :
            fit[p] = "exact" =>
                \/ Key(ppds[p].ppd_device_id) = Key(device.id)
                \/ \E name \in ToSet(NamesOf(ppds[p])) :
                      normalize(ppdMakeModelSplit(name).make) = names.mfgl

\* A driver of the last resort is offered alone.
FallbackIsLastResort ==
    pc = "done" => \A p \in DOMAIN fit : fit[p] = "none" => DOMAIN fit = {p}

\* Whatever is wrong with the searches for a similar model (an index of -1,
\* ppds.c:1610; a list that does not exist, 1833), a device that some PPD names by
\* its id never meets it: if CUPS' answer and the order of preference are well
\* formed, its request is not the end of the process.  Well formed is an answer without two
\* PPDs of one name, and an id whose model is more than "HP ".
WellFormed(r) ==
    /\ Complete(r) /\ ~ParseFails(r.ppd_device_id)
    /\ HasProduct(r) => r.ppd_make # <<>>
    /\ \A name \in ToSet(NamesOf(r)) : ~SplitFails(name)
Answerable ==
    /\ Sound(document) /\ ~ParseFails(device.id)
    /\ <<>> \notin ToSet(Key(device.id)) /\ Last(Key(device.id)[2]) # " "
    /\ \A r \in ToSet(response) : WellFormed(r)
    /\ \A i, j \in DOMAIN response : response[i].ppd_name = response[j].ppd_name => i = j
    /\ \E r \in ToSet(response) :
          /\ Key(r.ppd_device_id) = Key(device.id)
          /\ Understood(Put(Empty, r.ppd_name, r), r.ppd_name)
KnownDeviceIsAnswered == Answerable => pc # "crashed"

\* The result is "a dict of fit (string) indexed by PPD name" (ppds.c:702).
FitNamesPPDs == pc = "done" => DOMAIN fit \subseteq DOMAIN ppds

=============================================================================
