------------------------- MODULE PPDMatching_proofs -------------------------
(***************************************************************************)
(* Proofs about the tables of PPDs and the searches, for any answer of     *)
(* CUPS, device and order of preference.                                   *)
(***************************************************************************)
EXTENDS PPDMatching, CommonLemmas, SequenceTheorems, FiniteSetTheorems

-----------------------------------------------------------------------------
(* Hash tables. *)

LEMMA InsertProperties ==
    ASSUME NEW found, NEW status
    PROVE  /\ DOMAIN Insert(found, status) = found \cup DOMAIN fit
           /\ \A p \in found : Insert(found, status)[p] = status
           /\ \A p \in DOMAIN fit : p \notin found => Insert(found, status)[p] = fit[p]
BY DEF Insert

LEMMA InsertedOrNot ==
    ASSUME NEW found, NEW status, fit' = Insert(found, status)
    PROVE  \A p \in DOMAIN fit' :
               \/ p \in found /\ fit'[p] = status
               \/ p \notin found /\ p \in DOMAIN fit /\ fit'[p] = fit[p]
<1>1. DOMAIN fit' = found \cup DOMAIN fit
  BY DEF Insert
<1>2. \A p \in found \cup DOMAIN fit : fit'[p] = IF p \in found THEN status ELSE fit[p]
  BY DEF Insert
<1> QED
  BY <1>1, <1>2

-----------------------------------------------------------------------------
(* The tables of makes and models. *)

\* The key and the name that a text has in the tables.
Lowered(l, name) == \E t : normalize(t) = l /\ strlwr(t) = name

\* The PPD has a name of this make.
OfMake(p, l) ==
    \E name \in ToSet(NamesOf(ppds[p])) : normalize(ppdMakeModelSplit(name).make) = l

ShapeOK(i) ==
    /\ DOMAIN i.lmodels = DOMAIN i.lmakes
    /\ \A make \in DOMAIN i.makes : \E t : make = strlwr(t)
    /\ \A make \in DOMAIN i.makes : IsFiniteSet(DOMAIN i.makes[make])
    /\ \A l \in DOMAIN i.lmakes :
          /\ i.lmakes[l] \in DOMAIN i.makes
          /\ Lowered(l, i.lmakes[l])
          /\ \A m \in DOMAIN i.lmodels[l] :
                /\ i.lmodels[l][m] \in DOMAIN i.makes[i.lmakes[l]]
                /\ Lowered(m, i.lmodels[l][m])
                /\ \A p \in i.makes[i.lmakes[l]][i.lmodels[l][m]] :
                      p \in DOMAIN ppds /\ OfMake(p, l)

\* The PPD is filed under the make and the model.
FiledAt(i, p, s) ==
    /\ normalize(s.make) \in DOMAIN i.lmakes
    /\ normalize(s.model) \in DOMAIN i.lmodels[normalize(s.make)]
    /\ p \in i.makes[i.lmakes[normalize(s.make)]][i.lmodels[normalize(s.make)][normalize(s.model)]]

LEMMA LoweredUnique ==
    ASSUME NEW l, NEW k, NEW name, Lowered(l, name), Lowered(k, name)
    PROVE  l = k
<1>1. PICK t : normalize(t) = l /\ strlwr(t) = name
  BY DEF Lowered
<1>2. PICK u : normalize(u) = k /\ strlwr(u) = name
  BY DEF Lowered
<1>3. normalize(t) = normalize(u)
  BY <1>1, <1>2 DEF normalize
<1> QED
  BY <1>1, <1>2, <1>3

\* A PPD is filed: it is found under the make and the model, and what was filed before is
\* found where it was.
LEMMA Filing ==
    ASSUME NEW i, ShapeOK(i), NEW p \in DOMAIN ppds, NEW s, OfMake(p, normalize(s.make))
    PROVE  /\ ShapeOK(File(p, i, s)) /\ FiledAt(File(p, i, s), p, s)
           /\ \A q, t : FiledAt(i, q, t) => FiledAt(File(p, i, s), q, t)
<1> DEFINE j == File(p, i, s)
           lmake == normalize(s.make)
           lmodel == normalize(s.model)
           known == lmake \in DOMAIN i.lmakes
           make == IF known THEN i.lmakes[lmake] ELSE strlwr(s.make)
           models == IF known THEN i.makes[make] ELSE Empty
           lnames == IF known THEN i.lmodels[lmake] ELSE Empty
           model == IF lmodel \in DOMAIN lnames THEN lnames[lmodel] ELSE strlwr(s.model)
           filed == IF lmodel \in DOMAIN lnames THEN models[model] ELSE {}
           newmodels == Put(models, model, filed \cup {p})
           newnames == Put(lnames, lmodel, model)
<1>1. /\ j.makes = Put(i.makes, make, newmodels)
      /\ j.lmakes = Put(i.lmakes, lmake, make)
      /\ j.lmodels = Put(i.lmodels, lmake, newnames)
  BY DEF File
<1>2. Lowered(lmake, make) /\ \E t : make = strlwr(t)
  <2>1. CASE known
    BY <2>1 DEF ShapeOK, Lowered
  <2>2. CASE ~known
    <3>1. make = strlwr(s.make)
      BY <2>2
    <3> QED
      BY <3>1 DEF Lowered
  <2> QED
    BY <2>1, <2>2
<1>3. Lowered(lmodel, model)
  <2>1. CASE lmodel \in DOMAIN lnames
    <3>1. CASE known
      <4>1. lnames = i.lmodels[lmake] /\ model = lnames[lmodel]
        BY <2>1, <3>1
      <4> QED
        BY <2>1, <3>1, <4>1 DEF ShapeOK
    <3>2. CASE ~known
      BY <2>1, <3>2 DEF Empty
    <3> QED
      BY <3>1, <3>2
  <2>2. CASE lmodel \notin DOMAIN lnames
    <3>1. model = strlwr(s.model)
      BY <2>2
    <3> QED
      BY <3>1 DEF Lowered
  <2> QED
    BY <2>1, <2>2
\* What was under the make before.
<1>4. ASSUME NEW m \in DOMAIN lnames
      PROVE  /\ lnames[m] \in DOMAIN models
             /\ Lowered(m, lnames[m])
             /\ \A q \in models[lnames[m]] : q \in DOMAIN ppds /\ OfMake(q, lmake)
  <2>1. CASE known
    <3>1. lnames = i.lmodels[lmake] /\ models = i.makes[i.lmakes[lmake]]
      BY <2>1
    <3> QED
      BY <1>4, <2>1, <3>1 DEF ShapeOK
  <2>2. CASE ~known
    BY <1>4, <2>2 DEF Empty
  <2> QED
    BY <2>1, <2>2
<1>5. \A q \in filed : q \in DOMAIN ppds /\ OfMake(q, lmake)
  <2>1. CASE lmodel \in DOMAIN lnames
    <3>1. filed = models[lnames[lmodel]]
      BY <2>1
    <3> QED
      BY <1>4, <2>1, <3>1
  <2>2. CASE lmodel \notin DOMAIN lnames
    BY <2>2
  <2> QED
    BY <2>1, <2>2
<1>6. \A m \in DOMAIN lnames : m # lmodel => lnames[m] # model
  BY <1>3, <1>4, LoweredUnique
<1>7. \A m \in DOMAIN lnames : m = lmodel => lnames[m] = model /\ models[model] = filed
  OBVIOUS
<1>8. \A l \in DOMAIN i.lmakes : l # lmake => i.lmakes[l] # make
  BY <1>2, LoweredUnique DEF ShapeOK
<1>9. /\ known => i.lmakes[lmake] = make /\ i.lmodels[lmake] = lnames /\ i.makes[make] = models
      /\ ~known => lnames = Empty /\ models = Empty
  OBVIOUS
<1> HIDE DEF j, lmake, lmodel, known, make, models, lnames, model, filed
<1>10. /\ DOMAIN newmodels = {model} \cup DOMAIN models
       /\ newmodels[model] = filed \cup {p}
       /\ \A m \in DOMAIN models : m # model => newmodels[m] = models[m]
  BY DEF Put
<1>11. /\ DOMAIN newnames = {lmodel} \cup DOMAIN lnames
       /\ newnames[lmodel] = model
       /\ \A m \in DOMAIN lnames : m # lmodel => newnames[m] = lnames[m]
  BY DEF Put
<1> HIDE DEF newmodels, newnames
<1>12. /\ DOMAIN j.makes = {make} \cup DOMAIN i.makes
       /\ j.makes[make] = newmodels
       /\ \A m \in DOMAIN i.makes : m # make => j.makes[m] = i.makes[m]
  BY <1>1 DEF Put
<1>13. /\ DOMAIN j.lmakes = {lmake} \cup DOMAIN i.lmakes
       /\ j.lmakes[lmake] = make
       /\ \A l \in DOMAIN i.lmakes : l # lmake => j.lmakes[l] = i.lmakes[l]
  BY <1>1 DEF Put
<1>14. /\ DOMAIN j.lmodels = {lmake} \cup DOMAIN i.lmodels
       /\ j.lmodels[lmake] = newnames
       /\ \A l \in DOMAIN i.lmodels : l # lmake => j.lmodels[l] = i.lmodels[l]
  BY <1>1 DEF Put
\* Other makes are as they were.
<1>15. ASSUME NEW l \in DOMAIN i.lmakes, l # lmake
       PROVE  /\ j.lmakes[l] = i.lmakes[l] /\ j.lmodels[l] = i.lmodels[l]
              /\ i.lmakes[l] \in DOMAIN i.makes
              /\ j.makes[i.lmakes[l]] = i.makes[i.lmakes[l]]
  <2>1. i.lmakes[l] \in DOMAIN i.makes /\ i.lmakes[l] # make /\ l \in DOMAIN i.lmodels
    BY <1>8, <1>15 DEF ShapeOK
  <2> QED
    BY <1>12, <1>13, <1>14, <1>15, <2>1
\* Under this make.
<1>16. ASSUME NEW m \in DOMAIN newnames
       PROVE  /\ newnames[m] \in DOMAIN newmodels
              /\ Lowered(m, newnames[m])
              /\ \A q \in newmodels[newnames[m]] : q \in DOMAIN ppds /\ OfMake(q, lmake)
  <2>1. CASE m = lmodel
    <3>1. newnames[m] = model /\ newmodels[model] = filed \cup {p} /\ OfMake(p, lmake)
      BY <1>10, <1>11, <2>1 DEF lmake
    <3> QED
      BY <1>3, <1>5, <1>10, <2>1, <3>1
  <2>2. CASE m # lmodel
    <3>1. m \in DOMAIN lnames /\ newnames[m] = lnames[m] /\ lnames[m] # model
      BY <1>6, <1>11, <2>2
    <3>2. lnames[m] \in DOMAIN models /\ newmodels[lnames[m]] = models[lnames[m]]
      BY <1>4, <1>10, <3>1
    <3> QED
      BY <1>4, <1>10, <3>1, <3>2
  <2> QED
    BY <2>1, <2>2
<1>17. ShapeOK(j)
  <2>1. DOMAIN j.lmodels = DOMAIN j.lmakes
    BY <1>13, <1>14 DEF ShapeOK
  <2>2. \A m \in DOMAIN j.makes : \E t : m = strlwr(t)
    BY <1>2, <1>12 DEF ShapeOK
  <2>3. ASSUME NEW l \in DOMAIN j.lmakes
        PROVE  /\ j.lmakes[l] \in DOMAIN j.makes
               /\ Lowered(l, j.lmakes[l])
               /\ \A m \in DOMAIN j.lmodels[l] :
                     /\ j.lmodels[l][m] \in DOMAIN j.makes[j.lmakes[l]]
                     /\ Lowered(m, j.lmodels[l][m])
                     /\ \A q \in j.makes[j.lmakes[l]][j.lmodels[l][m]] :
                           q \in DOMAIN ppds /\ OfMake(q, l)
    <3>1. CASE l = lmake
      BY <1>2, <1>12, <1>13, <1>14, <1>16, <3>1
    <3>2. CASE l # lmake
      <4>1. l \in DOMAIN i.lmakes
        BY <1>13, <3>2
      <4>2. /\ j.lmakes[l] = i.lmakes[l] /\ j.lmodels[l] = i.lmodels[l]
            /\ i.lmakes[l] \in DOMAIN i.makes
            /\ j.makes[i.lmakes[l]] = i.makes[i.lmakes[l]]
        BY <1>15, <3>2, <4>1
      <4> QED
        BY <1>12, <4>1, <4>2 DEF ShapeOK
    <3> QED
      BY <3>1, <3>2
  <2>4. \A m \in DOMAIN j.makes : IsFiniteSet(DOMAIN j.makes[m])
    <3>1. IsFiniteSet(DOMAIN models)
      <4>1. CASE known
        <5>1. make \in DOMAIN i.makes /\ models = i.makes[make]
          BY <1>9, <4>1 DEF ShapeOK, known
        <5> QED
          BY <5>1 DEF ShapeOK
      <4>2. CASE ~known
        BY <1>9, <4>2, FS_EmptySet DEF Empty
      <4> QED
        BY <4>1, <4>2
    <3>2. IsFiniteSet(DOMAIN newmodels)
      <4>1. DOMAIN newmodels = DOMAIN models \cup {model}
        BY <1>10
      <4> QED
        BY <3>1, <4>1, FS_AddElement
    <3>3. \A m \in DOMAIN i.makes : IsFiniteSet(DOMAIN i.makes[m])
      BY DEF ShapeOK
    <3> QED
      BY <1>12, <3>2, <3>3
  <2> QED
    BY <2>1, <2>2, <2>3, <2>4 DEF ShapeOK
<1>18. FiledAt(j, p, s)
  <2>1. /\ lmake \in DOMAIN j.lmakes
        /\ lmodel \in DOMAIN j.lmodels[lmake]
        /\ p \in j.makes[j.lmakes[lmake]][j.lmodels[lmake][lmodel]]
    BY <1>10, <1>11, <1>12, <1>13, <1>14
  <2> QED
    BY <2>1 DEF FiledAt, lmake, lmodel
<1>19. ASSUME NEW q, NEW t, FiledAt(i, q, t) PROVE FiledAt(j, q, t)
  <2> DEFINE l == normalize(t.make)
             m == normalize(t.model)
  <2>1. l \in DOMAIN i.lmakes /\ m \in DOMAIN i.lmodels[l] /\ q \in i.makes[i.lmakes[l]][i.lmodels[l][m]]
    BY <1>19 DEF FiledAt
  <2> HIDE DEF l, m
  <2>2. l \in DOMAIN j.lmakes /\ m \in DOMAIN j.lmodels[l] /\ q \in j.makes[j.lmakes[l]][j.lmodels[l][m]]
    <3>1. CASE l # lmake
      BY <1>13, <1>15, <2>1, <3>1
    <3>2. CASE l = lmake
      <4>1. known
        BY <2>1, <3>2 DEF known
      <4>2. m \in DOMAIN lnames /\ q \in models[lnames[m]]
        BY <1>9, <2>1, <3>2, <4>1
      <4>3. m \in DOMAIN newnames /\ q \in newmodels[newnames[m]]
        <5>1. CASE m = lmodel
          BY <1>7, <1>10, <1>11, <4>2, <5>1
        <5>2. CASE m # lmodel
          BY <1>4, <1>6, <1>10, <1>11, <4>2, <5>2
        <5> QED
          BY <5>1, <5>2
      <4> QED
        BY <1>12, <1>13, <1>14, <3>2, <4>3
    <3> QED
      BY <3>1, <3>2
  <2> QED
    BY <2>2 DEF FiledAt, l, m
<1> QED
  BY <1>17, <1>18, <1>19 DEF j

\* A sequence of one or two is folded.
LEMMA FoldFiling ==
    ASSUME NEW p, NEW i, NEW q, DOMAIN q = 1 .. 1 \/ DOMAIN q = 1 .. 2
    PROVE  FileAll(p, i, q) =
               IF DOMAIN q = 1 .. 1 THEN File(p, i, q[1]) ELSE File(p, File(p, i, q[1]), q[2])
<1> DEFINE S == DOMAIN q
           one == File(p, i, q[1])
           Folded(f) == f = [s \in SUBSET S |->
                                IF s = {} THEN i ELSE File(p, f[s \ {Max(s)}], q[Max(s)])]
           g == [s \in SUBSET S |->
                    CASE s = {} -> i
                      [] s = {1} -> one
                      [] s = {2} -> File(p, i, q[2])
                      [] OTHER -> File(p, one, q[2])]
           f == CHOOSE h : Folded(h)
<1>1. Max({1}) = 1 /\ Max({2}) = 2 /\ Max({1, 2}) = 2
  BY DEF Max
<1>2. 1 .. 1 = {1} /\ 1 .. 2 = {1, 2}
  OBVIOUS
<1>3. ASSUME NEW s \in SUBSET S PROVE s \in {{}, {1}, {2}, {1, 2}}
  BY <1>2
<1>4. Folded(g)
  <2> DEFINE v(s) == IF s = {} THEN i ELSE File(p, g[s \ {Max(s)}], q[Max(s)])
  <2>1. ASSUME NEW s \in SUBSET S PROVE g[s] = v(s)
    <3>1. CASE s = {}
      BY <3>1
    <3>2. CASE s = {1}
      <4>1. Max(s) = 1 /\ s \ {1} = {} /\ s # {}
        BY <1>1, <3>2
      <4>2. g[s] = one /\ g[{}] = i
        BY <3>2
      <4> QED
        BY <3>2, <4>1, <4>2
    <3>3. CASE s = {2}
      <4>1. Max(s) = 2 /\ s \ {2} = {} /\ s # {}
        BY <1>1, <3>3
      <4>2. g[s] = File(p, i, q[2]) /\ g[{}] = i
        BY <3>3
      <4> QED
        BY <4>1, <4>2
    <3>4. CASE s = {1, 2}
      <4>1. Max(s) = 2 /\ s \ {2} = {1} /\ s # {}
        BY <1>1, <3>4
      <4>2. g[s] = File(p, one, q[2]) /\ g[{1}] = one
        BY <3>4
      <4> QED
        BY <4>1, <4>2
    <3> QED
      BY <1>3, <3>1, <3>2, <3>3, <3>4
  <2>2. g = [s \in SUBSET S |-> g[s]]
    OBVIOUS
  <2> HIDE DEF g
  <2>3. g = [s \in SUBSET S |-> v(s)]
    <3> HIDE DEF v
    <3> QED
      BY <2>1, <2>2
  <2> QED
    BY Zenon, <2>3
<1>5. Folded(f)
  BY <1>4
<1>6. FileAll(p, i, q) = f[S]
  BY DEF FileAll, FoldLeft, MapThenFoldSet
<1> HIDE DEF f
<1>7. f[{}] = i
  BY <1>5
<1>8. f[{1}] = one
  <2>1. {1} \in SUBSET S /\ {1} \ {1} = {} /\ {1} # {}
    BY <1>2
  <2>2. f[{1}] = File(p, f[{1} \ {Max({1})}], q[Max({1})])
    BY <1>5, <2>1
  <2> QED
    BY <1>1, <1>7, <2>1, <2>2
<1>9. CASE S = 1 .. 1
  BY <1>2, <1>6, <1>8, <1>9
<1>10. CASE S = 1 .. 2
  <2>1. {1, 2} \in SUBSET S /\ {1, 2} \ {2} = {1} /\ {1, 2} # {}
    BY <1>2, <1>10
  <2>2. f[{1, 2}] = File(p, f[{1, 2} \ {Max({1, 2})}], q[Max({1, 2})])
    BY <1>5, <2>1
  <2>3. f[{1, 2}] = File(p, one, q[2])
    BY <1>1, <1>8, <2>1, <2>2
  <2>4. S # 1 .. 1
    BY <1>2, <1>10
  <2> QED
    BY <1>2, <1>6, <1>10, <2>3, <2>4
<1> QED
  BY <1>9, <1>10

-----------------------------------------------------------------------------
(* The searches. *)

\* What the search for the nearest model answers.
LEMMA BestMatches ==
    ASSUME NEW models, NEW mdl, NEW b \in findBestMatchPPDs(models, mdl)
    PROVE  b = CRASH \/ b = NONE \/ b.fit \in {"exact", "close"}
<1>1. LastResort(models, Unseries(strlwr(mdl))) \in {CRASH, NONE}
  BY DEF LastResort
<1> QED
  BY <1>1 DEF findBestMatchPPDs

\* A candidate is one of the models or the device's own, whose names are listed last.
LEMMA CandidatesListed ==
    ASSUME NEW models, IsFiniteSet(models), NEW own, NEW listed \in SetToSeqs(models), NEW sorted,
           NEW before \in SUBSET models, before # {}
    PROVE  DOMAIN Candidates(Append(listed, own), sorted, Cardinality(before) + 1)
               \subseteq models \cup {own}
<1> DEFINE n == Cardinality(models)
           k == Cardinality(before)
           all == Append(listed, own)
<1>1. n \in Nat /\ k \in 1 .. n
  BY FS_CardinalityType, FS_Subset, FS_EmptySet
<1>2. listed \in [1 .. n -> models]
  BY DEF SetToSeqs
<1> HIDE DEF n, k
<1>3. listed \in Seq(models) /\ Len(listed) = n
  BY <1>1, <1>2
<1>4. Len(all) = n + 1 /\ \A i \in 1 .. n + 1 : all[i] \in models \cup {own}
  BY <1>1, <1>3
<1> HIDE DEF all
<1>5. all[(k + 1) - 1] \in models \cup {own}
  BY <1>1, <1>4
<1>6. k + 1 < Len(all) => all[(k + 1) + 1] \in models \cup {own}
  BY <1>1, <1>4
<1>7. DOMAIN Candidates(all, sorted, k + 1) \subseteq models \cup {own}
  BY <1>5, <1>6 DEF Candidates, Put, Empty
<1> QED
  BY <1>7 DEF all, k

\* The nearest models are taken for PPDs: what the search lists are models.
LEMMA ModelsListed ==
    ASSUME NEW models, IsFiniteSet(models), NEW mdl, NEW b \in findBestMatchPPDs(models, mdl)
    PROVE  b.list \subseteq models \cup {Unseries(mdl)}
<1> DEFINE mdll == Unseries(strlwr(mdl))
           own == Unseries(mdl)
           before == {m \in models : Precedes(m, mdll)}
           sorted == SetToSortSeq(before, Precedes) \o <<mdll>>
                         \o SetToSortSeq(models \ before, Precedes)
<1>1. CASE b = CRASH \/ b = NONE
  BY <1>1 DEF CRASH, NONE
<1>2. CASE b # CRASH /\ b # NONE
  <2>1. LastResort(models, mdll) \in {CRASH, NONE}
    BY DEF LastResort
  <2>2. before # {} /\ \E n \in NearestModels(models, mdll, own) : b.list = n.best_mdl
    BY <1>2, <2>1 DEF findBestMatchPPDs
  <2>3. PICK n \in NearestModels(models, mdll, own) : b.list = n.best_mdl
    BY <2>2
  <2>4. PICK listed \in SetToSeqs(models) :
           n \in Nearest(Candidates(Append(listed, own), sorted, Cardinality(before) + 1), mdll)
    BY <2>3 DEF NearestModels
  <2> HIDE DEF sorted
  <2>5. n.best_mdl \subseteq DOMAIN Candidates(Append(listed, own), sorted, Cardinality(before) + 1)
    BY <2>4 DEF Nearest
  <2> QED
    BY <2>2, <2>3, <2>5, CandidatesListed
<1> QED
  BY <1>1, <1>2

\* No make has a capital.
LEMMA NoMakeIsGeneric ==
    ASSUME NEW t PROVE strlwr(t) # <<"Generic">>
<1> SUFFICES ASSUME strlwr(t) = <<"Generic">> PROVE FALSE
  OBVIOUS
<1>1. DOMAIN t = {1}
  <2>1. DOMAIN strlwr(t) = DOMAIN t
    BY DEF strlwr
  <2> QED
    BY <2>1
<1>2. strlwr(t)[1] = IF t[1] \in DOMAIN LowerCase THEN LowerCase[t[1]] ELSE t[1]
  BY <1>1 DEF strlwr
<1>3. strlwr(t)[1] = "Generic"
  OBVIOUS
<1> QED
  BY <1>2, <1>3, LowerCaseAssumption, GenericAssumption

-----------------------------------------------------------------------------
(* The inductive invariant. *)

Early == {"fetch", "preferences", "filter", "ids", "device id"}
Searching == {"makes", "make", "model", "best", "generic", "driverless"}
Ending == {"commands", "fallback", "done"}

\* The PPDs with the device's id.
SameId == {p \in Keyed : Key(ppds[p].ppd_device_id) = Key(device.id)}

\* The tables are of one shape, and empty until the PPDs are known.
TablesOK ==
    /\ pc \in Early \cup Searching \cup Ending \cup {"crashed"}
    /\ pc \in Early =>
          todo = {} /\ makes = Empty /\ lmakes = Empty /\ lmodels = Empty
    /\ todo \subseteq DOMAIN ppds
    /\ ShapeOK(Index)

\* Every PPD that init_makes has seen is filed.
FiledOK ==
    pc \in Searching \cup Ending =>
        \A p \in DOMAIN ppds \ todo :
            FiledAt(Index, p, ppdMakeModelSplit(ppds[p].ppd_make_and_model))

\* The last resort comes at the end, and alone.
FitOK ==
    /\ \A p \in DOMAIN fit : fit[p] \in {"exact", "exact-cmd", "close", "generic", "none"}
    /\ pc # "done" => \A p \in DOMAIN fit : fit[p] # "none"
    /\ FallbackIsLastResort

\* The table of ids is what it was made, and what is found in it stays in the result.
IdsOK ==
    /\ pc \in {"device id"} => ids = init_ids
    /\ pc \in Searching => \A p \in SameId : p \in DOMAIN fit /\ fit[p] = "exact"
    /\ pc \in Ending =>
          \A p \in SameId : (Driverless(p) => OverIPP) =>
                p \in DOMAIN fit /\ fit[p] \in {"exact", "exact-cmd"}

IInv == TablesOK /\ FiledOK /\ FitOK /\ IdsOK

\* A step after which tables, PPDs and device are what they were.
TablesKept == UNCHANGED <<device, ppds, makes, lmakes, lmodels>>

LEMMA EmptyTables ==
    ShapeOK([makes |-> Empty, lmakes |-> Empty, lmodels |-> Empty])
BY DEF ShapeOK, Empty

\* The inductive invariant holds in the beginning.
LEMMA InitInvariant == Init => IInv
<1> SUFFICES ASSUME Init PROVE IInv
  OBVIOUS
<1>1. pc = "fetch" /\ todo = {} /\ makes = Empty /\ lmakes = Empty /\ lmodels = Empty /\ fit = Empty
  BY DEF Init
<1>2. TablesOK
  BY <1>1, EmptyTables DEF TablesOK, Early, Index
<1>3. FiledOK /\ IdsOK
  BY <1>1 DEF FiledOK, IdsOK, Searching, Ending
<1>4. FitOK
  BY <1>1 DEF FitOK, FallbackIsLastResort, Empty
<1> QED
  BY <1>2, <1>3, <1>4 DEF IInv

\* The shape depends on the tables and the PPDs alone.
LEMMA ShapeKept ==
    ASSUME TablesKept, ShapeOK(Index) PROVE ShapeOK(Index)'
<1>1. Index' = Index /\ ppds' = ppds
  BY DEF TablesKept, Index
<1> QED
  BY <1>1 DEF ShapeOK, OfMake

LEMMA FiledKept ==
    ASSUME TablesKept, TablesOK, FiledOK, pc \in Searching \cup Ending, todo \subseteq todo'
    PROVE  FiledOK'
<1>1. Index' = Index /\ ppds' = ppds
  BY DEF TablesKept, Index
<1> QED
  BY <1>1 DEF FiledOK, FiledAt

\* One PPD of init_makes.
LEMMA OneFiled ==
    ASSUME TablesOK, NEW p \in todo
    PROVE  LET index == FileAll(p, Index, ppd_makes_and_models(ppds[p]))
           IN  /\ ShapeOK(index)
               /\ FiledAt(index, p, ppdMakeModelSplit(ppds[p].ppd_make_and_model))
               /\ \A q, t : FiledAt(Index, q, t) => FiledAt(index, q, t)
<1> DEFINE q == ppd_makes_and_models(ppds[p])
           one == File(p, Index, q[1])
           two == File(p, one, q[2])
           names_of == NamesOf(ppds[p])
<1>1. p \in DOMAIN ppds /\ ShapeOK(Index)
  BY DEF TablesOK
<1>2. /\ DOMAIN names_of = 1 .. 1 \/ DOMAIN names_of = 1 .. 2
      /\ names_of[1] = ppds[p].ppd_make_and_model
  <2>1. CASE HasProduct(ppds[p])
    <3>1. names_of = <<ppds[p].ppd_make_and_model>> \o <<Product(ppds[p])>>
      BY <2>1 DEF NamesOf
    <3> DEFINE a == <<ppds[p].ppd_make_and_model>>
               b == <<Product(ppds[p])>>
    <3>2. a \o b = [n \in 1 .. 2 |-> IF n <= 1 THEN a[n] ELSE b[n - 1]]
      OBVIOUS
    <3> QED
      BY <3>1, <3>2
  <2>2. CASE ~HasProduct(ppds[p])
    <3>1. names_of = <<ppds[p].ppd_make_and_model>> \o <<>>
      BY <2>2 DEF NamesOf
    <3>2. names_of = <<ppds[p].ppd_make_and_model>>
      BY <3>1
    <3> QED
      BY <3>2
  <2> QED
    BY <2>1, <2>2
<1> HIDE DEF names_of
<1>3. DOMAIN q = DOMAIN names_of /\ \A n \in DOMAIN names_of : q[n] = ppdMakeModelSplit(names_of[n])
  BY DEF ppd_makes_and_models, names_of
<1>4. \A n \in DOMAIN names_of : OfMake(p, normalize(q[n].make))
  BY <1>3 DEF OfMake, ToSet, names_of
<1> DEFINE index == FileAll(p, Index, q)
<1>5. index = IF DOMAIN q = 1 .. 1 THEN one ELSE two
  BY <1>2, <1>3, FoldFiling
<1>6. SUFFICES /\ ShapeOK(index) /\ FiledAt(index, p, q[1])
               /\ \A r, t : FiledAt(Index, r, t) => FiledAt(index, r, t)
  BY <1>2, <1>3
<1> HIDE DEF q, index
<1>7. /\ ShapeOK(one) /\ FiledAt(one, p, q[1])
      /\ \A r, t : FiledAt(Index, r, t) => FiledAt(one, r, t)
  <2>1. OfMake(p, normalize(q[1].make))
    BY <1>2, <1>4
  <2> QED
    BY <1>1, <2>1, Filing
<1>8. CASE DOMAIN q = 1 .. 1
  BY <1>5, <1>7, <1>8
<1>9. CASE DOMAIN q = 1 .. 2
  <2> HIDE DEF one
  <2>1. DOMAIN q # 1 .. 1 /\ 2 \in DOMAIN q
    BY <1>9
  <2>2. OfMake(p, normalize(q[2].make))
    BY <1>3, <1>4, <2>1
  <2>3. ShapeOK(two) /\ \A r, t : FiledAt(one, r, t) => FiledAt(two, r, t)
    BY <1>1, <1>7, <2>2, Filing
  <2> QED
    BY <1>5, <1>7, <2>1, <2>3
<1> QED
  BY <1>2, <1>3, <1>8, <1>9

\* Every step but four keeps the tables, and goes from one part of the code to another.
LEMMA TablesStep == ASSUME IInv, [Next]_vars PROVE TablesOK'
<1> USE DEF Early, Searching, Ending
<1>1. TablesOK
  BY DEF IInv
<1>2. ASSUME TablesKept, todo' = todo, pc' \in Early \cup Searching \cup Ending \cup {"crashed"},
             pc' \in Early => pc \in Early
      PROVE  TablesOK'
  <2>1. ShapeOK(Index)'
    BY <1>1, <1>2, ShapeKept DEF TablesOK
  <2> QED
    BY <1>1, <1>2, <2>1 DEF TablesOK, TablesKept
<1>3. ASSUME pc \in Early, pc' \in Early \cup {"crashed"}, todo' = todo,
             UNCHANGED <<makes, lmakes, lmodels>>
      PROVE  TablesOK'
  <2>1. makes' = Empty /\ lmakes' = Empty /\ lmodels' = Empty /\ todo' = {}
    BY <1>1, <1>3 DEF TablesOK
  <2>2. ShapeOK(Index)'
    BY <2>1 DEF ShapeOK, Index, Empty
  <2> QED
    BY <1>3, <2>1, <2>2 DEF TablesOK
<1>4. CASE FetchPPDs
  BY <1>3, <1>4 DEF FetchPPDs, searchVars
<1>5. CASE Preferences
  BY <1>3, <1>5 DEF Preferences, searchVars, tables
<1>6. CASE FilterPPDs
  BY <1>3, <1>6 DEF FilterPPDs, searchVars
<1>7. CASE InitIds
  BY <1>3, <1>7 DEF InitIds, searchVars
<1>8. CASE SearchByDeviceID
  <2>1. TablesKept /\ pc' = "makes" /\ todo' = DOMAIN ppds
    BY <1>8 DEF SearchByDeviceID, TablesKept, tables
  <2>2. ShapeOK(Index)'
    BY <1>1, <2>1, ShapeKept DEF TablesOK
  <2> QED
    BY <2>1, <2>2 DEF TablesOK, TablesKept
<1>9. ASSUME NEW p \in todo, InitMakes(p) PROVE TablesOK'
  <2>1. CASE UNCHANGED <<makes, lmakes, lmodels>>
    <3>1. TablesKept /\ pc \in Searching /\ pc' \in {pc, "crashed"} /\ todo' = todo \ {p}
      BY <1>9, <2>1 DEF InitMakes, Crash, TablesKept
    <3>2. ShapeOK(Index)'
      BY <1>1, <3>1, ShapeKept DEF TablesOK
    <3> QED
      BY <1>1, <3>1, <3>2 DEF TablesOK, TablesKept
  <2>2. CASE ~UNCHANGED <<makes, lmakes, lmodels>>
    <3> DEFINE index == FileAll(p, Index, ppd_makes_and_models(ppds[p]))
    <3>1. ShapeOK(index)
      BY <1>1, OneFiled
    <3> HIDE DEF index
    <3>2. /\ makes' = index.makes /\ lmakes' = index.lmakes /\ lmodels' = index.lmodels
          /\ ppds' = ppds /\ todo' = todo \ {p} /\ pc' = pc /\ pc = "makes"
      BY <1>9, <2>2 DEF InitMakes, Crash, index
    <3>3. ShapeOK(Index)'
      BY <3>1, <3>2 DEF ShapeOK, OfMake, Index
    <3> QED
      BY <1>1, <3>2, <3>3 DEF TablesOK
  <2> QED
    BY <2>1, <2>2
<1> USE DEF TablesKept, tables, searchVars, Crash
<1>10. CASE InitMakesEnds
  BY <1>2, <1>10 DEF InitMakesEnds
<1>11. CASE FindMake
  <2>1. TablesKept /\ todo' = todo /\ pc' \in {"model", "crashed"}
    BY <1>11 DEF FindMake
  <2> QED
    BY <1>2, <2>1
<1>12. CASE SearchByModel
  <2>1. TablesKept /\ todo' = todo /\ pc' \in {"best", "crashed"}
    BY <1>12 DEF SearchByModel
  <2> QED
    BY <1>2, <2>1
<1>13. CASE BestMatch
  <2>1. TablesKept /\ todo' = todo /\ pc' \in {"generic", "crashed"}
    BY <1>13 DEF BestMatch
  <2> QED
    BY <1>2, <2>1
<1>14. CASE ByCommandSet
  <2>1. TablesKept /\ todo' = todo /\ pc' \in {"driverless", "crashed"}
    BY <1>14 DEF ByCommandSet
  <2> QED
    BY <1>2, <2>1
<1>15. CASE RemoveDriverless
  BY <1>2, <1>15 DEF RemoveDriverless
<1>16. CASE CheckCommands
  BY <1>2, <1>16 DEF CheckCommands
<1>17. CASE Fallback
  BY <1>2, <1>17 DEF Fallback
<1>18. CASE UNCHANGED vars
  BY <1>1, <1>2, <1>18 DEF vars, TablesOK
<1> QED
  BY <1>4, <1>5, <1>6, <1>7, <1>8, <1>9, <1>10, <1>11, <1>12, <1>13, <1>14, <1>15, <1>16,
     <1>17, <1>18 DEF Next

\* Every step keeps PPDs where they were filed.
LEMMA FiledStep == ASSUME IInv, [Next]_vars PROVE FiledOK'
<1> USE DEF Searching, Ending
<1>1. TablesOK /\ FiledOK
  BY DEF IInv
<1>2. ASSUME TablesKept, pc \in Searching \cup Ending, todo' = todo PROVE FiledOK'
  BY <1>1, <1>2, FiledKept
<1>3. ASSUME pc' \notin Searching \cup Ending PROVE FiledOK'
  BY <1>3 DEF FiledOK
<1>4. CASE FetchPPDs
  BY <1>3, <1>4 DEF FetchPPDs
<1>5. CASE Preferences
  <2>1. pc' \in {"filter", "crashed", "preferences"}
    BY <1>5 DEF Preferences
  <2> QED
    BY <1>3, <2>1
<1>6. CASE FilterPPDs
  BY <1>3, <1>6 DEF FilterPPDs
<1>7. CASE InitIds
  BY <1>3, <1>7 DEF InitIds
<1>8. CASE SearchByDeviceID
  <2>1. todo' = DOMAIN ppds /\ ppds' = ppds
    BY <1>8 DEF SearchByDeviceID, tables
  <2> QED
    BY <2>1 DEF FiledOK
<1>9. ASSUME NEW p \in todo, InitMakes(p) PROVE FiledOK'
  <2>1. CASE pc' = "crashed"
    BY <1>3, <2>1
  <2>2. CASE pc' # "crashed"
    <3> DEFINE index == FileAll(p, Index, ppd_makes_and_models(ppds[p]))
    <3>1. /\ FiledAt(index, p, ppdMakeModelSplit(ppds[p].ppd_make_and_model))
          /\ \A q, t : FiledAt(Index, q, t) => FiledAt(index, q, t)
      BY <1>1, OneFiled
    <3> HIDE DEF index
    <3>2. /\ makes' = index.makes /\ lmakes' = index.lmakes /\ lmodels' = index.lmodels
          /\ ppds' = ppds /\ todo' = todo \ {p} /\ pc' = pc /\ pc = "makes"
      BY <1>9, <2>2 DEF InitMakes, Crash, index
    <3>3. ASSUME NEW q \in DOMAIN ppds \ todo'
          PROVE  FiledAt(index, q, ppdMakeModelSplit(ppds[q].ppd_make_and_model))
      <4>1. CASE q = p
        BY <3>1, <4>1
      <4>2. CASE q # p
        <5>1. FiledAt(Index, q, ppdMakeModelSplit(ppds[q].ppd_make_and_model))
          BY <1>1, <3>2, <3>3, <4>2 DEF FiledOK
        <5> QED
          BY <3>1, <5>1
      <4> QED
        BY <4>1, <4>2
    <3>4. ASSUME NEW q, NEW t, FiledAt(index, q, t) PROVE FiledAt(Index', q, t)
      BY <3>2, <3>4 DEF FiledAt, Index
    <3>5. \A q \in DOMAIN ppds' \ todo' :
             FiledAt(Index', q, ppdMakeModelSplit(ppds'[q].ppd_make_and_model))
      BY <3>2, <3>3, <3>4
    <3> QED
      BY <3>5 DEF FiledOK, FiledAt
  <2> QED
    BY <2>1, <2>2
<1> USE DEF TablesKept, tables, searchVars
<1>10. CASE InitMakesEnds
  BY <1>2, <1>10 DEF InitMakesEnds
<1>11. CASE FindMake
  <2>1. TablesKept /\ todo' = todo /\ pc = "make"
    BY <1>11 DEF FindMake
  <2> QED
    BY <1>2, <2>1
<1>12. CASE SearchByModel
  <2>1. TablesKept /\ todo' = todo /\ pc = "model"
    BY <1>12 DEF SearchByModel
  <2> QED
    BY <1>2, <2>1
<1>13. CASE BestMatch
  BY <1>2, <1>13 DEF BestMatch
<1>14. CASE ByCommandSet
  <2>1. TablesKept /\ todo' = todo /\ pc = "generic"
    BY <1>14 DEF ByCommandSet
  <2> QED
    BY <1>2, <2>1
<1>15. CASE RemoveDriverless
  BY <1>2, <1>15 DEF RemoveDriverless
<1>16. CASE CheckCommands
  BY <1>2, <1>16 DEF CheckCommands
<1>17. CASE Fallback
  BY <1>2, <1>17 DEF Fallback
<1>18. CASE UNCHANGED vars
  <2>1. CASE pc \in Searching \cup Ending
    BY <1>2, <1>18, <2>1 DEF vars
  <2>2. CASE pc \notin Searching \cup Ending
    BY <1>3, <1>18, <2>2 DEF vars
  <2> QED
    BY <2>1, <2>2
<1> QED
  BY <1>4, <1>5, <1>6, <1>7, <1>8, <1>9, <1>10, <1>11, <1>12, <1>13, <1>14, <1>15, <1>16,
     <1>17, <1>18 DEF Next

\* Only the last step names a PPD "none", in an empty result.
LEMMA FitStep == ASSUME IInv, [Next]_vars PROVE FitOK'
<1> DEFINE Kinds == {"exact", "exact-cmd", "close", "generic"}
<1>1. FitOK
  BY DEF IInv
<1>2. ASSUME fit' = fit, pc # "done", pc' # "done" PROVE FitOK'
  BY <1>1, <1>2 DEF FitOK, FallbackIsLastResort
<1>3. ASSUME NEW found, NEW status \in Kinds, fit' = Insert(found, status), pc # "done", pc' # "done"
      PROVE  FitOK'
  <2>1. ASSUME NEW p \in DOMAIN fit' PROVE fit'[p] = status \/ (p \in DOMAIN fit /\ fit'[p] = fit[p])
    <3>1. fit' = [q \in found \cup DOMAIN fit |-> IF q \in found THEN status ELSE fit[q]]
      BY <1>3 DEF Insert
    <3>2. p \in found \cup DOMAIN fit
      BY <2>1, <3>1
    <3>3. fit'[p] = IF p \in found THEN status ELSE fit[p]
      BY <3>1, <3>2
    <3> QED
      BY <3>2, <3>3
  <2>2. \A p \in DOMAIN fit' : fit'[p] \in Kinds
    BY <1>1, <1>3, <2>1 DEF FitOK
  <2> QED
    BY <1>3, <2>2 DEF FitOK, FallbackIsLastResort
<1> USE DEF searchVars
<1>4. CASE FetchPPDs
  BY <1>2, <1>4 DEF FetchPPDs
<1>5. CASE Preferences
  <2>1. fit' = fit /\ pc = "preferences" /\ pc' \in {"filter", "crashed", "preferences"}
    BY <1>5 DEF Preferences
  <2> QED
    BY <1>2, <2>1
<1>6. CASE FilterPPDs
  <2>1. fit' = fit /\ pc = "filter" /\ pc' \in {"ids", "crashed"}
    BY <1>6 DEF FilterPPDs
  <2> QED
    BY <1>2, <2>1
<1>7. CASE InitIds
  <2>1. fit' = fit /\ pc = "ids" /\ pc' \in {"device id", "crashed"}
    BY <1>7 DEF InitIds
  <2> QED
    BY <1>2, <2>1
<1>8. CASE SearchByDeviceID
  <2>1. /\ fit' = Insert(ids[Key(device.id)], "exact") \/ fit' = fit
        /\ pc = "device id" /\ pc' = "makes"
    BY <1>8 DEF SearchByDeviceID
  <2> QED
    BY <1>2, <1>3, <2>1
<1>9. ASSUME NEW p \in todo, InitMakes(p) PROVE FitOK'
  <2>1. fit' = fit /\ pc = "makes" /\ pc' \in {"makes", "crashed"}
    BY <1>9 DEF InitMakes, Crash
  <2> QED
    BY <1>2, <2>1
<1>10. CASE InitMakesEnds
  BY <1>2, <1>10 DEF InitMakesEnds
<1>11. CASE FindMake
  <2>1. fit' = fit /\ pc = "make" /\ pc' \in {"model", "crashed"}
    BY <1>11 DEF FindMake, Crash
  <2> QED
    BY <1>2, <2>1
<1>12. CASE SearchByModel
  <2>1. /\ pc = "model" /\ pc' \in {"best", "crashed"}
        /\ fit' = fit \/ \E found : fit' = Insert(found, "exact")
    BY <1>12 DEF SearchByModel, Crash
  <2> QED
    BY <1>2, <1>3, <2>1
<1>13. CASE BestMatch
  <2>1. pc = "best" /\ pc' \in {"generic", "crashed"}
    BY <1>13 DEF BestMatch, Crash
  <2>2. CASE fit' = fit
    BY <1>2, <2>1, <2>2
  <2>3. CASE fit' # fit
    <3>1. PICK b \in findBestMatchPPDs(DOMAIN makes[names.make], names.mdl) :
             b # CRASH /\ fit' = Insert(b.list, b.fit)
      BY <1>13, <2>3 DEF BestMatch
    <3>2. CASE b = NONE
      <4>1. \A p \in DOMAIN fit' : p \in DOMAIN fit /\ fit'[p] = fit[p]
        BY <3>1, <3>2 DEF NONE, Insert
      <4> QED
        BY <1>1, <2>1, <4>1 DEF FitOK, FallbackIsLastResort
    <3>3. CASE b.fit \in {"exact", "close"}
      BY <1>3, <2>1, <3>1, <3>3
    <3> QED
      BY <3>1, <3>2, <3>3, BestMatches
  <2> QED
    BY <2>2, <2>3
<1>14. CASE ByCommandSet
  <2>1. /\ pc = "generic" /\ pc' \in {"driverless", "crashed"}
        /\ fit' = fit \/ \E found : fit' = Insert(found, "generic")
    BY <1>14 DEF ByCommandSet
  <2> QED
    BY <1>2, <1>3, <2>1
<1>15. CASE RemoveDriverless
  <2>1. pc = "driverless" /\ pc' = "commands"
    BY <1>15 DEF RemoveDriverless
  <2>2. \A p \in DOMAIN fit' : p \in DOMAIN fit /\ fit'[p] = fit[p]
    BY <1>15 DEF RemoveDriverless, Restrict
  <2> QED
    BY <1>1, <2>1, <2>2 DEF FitOK, FallbackIsLastResort
<1>16. CASE CheckCommands
  <2>1. pc = "commands" /\ pc' = "fallback"
    BY <1>16 DEF CheckCommands
  <2>2. \A p \in DOMAIN fit' : p \in DOMAIN fit /\ fit'[p] \in {"exact-cmd", fit[p]}
    BY <1>16 DEF CheckCommands
  <2> QED
    BY <1>1, <2>1, <2>2 DEF FitOK, FallbackIsLastResort
<1>17. CASE Fallback
  <2>1. pc = "fallback" /\ pc' = "done"
    BY <1>17 DEF Fallback
  <2>2. CASE fit' = fit
    BY <1>1, <2>1, <2>2 DEF FitOK, FallbackIsLastResort
  <2>3. CASE fit' # fit
    <3>1. PICK p \in Fallbacks : fit' = Insert({p}, "none") /\ fit = Empty
      BY <1>17, <2>3 DEF Fallback
    <3>2. DOMAIN fit' = {p} /\ fit'[p] = "none"
      BY <3>1, InsertProperties DEF Empty
    <3> QED
      BY <2>1, <3>2 DEF FitOK, FallbackIsLastResort
  <2> QED
    BY <2>2, <2>3
<1>18. CASE UNCHANGED vars
  BY <1>1, <1>18 DEF vars, FitOK, FallbackIsLastResort
<1> QED
  BY <1>4, <1>5, <1>6, <1>7, <1>8, <1>9, <1>10, <1>11, <1>12, <1>13, <1>14, <1>15, <1>16,
     <1>17, <1>18 DEF Next

\* Every step keeps the exact matches by id.
LEMMA IdsStep == ASSUME IInv, [Next]_vars PROVE IdsOK'
<1> DEFINE Found == \A p \in SameId : p \in DOMAIN fit /\ fit[p] = "exact"
           Kept == \A p \in SameId : (Driverless(p) => OverIPP) =>
                       p \in DOMAIN fit /\ fit[p] \in {"exact", "exact-cmd"}
<1> USE DEF Searching, Ending
<1>1. TablesOK /\ IdsOK
  BY DEF IInv
<1>2. ASSUME UNCHANGED <<ppds, device>> PROVE SameId' = SameId /\ (OverIPP <=> OverIPP')
  BY <1>2 DEF SameId, Keyed, OverIPP
<1>3. ASSUME pc \in Searching, pc' \in Searching \cup {"crashed"}, UNCHANGED <<ppds, device>>,
             Found => \A p \in SameId : p \in DOMAIN fit' /\ fit'[p] = "exact"
      PROVE  IdsOK'
  <2>1. Found
    BY <1>1, <1>3 DEF IdsOK
  <2> QED
    BY <1>2, <1>3, <2>1 DEF IdsOK
<1>4. ASSUME fit' = fit \/ \E found : fit' = Insert(found, "exact")
      PROVE  Found => \A p \in SameId : p \in DOMAIN fit' /\ fit'[p] = "exact"
  <2> SUFFICES ASSUME Found, NEW p \in SameId PROVE p \in DOMAIN fit' /\ fit'[p] = "exact"
    OBVIOUS
  <2>1. ASSUME NEW found, fit' = Insert(found, "exact")
        PROVE  p \in DOMAIN fit' /\ fit'[p] = "exact"
    BY <2>1 DEF Insert
  <2> QED
    BY <1>4, <2>1
<1>5. ASSUME pc' \notin Searching \cup Ending \cup {"device id"} PROVE IdsOK'
  BY <1>5 DEF IdsOK
<1> USE DEF searchVars, tables
<1>6. CASE FetchPPDs
  BY <1>5, <1>6 DEF FetchPPDs
<1>7. CASE Preferences
  <2>1. pc' \in {"filter", "crashed", "preferences"}
    BY <1>7 DEF Preferences
  <2> QED
    BY <1>5, <2>1
<1>8. CASE FilterPPDs
  BY <1>5, <1>8 DEF FilterPPDs
<1>9. CASE InitIds
  BY <1>9 DEF InitIds, IdsOK, init_ids, Keyed
<1>10. CASE SearchByDeviceID
  <2> DEFINE key == Key(device.id)
  <2>1. /\ ids = init_ids
        /\ pc' = "makes" /\ UNCHANGED <<ppds, device>>
        /\ fit' = IF key \in DOMAIN ids THEN Insert(ids[key], "exact") ELSE fit
    BY <1>1, <1>10 DEF SearchByDeviceID, IdsOK
  <2>2. ASSUME NEW p \in SameId PROVE p \in DOMAIN fit' /\ fit'[p] = "exact"
    <3>1. p \in Keyed /\ Key(ppds[p].ppd_device_id) = key
      BY DEF SameId
    <3> HIDE DEF key
    <3>2. key \in DOMAIN ids /\ p \in ids[key]
      BY <2>1, <3>1 DEF init_ids
    <3>3. fit' = Insert(ids[key], "exact")
      BY <2>1, <3>2
    <3> QED
      BY <3>2, <3>3 DEF Insert
  <2> QED
    BY <1>2, <2>1, <2>2 DEF IdsOK
<1>11. ASSUME NEW p \in todo, InitMakes(p) PROVE IdsOK'
  <2>1. pc = "makes" /\ pc' \in {"makes", "crashed"} /\ UNCHANGED <<ppds, device, fit>>
    BY <1>11 DEF InitMakes, Crash
  <2> QED
    BY <1>3, <2>1
<1>12. CASE InitMakesEnds
  BY <1>3, <1>12 DEF InitMakesEnds
<1>13. CASE FindMake
  <2>1. pc = "make" /\ pc' \in {"model", "crashed"} /\ UNCHANGED <<ppds, device, fit>>
    BY <1>13 DEF FindMake, Crash
  <2> QED
    BY <1>3, <2>1
<1>14. CASE SearchByModel
  <2>1. /\ pc = "model" /\ pc' \in {"best", "crashed"} /\ UNCHANGED <<ppds, device>>
        /\ fit' = fit \/ \E found : fit' = Insert(found, "exact")
    BY <1>14 DEF SearchByModel, Crash
  <2>2. Found => \A p \in SameId : p \in DOMAIN fit' /\ fit'[p] = "exact"
    BY <1>4, <2>1
  <2> QED
    BY <1>3, <2>1, <2>2
\* Where a PPD was found, the nearest model is not looked for.
<1>15. CASE BestMatch
  <2>1. pc = "best" /\ pc' \in {"generic", "crashed"} /\ UNCHANGED <<ppds, device>>
    BY <1>15 DEF BestMatch, Crash
  <2>2. CASE fit = Empty
    <3>1. Found => SameId = {}
      BY <2>2 DEF Empty
    <3> QED
      BY <1>3, <2>1, <3>1
  <2>3. CASE fit # Empty
    <3>1. fit' = fit
      BY <1>15, <2>3 DEF BestMatch
    <3> QED
      BY <1>3, <2>1, <3>1
  <2> QED
    BY <2>2, <2>3
<1>16. CASE ByCommandSet
  <2>1. <<"Generic">> \notin DOMAIN makes
    BY <1>1, NoMakeIsGeneric DEF TablesOK, ShapeOK, Index
  <2>2. getPPDNameFromCommandSet = {NONE}
    BY <2>1 DEF getPPDNameFromCommandSet
  <2>3. pc = "generic" /\ pc' = "driverless" /\ UNCHANGED <<ppds, device, fit>>
    BY <1>16, <2>2 DEF ByCommandSet, NONE, CRASH
  <2> QED
    BY <1>3, <2>3
<1>17. CASE RemoveDriverless
  <2>1. Found /\ pc' = "commands" /\ UNCHANGED <<ppds, device>>
    BY <1>1, <1>17 DEF RemoveDriverless, IdsOK
  <2>2. ASSUME NEW p \in SameId, Driverless(p) => OverIPP PROVE p \in DOMAIN fit' /\ fit'[p] = "exact"
    BY <1>17, <2>1, <2>2 DEF RemoveDriverless, Restrict
  <2> QED
    BY <1>2, <2>1, <2>2 DEF IdsOK
<1>18. CASE CheckCommands
  <2>1. Kept /\ pc' = "fallback" /\ UNCHANGED <<ppds, device>>
    BY <1>1, <1>18 DEF CheckCommands, IdsOK
  <2>2. \A p \in DOMAIN fit : p \in DOMAIN fit' /\ fit'[p] \in {"exact-cmd", fit[p]}
    BY <1>18 DEF CheckCommands
  <2>3. ASSUME NEW p \in SameId, Driverless(p) => OverIPP
        PROVE  p \in DOMAIN fit' /\ fit'[p] \in {"exact", "exact-cmd"}
    <3>1. p \in DOMAIN fit /\ fit[p] \in {"exact", "exact-cmd"}
      BY <2>1, <2>3
    <3> QED
      BY <2>2, <3>1
  <2> QED
    BY <1>2, <2>1, <2>3 DEF IdsOK
<1>19. CASE Fallback
  <2>1. Kept /\ pc' = "done" /\ UNCHANGED <<ppds, device>>
    BY <1>1, <1>19 DEF Fallback, IdsOK
  <2>2. CASE fit' = fit
    BY <1>2, <2>1, <2>2 DEF IdsOK
  <2>3. CASE fit' # fit
    <3>1. fit = Empty
      BY <1>19, <2>3 DEF Fallback
    <3>2. \A p \in SameId : ~(Driverless(p) => OverIPP)
      BY <2>1, <3>1 DEF Empty
    <3> QED
      BY <1>2, <2>1, <3>2 DEF IdsOK
  <2> QED
    BY <2>2, <2>3
<1>20. CASE UNCHANGED vars
  <2>1. UNCHANGED <<ppds, device, fit, pc, ids>>
    BY <1>20 DEF vars
  <2>2. init_ids' = init_ids
    BY <2>1 DEF init_ids, Keyed
  <2> HIDE DEF Found, Kept
  <2>3. Found' = Found /\ Kept' = Kept
    BY <1>2, <2>1 DEF Found, Kept
  <2>4. /\ pc = "device id" => ids = init_ids
        /\ pc \in Searching => Found
        /\ pc \in Ending => Kept
    BY <1>1 DEF IdsOK, Found, Kept
  <2> QED
    BY <2>1, <2>2, <2>3, <2>4 DEF IdsOK, Found, Kept
<1> QED
  BY <1>6, <1>7, <1>8, <1>9, <1>10, <1>11, <1>12, <1>13, <1>14, <1>15, <1>16, <1>17, <1>18,
     <1>19, <1>20 DEF Next

-----------------------------------------------------------------------------
(* What is read of the answer and of the order of preference. *)

\* The input is one of those there may be.
InputOK ==
    \E input \in Inputs :
        response = input.response /\ device = input.device /\ document = input.document

\* An entry has the values of a record; only the name of "raw" may be another.
FromRecord(entry, record) ==
    /\ \A a \in ToSet(Attributes) : a # "ppd_make_and_model" => entry[a] = record[a]
    /\ entry.ppd_make_and_model \in {record.ppd_make_and_model,
                                     Generic \o record.ppd_make_and_model}

EntryOf(entry, record) == \A a \in ToSet(Attributes) : entry[a] = record[a]

AllComplete == \A i \in DOMAIN response : Complete(response[i])

ListOK ==
    /\ pc # "fetch" => \A p \in DOMAIN ppds : OnAttributes(ppds[p], Attributes)
    /\ pc # "fetch" /\ AllComplete =>
          \A p \in DOMAIN ppds :
              \E i \in DOMAIN response : response[i].ppd_name = p /\ FromRecord(ppds[p], response[i])
    /\ pc \in {"preferences", "filter"} /\ AllComplete =>
          /\ \A p \in DOMAIN ppds :
                \E i \in DOMAIN response : response[i].ppd_name = p /\ EntryOf(ppds[p], response[i])
          /\ \A i \in DOMAIN response : response[i].ppd_name \in DOMAIN ppds

\* What is kept is understood, and what is left at the end may be used.
UsableOK ==
    /\ pc \in {"ids", "device id"} \cup Searching \cup Ending =>
          \A p \in DOMAIN ppds : Understood(ppds, p)
    /\ pc \in Ending =>
          \A p \in DOMAIN fit : Driverless(p) => OverIPP \/ fit[p] = "none"

LEMMA NamesOfAttributes ==
    /\ EachOnce(Attributes) /\ DOMAIN Attributes = 1 .. Len(Attributes)
    /\ ToSet(Attributes) = {"ppd_name", "ppd_natural_language", "ppd_device_id", "ppd_make",
                            "ppd_make_and_model", "ppd_product"}
<1> DEFINE names_ == {"ppd_name", "ppd_natural_language", "ppd_device_id", "ppd_make",
                      "ppd_make_and_model", "ppd_product"}
<1>1. Len(Attributes) = 6 /\ DOMAIN Attributes = 1 .. 6
  BY DEF Attributes
<1>2. /\ Attributes[1] = "ppd_name" /\ Attributes[2] = "ppd_natural_language"
      /\ Attributes[3] = "ppd_device_id" /\ Attributes[4] = "ppd_make"
      /\ Attributes[5] = "ppd_make_and_model" /\ Attributes[6] = "ppd_product"
  BY DEF Attributes
<1>3. 1 .. 6 = {1, 2, 3, 4, 5, 6}
  OBVIOUS
<1>4. \A i, j \in {1, 2, 3, 4, 5, 6} : Attributes[i] = Attributes[j] => i = j
  BY <1>2
<1>5. {Attributes[i] : i \in {1, 2, 3, 4, 5, 6}} = names_
  BY <1>2
<1> QED
  BY <1>1, <1>3, <1>4, <1>5 DEF EachOnce, ToSet

LEMMA ResponseSequence ==
    ASSUME InputOK
    PROVE  Len(response) \in Nat /\ DOMAIN response = 1 .. Len(response)
<1>1. response \in Seq({response[i] : i \in DOMAIN response})
  BY InputsAssumption DEF InputOK
<1> QED
  BY <1>1, LenProperties

\* Nothing writes to the input.
LEMMA InputKept == ASSUME [Next]_vars PROVE UNCHANGED <<response, device, document>>
<1> USE DEF orderVars, searchVars, tables
<1>1. CASE Preferences
  BY <1>1 DEF Preferences, ReadPreferences, PreferredDrivers, NodeMissing, DriverTypes_load,
      TypesEnd, PreferenceOrder_load, OrderEnds
<1>2. CASE FetchPPDs \/ FilterPPDs \/ InitIds \/ SearchByDeviceID
  BY <1>2 DEF FetchPPDs, FilterPPDs, InitIds, SearchByDeviceID
<1>3. ASSUME NEW p \in todo, InitMakes(p) PROVE UNCHANGED <<response, device, document>>
  BY <1>3 DEF InitMakes
<1>4. CASE InitMakesEnds \/ FindMake
  BY <1>4 DEF InitMakesEnds, FindMake
<1>5. CASE SearchByModel
  BY <1>5 DEF SearchByModel
<1>6. CASE BestMatch \/ ByCommandSet
  BY <1>6 DEF BestMatch, ByCommandSet
<1>7. CASE RemoveDriverless \/ CheckCommands \/ Fallback
  BY <1>7 DEF RemoveDriverless, CheckCommands, Fallback
<1>8. CASE UNCHANGED vars
  BY <1>8 DEF vars
<1> QED
  BY <1>1, <1>2, <1>3, <1>4, <1>5, <1>6, <1>7, <1>8 DEF Next

\* Every step keeps the inputs, which are constant.
LEMMA InputStep == ASSUME InputOK, [Next]_vars PROVE InputOK'
  BY InputKept DEF InputOK

\* Most steps leave the list alone.
LEMMA ListKept ==
    ASSUME ListOK, UNCHANGED <<response, ppds>>, pc # "fetch",
           pc' \in {"preferences", "filter"} => pc \in {"preferences", "filter"}
    PROVE  ListOK'
<1>1. AllComplete' <=> AllComplete
  BY DEF AllComplete
<1> QED
  BY <1>1 DEF ListOK

\* What the step does to the list, in parts of the code that come before the searches.
LEMMA ListSteps ==
    ASSUME [Next]_vars, pc \notin {"fetch", "filter"}
    PROVE  UNCHANGED <<response, device, ppds>>
<1> USE DEF searchVars, tables
<1>1. CASE FetchPPDs \/ FilterPPDs
  BY <1>1 DEF FetchPPDs, FilterPPDs
<1>2. CASE Preferences
  BY <1>2 DEF Preferences
<1>3. CASE InitIds \/ SearchByDeviceID
  BY <1>3 DEF InitIds, SearchByDeviceID
<1>4. ASSUME NEW p \in todo, InitMakes(p) PROVE UNCHANGED <<response, device, ppds>>
  BY <1>4 DEF InitMakes
<1>5. CASE InitMakesEnds \/ FindMake
  BY <1>5 DEF InitMakesEnds, FindMake
<1>6. CASE SearchByModel
  BY <1>6 DEF SearchByModel
<1>7. CASE BestMatch \/ ByCommandSet
  BY <1>7 DEF BestMatch, ByCommandSet
<1>8. CASE RemoveDriverless \/ CheckCommands \/ Fallback
  BY <1>8 DEF RemoveDriverless, CheckCommands, Fallback
<1>9. CASE UNCHANGED vars
  BY <1>9 DEF vars
<1> QED
  BY <1>1, <1>2, <1>3, <1>4, <1>5, <1>6, <1>7, <1>8, <1>9 DEF Next


\* The parts of the code before the searches follow each other.
LEMMA PartsFollow ==
    ASSUME [Next]_vars
    PROVE  /\ pc' = "fetch" => pc = "fetch"
           /\ pc' = "preferences" => pc \in {"fetch", "preferences"}
           /\ pc' = "filter" => pc \in {"preferences", "filter"}
           /\ pc' = "ids" => pc \in {"filter", "ids"}
           /\ pc = "fetch" => FetchPPDs \/ UNCHANGED vars
           /\ pc = "preferences" => Preferences \/ UNCHANGED vars
           /\ pc = "filter" => FilterPPDs \/ UNCHANGED vars
           /\ pc = "ids" => InitIds \/ UNCHANGED vars
           /\ pc = "crashed" => UNCHANGED vars
<1> USE DEF Crash
<1>1. CASE FetchPPDs \/ FilterPPDs
  BY <1>1 DEF FetchPPDs, FilterPPDs
<1>2. CASE Preferences
  <2>1. pc = "preferences" /\ pc' \in {"preferences", "filter", "crashed"}
    BY <1>2 DEF Preferences
  <2> QED
    BY <1>2, <2>1
<1>3. CASE InitIds \/ SearchByDeviceID
  <2>1. \/ InitIds /\ pc = "ids" /\ pc' \in {"device id", "crashed"}
        \/ pc = "device id" /\ pc' = "makes"
    BY <1>3 DEF InitIds, SearchByDeviceID
  <2> QED
    BY <2>1
<1>4. ASSUME NEW p \in todo, InitMakes(p) PROVE pc = "makes" /\ pc' \in {"makes", "crashed"}
  BY <1>4 DEF InitMakes
<1>5. CASE InitMakesEnds \/ FindMake
  <2>1. pc \in {"makes", "make"} /\ pc' \in {"make", "crashed", "model"}
    BY <1>5 DEF InitMakesEnds, FindMake
  <2> QED
    BY <2>1
<1>6. CASE SearchByModel
  <2>1. pc = "model" /\ pc' \in {"best", "crashed"}
    BY <1>6 DEF SearchByModel
  <2> QED
    BY <2>1
<1>7. CASE BestMatch
  <2>1. pc = "best" /\ pc' \in {"generic", "crashed"}
    BY <1>7 DEF BestMatch
  <2> QED
    BY <2>1
<1>8. CASE ByCommandSet
  <2>1. pc = "generic" /\ pc' \in {"driverless", "crashed"}
    BY <1>8 DEF ByCommandSet
  <2> QED
    BY <2>1
<1>9. CASE RemoveDriverless \/ CheckCommands \/ Fallback
  BY <1>9 DEF RemoveDriverless, CheckCommands, Fallback
<1>10. CASE UNCHANGED vars
  BY <1>10 DEF vars
<1> QED
  BY <1>1, <1>2, <1>3, <1>4, <1>5, <1>6, <1>7, <1>8, <1>9, <1>10 DEF Next

\* The filter gives another name to "raw", and nothing else.
LEMMA Filtered ==
    ASSUME \A p \in DOMAIN ppds : OnAttributes(ppds[p], Attributes)
    PROVE  /\ DOMAIN PPDs(ppds) = {p \in DOMAIN ppds : Understood(ppds, p)}
           /\ \A p \in DOMAIN PPDs(ppds) :
                 /\ OnAttributes(PPDs(ppds)[p], Attributes)
                 /\ \A a \in ToSet(Attributes) :
                       a # "ppd_make_and_model" => PPDs(ppds)[p][a] = ppds[p][a]
                 /\ \/ PPDs(ppds)[p].ppd_make_and_model = ppds[p].ppd_make_and_model
                    \/ PPDs(ppds)[p].ppd_make_and_model = Generic \o ppds[p].ppd_make_and_model
                 /\ Understood(PPDs(ppds), p)
<1>1. DOMAIN PPDs(ppds) = {p \in DOMAIN ppds : Understood(ppds, p)}
  BY DEF PPDs
<1>2. ASSUME NEW p \in DOMAIN PPDs(ppds)
      PROVE  /\ OnAttributes(PPDs(ppds)[p], Attributes)
             /\ \A a \in ToSet(Attributes) :
                   a # "ppd_make_and_model" => PPDs(ppds)[p][a] = ppds[p][a]
             /\ \/ PPDs(ppds)[p].ppd_make_and_model = ppds[p].ppd_make_and_model
                \/ PPDs(ppds)[p].ppd_make_and_model = Generic \o ppds[p].ppd_make_and_model
             /\ Understood(PPDs(ppds), p)
  <2> DEFINE old == ppds[p]
             new == [old EXCEPT !.ppd_make_and_model = Generic \o old.ppd_make_and_model]
  <2>1. PPDs(ppds)[p] = new \/ PPDs(ppds)[p] = old
    BY <1>1, <1>2 DEF PPDs
  <2>2. old = [a \in ToSet(Attributes) |-> old[a]] /\ Understood(ppds, p)
    BY <1>1, <1>2 DEF OnAttributes
  <2> HIDE DEF old
  <2>3. new = [a \in ToSet(Attributes) |->
                  IF a = "ppd_make_and_model" THEN Generic \o old.ppd_make_and_model ELSE old[a]]
    BY <2>2
  <2>4. /\ OnAttributes(new, Attributes)
        /\ \A a \in ToSet(Attributes) : a # "ppd_make_and_model" => new[a] = old[a]
        /\ new.ppd_make_and_model = Generic \o old.ppd_make_and_model
    BY <2>3, NamesOfAttributes DEF OnAttributes
  <2>5. OnAttributes(old, Attributes)
    BY <2>2 DEF OnAttributes
  <2> HIDE DEF new
  <2>6. PPDs(ppds)[p].ppd_natural_language = old.ppd_natural_language
    BY <2>1, <2>4, NamesOfAttributes
  <2>7. Understood(PPDs(ppds), p)
    BY <2>2, <2>6 DEF Understood, old
  <2>8. \A a \in ToSet(Attributes) : a # "ppd_make_and_model" => PPDs(ppds)[p][a] = old[a]
    BY <2>1, <2>4
  <2> QED
    BY <2>1, <2>4, <2>5, <2>7, <2>8 DEF old
<1> QED
  BY <1>1, <1>2

\* Every step keeps the list of PPDs made of records of the answer.
LEMMA ListStep == ASSUME ListOK, InputOK, [Next]_vars PROVE ListOK'
<1>1. CASE pc = "fetch"
  <2>1. CASE UNCHANGED vars
    <3>1. UNCHANGED <<response, ppds, pc>>
      BY <2>1 DEF vars, tables
    <3> QED
      BY <1>1, <3>1 DEF ListOK
  <2>2. CASE FetchPPDs
    <3>1. ppds' = getPPDs(response) /\ pc' = "preferences" /\ response' = response
      BY <2>2 DEF FetchPPDs
    <3>2. Len(response) \in Nat /\ DOMAIN response = 1 .. Len(response) /\ Len(Attributes) \in Nat
      BY ResponseSequence, NamesOfAttributes DEF EachOnce
    <3>3. \A p \in DOMAIN ppds' : OnAttributes(ppds'[p], Attributes)
      BY <3>1, <3>2, EntriesShaped DEF getPPDs
    <3>4. ASSUME AllComplete
          PROVE  /\ \A p \in DOMAIN ppds' :
                       \E i \in DOMAIN response :
                           response[i].ppd_name = p /\ EntryOf(ppds'[p], response[i])
                 /\ \A i \in DOMAIN response : response[i].ppd_name \in DOMAIN ppds'
      <4> DEFINE A == ToSet(Attributes)
                 values(i) == [a \in A |-> response[i][a]]
      <4>1. \A i \in DOMAIN response : DOMAIN response[i] = A
        BY <3>4 DEF AllComplete, Complete
      <4>2. /\ \A k \in DOMAIN ppds' :
                  \E i \in DOMAIN response : k = response[i]["ppd_name"] /\ ppds'[k] = values(i)
            /\ \A i \in DOMAIN response : response[i]["ppd_name"] \in DOMAIN ppds'
        <5>1. "ppd_name" \in A /\ EachOnce(Attributes)
          BY NamesOfAttributes
        <5>2. LET table == Collect(response, Attributes, ToSet(Attributes), "ppd_name")
                  row(i) == [a \in ToSet(Attributes) |-> response[i][a]]
              IN  /\ \A k \in DOMAIN table :
                        \E i \in DOMAIN response :
                            k = response[i]["ppd_name"] /\ table[k] = row(i)
                  /\ \A i \in DOMAIN response : response[i]["ppd_name"] \in DOMAIN table
          BY <3>2, <4>1, <5>1, CollectComplete
        <5>3. ppds' = Collect(response, Attributes, ToSet(Attributes), "ppd_name")
          BY <3>1 DEF getPPDs
        <5> QED
          BY <5>2, <5>3
      <4>3. ASSUME NEW i \in DOMAIN response PROVE EntryOf(values(i), response[i])
        BY DEF EntryOf
      <4> HIDE DEF values
      <4> QED
        BY <4>2, <4>3
    <3>5. AllComplete' <=> AllComplete
      BY <3>1 DEF AllComplete
    <3>6. \A entry, record : EntryOf(entry, record) => FromRecord(entry, record)
      BY NamesOfAttributes DEF EntryOf, FromRecord
    <3> QED
      BY <3>1, <3>3, <3>4, <3>5, <3>6 DEF ListOK
  <2> QED
    BY <1>1, <2>1, <2>2, PartsFollow
<1>2. CASE pc = "filter"
  <2>1. CASE UNCHANGED vars
    <3>1. UNCHANGED <<response, ppds, pc>>
      BY <2>1 DEF vars, tables
    <3> QED
      BY <1>2, <3>1, ListKept
  <2>2. CASE FilterPPDs
    <3>1. ppds' = PPDs(ppds) /\ pc' \in {"ids", "crashed"} /\ response' = response
      BY <2>2 DEF FilterPPDs
    <3>2. \A p \in DOMAIN ppds : OnAttributes(ppds[p], Attributes)
      BY <1>2 DEF ListOK
    <3>3. \A p \in DOMAIN ppds' :
             /\ p \in DOMAIN ppds
             /\ OnAttributes(ppds'[p], Attributes)
             /\ \A a \in ToSet(Attributes) : a # "ppd_make_and_model" => ppds'[p][a] = ppds[p][a]
             /\ \/ ppds'[p].ppd_make_and_model = ppds[p].ppd_make_and_model
                \/ ppds'[p].ppd_make_and_model = Generic \o ppds[p].ppd_make_and_model
      BY <3>1, <3>2, Filtered
    <3>4. ASSUME AllComplete, NEW p \in DOMAIN ppds'
          PROVE  \E i \in DOMAIN response :
                     response[i].ppd_name = p /\ FromRecord(ppds'[p], response[i])
      <4>1. p \in DOMAIN ppds
        BY <3>3
      <4>2. PICK i \in DOMAIN response : response[i].ppd_name = p /\ EntryOf(ppds[p], response[i])
        BY <1>2, <3>4, <4>1 DEF ListOK
      <4> QED
        <5>1. "ppd_make_and_model" \in ToSet(Attributes)
          BY NamesOfAttributes
        <5>2. \A a \in ToSet(Attributes) : ppds[p][a] = response[i][a]
          BY <4>2 DEF EntryOf
        <5>3. ppds[p].ppd_make_and_model = response[i].ppd_make_and_model
          BY <5>1, <5>2
        <5>4. ppds'[p].ppd_make_and_model \in {response[i].ppd_make_and_model,
                                                Generic \o response[i].ppd_make_and_model}
          BY <3>3, <5>3
        <5>5. \A a \in ToSet(Attributes) : a # "ppd_make_and_model" => ppds'[p][a] = response[i][a]
          BY <3>3, <5>2
        <5>6. FromRecord(ppds'[p], response[i])
          BY <5>4, <5>5 DEF FromRecord
        <5> QED
          BY <4>2, <5>6
    <3>5. AllComplete' <=> AllComplete
      BY <3>1 DEF AllComplete
    <3> QED
      BY <3>1, <3>3, <3>4, <3>5 DEF ListOK
  <2> QED
    BY <1>2, <2>1, <2>2, PartsFollow
<1>3. CASE pc \notin {"fetch", "filter"}
  <2>1. UNCHANGED <<response, ppds>>
    BY <1>3, ListSteps
  <2>2. pc' \in {"preferences", "filter"} => pc \in {"preferences", "filter"}
    BY <1>3, PartsFollow
  <2> QED
    BY <1>3, <2>1, <2>2, ListKept
<1> QED
  BY <1>1, <1>2, <1>3

\* Every step keeps what is offered in a language the user reads.
LEMMA UsableStep == ASSUME IInv, ListOK, UsableOK, [Next]_vars PROVE UsableOK'
<1> USE DEF Searching, Ending
<1> DEFINE After == {"ids", "device id"} \cup Searching \cup Ending
           Left == \A p \in DOMAIN fit : Driverless(p) => OverIPP \/ fit[p] = "none"
<1>1. /\ pc \in After => \A p \in DOMAIN ppds : Understood(ppds, p)
      /\ pc \in Ending => Left
  BY DEF UsableOK
<1>2. ASSUME pc' \in After, pc \notin After
      PROVE  \A p \in DOMAIN ppds' : Understood(ppds', p)
  <2>1. pc \in {"fetch", "preferences", "filter", "crashed"}
    BY <1>2 DEF IInv, TablesOK, Early
  <2>2. FilterPPDs
    <3>1. ~UNCHANGED vars
      BY <1>2 DEF vars
    <3>2. CASE pc = "fetch"
      BY <1>2, <3>1, <3>2, PartsFollow DEF FetchPPDs
    <3>3. CASE pc = "preferences"
      <4>1. pc' \in {"preferences", "filter", "crashed"}
        BY <3>1, <3>3, PartsFollow DEF Preferences
      <4> QED
        BY <1>2, <4>1
    <3> QED
      BY <2>1, <3>1, <3>2, <3>3, PartsFollow
  <2>3. ppds' = PPDs(ppds) /\ pc = "filter"
    BY <2>2 DEF FilterPPDs
  <2>4. \A p \in DOMAIN ppds : OnAttributes(ppds[p], Attributes)
    BY <2>3 DEF ListOK
  <2> QED
    BY <2>3, <2>4, Filtered
<1>3. pc' \in After => \A p \in DOMAIN ppds' : Understood(ppds', p)
  <2> SUFFICES ASSUME pc' \in After PROVE \A p \in DOMAIN ppds' : Understood(ppds', p)
    OBVIOUS
  <2>1. CASE pc \in After
    <3>1. ppds' = ppds
      BY <2>1, ListSteps
    <3> QED
      BY <1>1, <2>1, <3>1
  <2> QED
    BY <1>2, <2>1
<1>4. pc' \in Ending => Left'
  <2> SUFFICES ASSUME pc' \in Ending PROVE Left'
    OBVIOUS
  <2> USE DEF searchVars, tables, Crash
  <2>1. CASE RemoveDriverless
    <3>1. \A p \in DOMAIN fit' : p \in DOMAIN fit /\ (OverIPP \/ ~Driverless(p))
      BY <2>1 DEF RemoveDriverless, Restrict
    <3>2. OverIPP' <=> OverIPP
      BY <2>1 DEF RemoveDriverless, OverIPP
    <3> QED
      BY <3>1, <3>2
  <2>2. CASE CheckCommands
    <3>1. \A p \in DOMAIN fit' : p \in DOMAIN fit /\ fit'[p] \in {"exact-cmd", fit[p]}
      BY <2>2 DEF CheckCommands
    <3>2. (OverIPP' <=> OverIPP) /\ Left /\ pc = "commands"
      BY <1>1, <2>2 DEF CheckCommands, OverIPP
    <3>3. \A p \in DOMAIN fit : fit[p] # "none"
      BY <3>2 DEF IInv, FitOK
    <3> QED
      BY <3>1, <3>2, <3>3
  <2>3. CASE Fallback
    <3>1. (OverIPP' <=> OverIPP) /\ Left
      BY <1>1, <2>3 DEF Fallback, OverIPP
    <3>2. fit' = fit \/ \E p : fit' = Insert({p}, "none") /\ fit = Empty
      BY <2>3 DEF Fallback
    <3>3. ASSUME NEW p, fit' = Insert({p}, "none"), fit = Empty PROVE Left'
      <4>1. DOMAIN fit' = {p} /\ fit'[p] = "none"
        BY <3>3 DEF Insert, Empty
      <4> QED
        BY <4>1
    <3> QED
      BY <3>1, <3>2, <3>3
  <2>4. CASE UNCHANGED vars
    <3>1. (OverIPP' <=> OverIPP) /\ Left /\ fit' = fit
      BY <1>1, <2>4 DEF vars, OverIPP
    <3> QED
      BY <3>1
  <2>5. CASE FetchPPDs \/ FilterPPDs \/ InitIds \/ SearchByDeviceID
    BY <2>5 DEF FetchPPDs, FilterPPDs, InitIds, SearchByDeviceID
  <2>6. CASE Preferences
    <3>1. pc' \in {"preferences", "filter", "crashed"}
      BY <2>6 DEF Preferences
    <3> QED
      BY <3>1
  <2>7. ASSUME NEW p \in todo, InitMakes(p) PROVE pc' \in {"makes", "crashed"}
    BY <2>7 DEF InitMakes
  <2>8. CASE InitMakesEnds \/ FindMake
    <3>1. pc' \in {"make", "crashed", "model"}
      BY <2>8 DEF InitMakesEnds, FindMake
    <3> QED
      BY <3>1
  <2>9. CASE SearchByModel
    <3>1. pc' \in {"best", "crashed"}
      BY <2>9 DEF SearchByModel
    <3> QED
      BY <3>1
  <2>10. CASE BestMatch
    <3>1. pc' \in {"generic", "crashed"}
      BY <2>10 DEF BestMatch
    <3> QED
      BY <3>1
  <2>11. CASE ByCommandSet
    <3>1. pc' \in {"driverless", "crashed"}
      BY <2>11 DEF ByCommandSet
    <3> QED
      BY <3>1
  <2> QED
    BY <2>1, <2>2, <2>3, <2>4, <2>5, <2>6, <2>7, <2>8, <2>9, <2>10, <2>11 DEF Next
<1> QED
  BY <1>3, <1>4 DEF UsableOK

\* The inductive invariant of the tables and the matches.
LEMMA Invariant == Spec => []IInv
<1>1. Init => IInv
  BY InitInvariant
<1>2. IInv /\ [Next]_vars => IInv'
  <2> SUFFICES ASSUME IInv, [Next]_vars PROVE IInv'
    OBVIOUS
  <2> QED
    BY TablesStep, FiledStep, FitStep, IdsStep DEF IInv
<1> QED
  BY <1>1, <1>2, PTL DEF Spec

\* The inductive invariant of the list.
LEMMA ListInvariant == Spec => [](InputOK /\ ListOK /\ UsableOK)
<1>1. Init => InputOK /\ ListOK /\ UsableOK
  <2> SUFFICES ASSUME Init PROVE InputOK /\ ListOK /\ UsableOK
    OBVIOUS
  <2>1. pc = "fetch" /\ ppds = Empty
    BY DEF Init
  <2>2. InputOK
    BY DEF Init, InputOK
  <2> QED
    BY <2>1, <2>2 DEF ListOK, UsableOK, Searching, Ending
<1>2. IInv /\ (InputOK /\ ListOK /\ UsableOK) /\ [Next]_vars => (InputOK /\ ListOK /\ UsableOK)'
  <2> SUFFICES ASSUME IInv, InputOK, ListOK, UsableOK, [Next]_vars
               PROVE  (InputOK /\ ListOK /\ UsableOK)'
    OBVIOUS
  <2> QED
    BY InputStep, ListStep, UsableStep
<1> QED
  BY <1>1, <1>2, Invariant, PTL DEF Spec

-----------------------------------------------------------------------------
(* Exact matches. *)

\* The searches by make and model are over.
Later == {"best", "generic", "driverless"} \cup Ending

\* The name is that of a model, or what the device calls its own.
NamesAModel(p) ==
    \/ p = Unseries(names.mdl)
    \/ \E make \in DOMAIN makes : p \in DOMAIN makes[make]

\* The make is the one that the manufacturer leads to.
MakeFound == names.make # NULL => names.mfgl \in DOMAIN lmakes /\ names.make = lmakes[names.mfgl]

\* Until the search by model, only the device's id makes a match exact; after it, so do a
\* name of the make and a model taken for a PPD.
ExactOK ==
    /\ DOMAIN names = {"mfg", "mdl", "mfgl", "mdll", "make"}
    /\ pc \in Early => fit = Empty
    /\ pc \in {"makes", "make"} => names.make = NULL
    /\ pc \in {"model"} \cup Later => MakeFound
    /\ pc \in Searching \cup Ending =>
          \A p \in DOMAIN fit : fit[p] = "exact" =>
              \/ p \in SameId
              \/ pc \in Later /\ (OfMake(p, names.mfgl) \/ NamesAModel(p))

\* A step after the search by model adds no exact match, or models taken for PPDs.
LEMMA LaterExact ==
    ASSUME ExactOK, TablesKept, names' = names, pc \in Later, pc' \in Later \cup {"crashed"},
           \A p \in DOMAIN fit' : fit'[p] = "exact" =>
               (p \in DOMAIN fit /\ fit[p] = "exact") \/ NamesAModel(p)
    PROVE  ExactOK'
<1> DEFINE Right(p) == p \in SameId \/ OfMake(p, names.mfgl) \/ NamesAModel(p)
<1>1. \A p : (p \in SameId) = (p \in SameId)' /\ Right(p) = Right(p)'
  BY DEF TablesKept, SameId, Keyed, OfMake, NamesAModel
<1>2. \A p \in DOMAIN fit' : fit'[p] = "exact" => Right(p)
  BY DEF ExactOK, Later, Searching, Ending
<1>3. pc' \notin Early /\ pc' \notin {"makes", "make"}
  BY DEF Later, Early, Ending
<1>4. MakeFound'
  BY DEF ExactOK, MakeFound, TablesKept
<1>5. \A p \in DOMAIN fit' : fit'[p] = "exact" => Right(p)'
  BY <1>1, <1>2
<1>6. pc' \in Searching \cup Ending => pc' \in Later
  BY DEF Later, Searching, Ending
<1>7. DOMAIN names' = {"mfg", "mdl", "mfgl", "mdll", "make"}
  BY DEF ExactOK
<1> QED
  BY <1>3, <1>4, <1>5, <1>6, <1>7 DEF ExactOK

\* What is filed under a model of the manufacturer is of the make.
LEMMA FiledOfMake ==
    ASSUME ShapeOK(Index), NEW n, n.mfgl \in DOMAIN lmakes, n.make = lmakes[n.mfgl],
           NEW model, NEW p \in Filed(n, model)
    PROVE  OfMake(p, n.mfgl)
<1>1. model \in DOMAIN lmodels[n.mfgl] /\ p \in makes[n.make][lmodels[n.mfgl][model]]
  BY DEF Filed
<1> QED
  BY <1>1 DEF ShapeOK, Index

\* Every step keeps it.
LEMMA ExactStep == ASSUME IInv, ExactOK, [Next]_vars PROVE ExactOK'
<1> USE DEF searchVars, tables
\* Before the search for a make there are no tables that an exact match depends on.
<1>1. ASSUME UNCHANGED <<device, ppds, names, fit>>,
             pc \in {"makes", "make"}, pc' \in {"makes", "make", "crashed"}
      PROVE  ExactOK'
  <2>1. \A p : (p \in SameId) = (p \in SameId)'
    BY <1>1 DEF SameId, Keyed
  <2>2. \A p \in DOMAIN fit : fit[p] = "exact" => p \in SameId
    BY <1>1 DEF ExactOK, Searching, Later, Ending
  <2>3. pc' \notin Early /\ pc' \notin {"model"} \cup Later
    BY <1>1 DEF Early, Later, Ending
  <2> QED
    BY <1>1, <2>1, <2>2, <2>3 DEF ExactOK
<1>2. ASSUME UNCHANGED <<names, fit>>, pc \in Early, pc' \in Early \cup {"crashed"} PROVE ExactOK'
  <2>1. pc' \notin {"makes", "make"} /\ pc' \notin {"model"} \cup Later /\ pc' \notin Searching \cup Ending
    BY <1>2 DEF Early, Later, Ending, Searching
  <2> QED
    BY <1>2, <2>1 DEF ExactOK
<1>3. CASE FetchPPDs
  BY <1>2, <1>3 DEF FetchPPDs, Early
<1>4. CASE Preferences
  <2>1. UNCHANGED <<names, fit>> /\ pc = "preferences" /\ pc' \in {"filter", "crashed", "preferences"}
    BY <1>4 DEF Preferences
  <2> QED
    BY <1>2, <2>1 DEF Early
<1>5. CASE FilterPPDs
  <2>1. UNCHANGED <<names, fit>> /\ pc = "filter" /\ pc' \in {"ids", "crashed"}
    BY <1>5 DEF FilterPPDs
  <2> QED
    BY <1>2, <2>1 DEF Early
<1>6. CASE InitIds
  <2>1. UNCHANGED <<names, fit>> /\ pc = "ids" /\ pc' \in {"device id", "crashed"}
    BY <1>6 DEF InitIds
  <2> QED
    BY <1>2, <2>1 DEF Early
<1>7. CASE SearchByDeviceID
  <2> DEFINE key == Key(device.id)
  <2>1. /\ pc = "device id" /\ pc' = "makes" /\ UNCHANGED <<device, ppds>>
        /\ fit' = IF key \in DOMAIN ids THEN Insert(ids[key], "exact") ELSE fit
    BY <1>7 DEF SearchByDeviceID
  <2>2. DOMAIN names' = {"mfg", "mdl", "mfgl", "mdll", "make"} /\ names'.make = NULL
    BY <1>7 DEF SearchByDeviceID
  <2>3. DOMAIN fit = {} /\ ids = init_ids
    <3>1. fit = Empty
      BY <2>1 DEF ExactOK, Early
    <3>2. DOMAIN fit = {}
      BY <3>1 DEF Empty
    <3>3. ids = init_ids
      BY <2>1 DEF IInv, IdsOK
    <3> QED
      BY <3>2, <3>3
  <2>4. \A p \in DOMAIN fit' : p \in SameId
    <3>1. key \in DOMAIN ids => ids[key] = {p \in Keyed : Key(ppds[p].ppd_device_id) = key}
      BY <2>3 DEF init_ids
    <3>2. CASE key \in DOMAIN ids
      <4>1. \A p \in DOMAIN fit' : p \in ids[key]
        BY Zenon, <2>1, <2>3, <3>2, InsertedOrNot
      <4> QED
        BY <3>1, <3>2, <4>1 DEF SameId
    <3>3. CASE key \notin DOMAIN ids
      BY <2>1, <2>3, <3>3
    <3> QED
      BY <3>2, <3>3
  <2>5. \A p : (p \in SameId) = (p \in SameId)'
    BY <2>1 DEF SameId, Keyed
  <2>6. pc' \notin Early /\ pc' \notin {"model"} \cup Later
    BY <2>1 DEF Early, Later, Ending
  <2> QED
    BY <2>1, <2>2, <2>4, <2>5, <2>6 DEF ExactOK
<1>8. ASSUME NEW p \in todo, InitMakes(p) PROVE ExactOK'
  <2>1. UNCHANGED <<device, ppds, names, fit>> /\ pc = "makes" /\ pc' \in {"makes", "crashed"}
    BY <1>8 DEF InitMakes, Crash
  <2> QED
    BY <1>1, <2>1
<1>9. CASE InitMakesEnds
  <2>1. UNCHANGED <<device, ppds, names, fit>> /\ pc = "makes" /\ pc' \in {"make", "crashed"}
    BY <1>9 DEF InitMakesEnds
  <2> QED
    BY <1>1, <2>1
<1>10. CASE FindMake
  <2>1. pc = "make" /\ UNCHANGED <<device, ppds, fit, lmakes>>
    BY <1>10 DEF FindMake
  <2>2. CASE pc' = "crashed" /\ names' = names
    BY <1>1, <2>1, <2>2
  <2>3. CASE ~(pc' = "crashed" /\ names' = names)
    <3> DEFINE s == ppdMakeModelSplit(names.mdl)
               n == IF names.mfgl # <<>> THEN names
                    ELSE [mfg |-> strlwr(s.make), mdl |-> strlwr(s.model),
                          mfgl |-> normalize(s.make), mdll |-> normalize(s.model), make |-> NULL]
               other == mfgrepl(n.mfgl)
    <3>1. /\ pc' = "model"
          /\ names' =
                CASE n.mfgl \in DOMAIN lmakes -> [n EXCEPT !.make = lmakes[n.mfgl]]
                  [] n.mfgl \notin DOMAIN lmakes /\ other \in DOMAIN lmakes ->
                        [n EXCEPT !.mfg = other, !.mfgl = other, !.make = lmakes[other]]
                  [] OTHER -> n
      BY <1>10, <2>3 DEF FindMake, Crash
    <3>2. DOMAIN n = {"mfg", "mdl", "mfgl", "mdll", "make"} /\ n.make = NULL
      BY <2>1 DEF ExactOK
    <3> HIDE DEF n, other
    <3>3. DOMAIN names' = {"mfg", "mdl", "mfgl", "mdll", "make"}
      BY <3>1, <3>2
    <3>4. MakeFound'
      BY <2>1, <3>1, <3>2 DEF MakeFound
    <3>5. \A p \in DOMAIN fit : fit[p] = "exact" => p \in SameId
      BY <2>1 DEF ExactOK, Searching, Later, Ending
    <3>6. \A p : (p \in SameId) = (p \in SameId)'
      BY <2>1 DEF SameId, Keyed
    <3> QED
      BY <2>1, <3>1, <3>3, <3>4, <3>5, <3>6 DEF ExactOK, Early
  <2> QED
    BY <2>2, <2>3
<1>11. CASE SearchByModel
  <2> DEFINE n == Unprefixed(names)
  <2>1. /\ pc = "model" /\ pc' \in {"best", "crashed"} /\ TablesKept
        /\ \/ names.make = NULL /\ names' = names /\ fit' = fit
           \/ names.make # NULL /\ names' = n /\ fit' = fit
           \/ names.make # NULL /\ names' = n /\ \E model : fit' = Insert(Filed(n, model), "exact")
    BY <1>11 DEF SearchByModel, Crash, TablesKept
  <2>2. DOMAIN names = {"mfg", "mdl", "mfgl", "mdll", "make"} /\ MakeFound
    BY <2>1 DEF ExactOK
  <2>3. DOMAIN n = DOMAIN names /\ n.mfgl = names.mfgl /\ n.make = names.make
    BY <2>2 DEF Unprefixed
  <2> HIDE DEF n
  <2>4. MakeFound' /\ DOMAIN names' = {"mfg", "mdl", "mfgl", "mdll", "make"} /\ names'.mfgl = names.mfgl
    BY <2>1, <2>2, <2>3 DEF MakeFound, TablesKept
  <2>5. \A p \in DOMAIN fit : fit[p] = "exact" => p \in SameId
    BY <2>1 DEF ExactOK, Searching, Later, Ending
  <2>6. ASSUME NEW p \in DOMAIN fit', fit'[p] = "exact" PROVE p \in SameId \/ OfMake(p, names.mfgl)
    <3>1. CASE fit' = fit
      BY <2>5, <2>6, <3>1
    <3>2. CASE fit' # fit
      <4>1. PICK model : fit' = Insert(Filed(n, model), "exact") /\ names.make # NULL
        BY <2>1, <3>2
      <4>2. CASE p \in Filed(n, model)
        <5>1. n.mfgl \in DOMAIN lmakes /\ n.make = lmakes[n.mfgl]
          BY <2>2, <2>3, <4>1 DEF MakeFound
        <5> QED
          BY <2>3, <4>2, <5>1, FiledOfMake DEF IInv, TablesOK
      <4>3. CASE p \notin Filed(n, model)
        <5>1. p \in DOMAIN fit /\ fit'[p] = fit[p]
          BY <2>6, <4>1, <4>3, InsertedOrNot
        <5> QED
          BY <2>5, <2>6, <5>1
      <4> QED
        BY <4>2, <4>3
    <3> QED
      BY <3>1, <3>2
  <2>7. \A p : (p \in SameId) = (p \in SameId)' /\ OfMake(p, names.mfgl) = OfMake(p, names.mfgl)'
    BY <2>1, <2>4 DEF TablesKept, SameId, Keyed, OfMake
  <2>8. pc' \notin Early /\ pc' \notin {"makes", "make"} /\ (pc' \in Searching \cup Ending => pc' \in Later)
    BY <2>1 DEF Early, Later, Searching, Ending
  <2> QED
    BY <2>4, <2>6, <2>7, <2>8 DEF ExactOK
<1>12. CASE BestMatch
  <2>1. pc = "best" /\ pc' \in {"generic", "crashed"} /\ names' = names /\ TablesKept
    BY <1>12 DEF BestMatch, Crash, TablesKept
  <2>2. \A p \in DOMAIN fit' : (p \in DOMAIN fit /\ fit'[p] = fit[p]) \/ NamesAModel(p)
    <3>1. CASE fit' = fit
      BY <3>1
    <3>2. CASE fit' # fit
      <4>1. PICK b \in findBestMatchPPDs(DOMAIN makes[names.make], names.mdl) :
               fit' = Insert(b.list, b.fit) /\ names.make # NULL
        BY <1>12, <3>2 DEF BestMatch
      <4>2. names.make \in DOMAIN makes /\ IsFiniteSet(DOMAIN makes[names.make])
        <5>1. MakeFound
          BY <2>1 DEF ExactOK, Later
        <5> QED
          BY <4>1, <5>1 DEF MakeFound, IInv, TablesOK, ShapeOK, Index
      <4>3. \A p \in b.list : NamesAModel(p)
        BY <4>2, ModelsListed DEF NamesAModel
      <4>4. \A p \in DOMAIN fit' : p \in b.list \/ (p \in DOMAIN fit /\ fit'[p] = fit[p])
        BY <4>1, InsertedOrNot
      <4> QED
        BY <4>3, <4>4
    <3> QED
      BY <3>1, <3>2
  <2> QED
    BY <2>1, <2>2, LaterExact DEF Later
<1>13. CASE ByCommandSet
  <2>1. /\ pc = "generic" /\ pc' \in {"driverless", "crashed"} /\ names' = names /\ TablesKept
        /\ fit' = fit \/ \E found : fit' = Insert(found, "generic")
    BY <1>13 DEF ByCommandSet, TablesKept
  <2>2. \A p \in DOMAIN fit' : fit'[p] = "generic" \/ (p \in DOMAIN fit /\ fit'[p] = fit[p])
    BY <2>1, InsertedOrNot
  <2> QED
    BY <2>1, <2>2, LaterExact DEF Later, Ending
<1>14. CASE RemoveDriverless
  <2>1. pc = "driverless" /\ pc' = "commands" /\ names' = names /\ TablesKept
    BY <1>14 DEF RemoveDriverless, TablesKept
  <2>2. \A p \in DOMAIN fit' : p \in DOMAIN fit /\ fit'[p] = fit[p]
    BY <1>14 DEF RemoveDriverless, Restrict
  <2> QED
    BY <2>1, <2>2, LaterExact DEF Later, Ending
<1>15. CASE CheckCommands
  <2>1. pc = "commands" /\ pc' = "fallback" /\ names' = names /\ TablesKept
    BY <1>15 DEF CheckCommands, TablesKept
  <2>2. \A p \in DOMAIN fit' : p \in DOMAIN fit /\ fit'[p] \in {"exact-cmd", fit[p]}
    BY <1>15 DEF CheckCommands
  <2> QED
    BY <2>1, <2>2, LaterExact DEF Later, Ending
<1>16. CASE Fallback
  <2>1. /\ pc = "fallback" /\ pc' = "done" /\ names' = names /\ TablesKept
        /\ fit' = fit \/ \E found : fit' = Insert(found, "none")
    BY <1>16 DEF Fallback, TablesKept
  <2>2. \A p \in DOMAIN fit' : fit'[p] = "none" \/ (p \in DOMAIN fit /\ fit'[p] = fit[p])
    BY <2>1, InsertedOrNot
  <2> QED
    BY <2>1, <2>2, LaterExact DEF Later, Ending
<1>17. CASE UNCHANGED vars
  BY <1>17 DEF vars, ExactOK, MakeFound, SameId, Keyed, OfMake, NamesAModel
<1> QED
  BY <1>3, <1>4, <1>5, <1>6, <1>7, <1>8, <1>9, <1>10, <1>11, <1>12, <1>13, <1>14, <1>15, <1>16,
     <1>17 DEF Next

\* The inductive invariant of the exact matches.
LEMMA ExactInvariant == Spec => []ExactOK
<1>1. Init => ExactOK
  BY DEF Init, ExactOK, Early, Searching, Ending, Later, Empty
<1> QED
  BY <1>1, ExactStep, Invariant, PTL DEF Spec

-----------------------------------------------------------------------------
(* Texts, and names that can be split. *)

\* A sequence, whatever it is of.
IsText(t) == t \in Seq({t[i] : i \in DOMAIN t})

\* The length of a text.
LEMMA TextProperties ==
    ASSUME NEW t, IsText(t)
    PROVE  /\ Len(t) \in Nat /\ DOMAIN t = 1 .. Len(t)
           /\ t # <<>> <=> Len(t) > 0
           /\ t # <<>> <=> 1 \in DOMAIN t
<1>1. Len(t) \in Nat /\ DOMAIN t = 1 .. Len(t)
  BY LenProperties DEF IsText
<1>2. t # <<>> => Len(t) \in Nat \ {0}
  BY EmptySeq DEF IsText
<1>3. t = <<>> => Len(t) = 0
  OBVIOUS
<1> QED
  BY <1>1, <1>2, <1>3

\* A sequence of any set is a text.
LEMMA TextOf ==
    ASSUME NEW S, NEW t \in Seq(S)
    PROVE  IsText(t)
<1>1. Len(t) \in Nat /\ DOMAIN t = 1 .. Len(t) /\ t \in [1 .. Len(t) -> S]
  BY LenProperties
<1>2. t \in [1 .. Len(t) -> {t[i] : i \in DOMAIN t}]
  BY <1>1
<1> QED
  BY <1>1, <1>2, SeqDef DEF IsText

\* A function on 1 .. n is a text.
LEMMA TextFrom ==
    ASSUME NEW n \in Nat, NEW t, t = [i \in 1 .. n |-> t[i]]
    PROVE  IsText(t) /\ Len(t) = n
<1>1. t \in [1 .. n -> {t[i] : i \in 1 .. n}]
  OBVIOUS
<1>2. t \in Seq({t[i] : i \in 1 .. n})
  BY <1>1, SeqDef
<1>3. IsText(t)
  BY <1>2, TextOf
<1>4. DOMAIN t = 1 .. n /\ DOMAIN t = 1 .. Len(t) /\ Len(t) \in Nat
  BY <1>3, TextProperties
<1>5. Len(t) = n
  BY <1>4
<1> QED
  BY <1>3, <1>5

\* Lower case keeps the length.
LEMMA LoweredText ==
    ASSUME NEW t, IsText(t)
    PROVE  IsText(strlwr(t)) /\ Len(strlwr(t)) = Len(t)
<1>1. Len(t) \in Nat /\ DOMAIN t = 1 .. Len(t)
  BY TextProperties
<1>2. strlwr(t) = [i \in 1 .. Len(t) |-> strlwr(t)[i]]
  BY <1>1 DEF strlwr
<1> HIDE DEF strlwr
<1> QED
  BY <1>1, <1>2, TextFrom

\* Two texts joined, and what the second becomes.
LEMMA JoinedText ==
    ASSUME NEW t, NEW u, IsText(t), IsText(u)
    PROVE  /\ IsText(t \o u) /\ Len(t \o u) = Len(t) + Len(u)
           /\ \A i \in 1 .. Len(u) : (t \o u)[Len(t) + i] = u[i]
<1> DEFINE S == {t[i] : i \in DOMAIN t} \cup {u[i] : i \in DOMAIN u}
<1>1. t \in Seq(S) /\ u \in Seq(S)
  <2>1. /\ {t[i] : i \in DOMAIN t} \subseteq S /\ {u[i] : i \in DOMAIN u} \subseteq S
        /\ t \in Seq({t[i] : i \in DOMAIN t}) /\ u \in Seq({u[i] : i \in DOMAIN u})
    BY DEF IsText
  <2> HIDE DEF S
  <2> QED
    BY <2>1, SeqMonotonic
<1> HIDE DEF S
<1>2. /\ t \o u \in Seq(S) /\ Len(t \o u) = Len(t) + Len(u)
      /\ \A i \in 1 .. Len(t) + Len(u) :
            (t \o u)[i] = IF i <= Len(t) THEN t[i] ELSE u[i - Len(t)]
  BY <1>1, ConcatProperties
<1>3. Len(t) \in Nat /\ Len(u) \in Nat
  BY TextProperties
<1>4. ASSUME NEW i \in 1 .. Len(u) PROVE (t \o u)[Len(t) + i] = u[i]
  <2>1. Len(t) + i \in 1 .. Len(t) + Len(u) /\ ~(Len(t) + i <= Len(t)) /\ (Len(t) + i) - Len(t) = i
    BY <1>3
  <2> QED
    BY <1>2, <2>1
<1> QED
  BY <1>2, <1>4, TextOf

\* What is left of a text is a text.
LEMMA SlicedText ==
    ASSUME NEW t, IsText(t), NEW n \in Nat
    PROVE  IsText(slice(t, n)) /\ (n < Len(t) => slice(t, n) # <<>>)
<1>1. Len(t) \in Nat /\ DOMAIN t = 1 .. Len(t)
  BY TextProperties
<1> DEFINE S == {t[i] : i \in DOMAIN t}
<1>2. \A i \in n + 1 .. Len(t) : t[i] \in S
  BY <1>1
<1> HIDE DEF S
<1>3. /\ SubSeq(t, n + 1, Len(t)) \in Seq(S)
      /\ Len(SubSeq(t, n + 1, Len(t))) = IF n + 1 <= Len(t) THEN Len(t) - (n + 1) + 1 ELSE 0
  BY <1>1, <1>2, SubSeqProperties
<1>4. n < Len(t) => Len(SubSeq(t, n + 1, Len(t))) > 0
  BY <1>1, <1>3
<1>5. IsText(slice(t, n))
  BY <1>3, TextOf DEF slice
<1>6. n < Len(t) => slice(t, n) # <<>>
  <2>1. slice(t, n) = SubSeq(t, n + 1, Len(t))
    BY DEF slice
  <2> QED
    BY <1>4, <1>5, <2>1, TextProperties
<1> QED
  BY <1>5, <1>6

\* The token, by another name, as the SMT solver cannot read it.
Space == " "

\* Short texts, token by token.
LEMMA Tuples ==
    /\ \A a : IsText(<<a>>) /\ Len(<<a>>) = 1 /\ <<a>>[1] = a
    /\ \A a, b : IsText(<<a, b>>) /\ Len(<<a, b>>) = 2 /\ <<a, b>>[2] = b
    /\ \A a, b, c, d :
          IsText(<<a, b, c, d>>) /\ Len(<<a, b, c, d>>) = 4 /\ <<a, b, c, d>>[4] = d
<1>1. ASSUME NEW a PROVE IsText(<<a>>) /\ Len(<<a>>) = 1 /\ <<a>>[1] = a
  <2>1. <<a>> \in Seq({a})
    OBVIOUS
  <2> QED
    BY <2>1, TextOf
<1>2. ASSUME NEW a, NEW b PROVE IsText(<<a, b>>) /\ Len(<<a, b>>) = 2 /\ <<a, b>>[2] = b
  <2>1. <<a, b>> \in Seq({a, b})
    OBVIOUS
  <2> QED
    BY <2>1, TextOf
<1>3. ASSUME NEW a, NEW b, NEW c, NEW d
      PROVE  IsText(<<a, b, c, d>>) /\ Len(<<a, b, c, d>>) = 4 /\ <<a, b, c, d>>[4] = d
  <2>1. <<a, b, c, d>> \in Seq({a, b, c, d})
    OBVIOUS
  <2> QED
    BY <2>1, TextOf
<1> QED
  BY <1>1, <1>2, <1>3

\* A text with a space before its end has a second word.
LEMMA SecondWord ==
    ASSUME NEW t, IsText(t), NEW j \in 1 .. Len(t), j < Len(t), t[j] = Space
    PROVE  OtherWords(t) # <<>>
<1> DEFINE I == {i \in 1 .. Len(t) : t[i] = Space}
           k == Min(I)
<1>1. Len(t) \in Nat /\ DOMAIN t = 1 .. Len(t)
  BY TextProperties
<1>2. k \in I /\ \A y \in I : k <= y
  <2>1. j \in I
    OBVIOUS
  <2>2. I \in SUBSET Nat
    BY <1>1
  <2> HIDE DEF I
  <2> QED
    BY <2>1, <2>2, Least
<1>3. FirstWord(t) = IF I # {} THEN (IF k = 0 THEN t ELSE SubSeq(t, 1, k - 1)) ELSE t
  BY Zenon DEF FirstWord, SelectInSeq, Space
<1>4. k \in Nat /\ k >= 1 /\ k < Len(t) /\ I # {}
  <2>1. j \in I
    OBVIOUS
  <2>2. k \in 1 .. Len(t) /\ k <= j
    BY <1>2, <2>1
  <2> QED
    BY <1>1, <2>1, <2>2
<1> HIDE DEF k, I
<1>5. FirstWord(t) = SubSeq(t, 1, k - 1)
  BY <1>3, <1>4
<1>6. Len(FirstWord(t)) = k - 1
  <2>1. \A i \in 1 .. k - 1 : t[i] \in {t[x] : x \in DOMAIN t}
    BY <1>1, <1>4
  <2>2. Len(SubSeq(t, 1, k - 1)) = IF 1 <= k - 1 THEN (k - 1) - 1 + 1 ELSE 0
    BY <1>4, <2>1, SubSeqProperties
  <2> QED
    BY <1>4, <1>5, <2>2
<1>7. OtherWords(t) = slice(t, k) /\ k \in Nat /\ k < Len(t)
  <2>1. OtherWords(t) = slice(t, Len(FirstWord(t)) + 1)
    BY DEF OtherWords
  <2> QED
    BY <1>4, <1>6, <2>1
<1> QED
  BY <1>7, SlicedText

\* A text that goes on behind a space has a make and a model.
LEMMA TwoWordsSplit ==
    ASSUME NEW v, IsText(v), Len(v) > 0, v[Len(v)] = Space, NEW u, IsText(u), u # <<>>
    PROVE  ~SplitFails(v \o u)
<1> DEFINE w == v \o u
<1>1. Len(v) \in Nat /\ Len(u) \in Nat /\ Len(u) > 0
  BY TextProperties
<1>2. IsText(w) /\ Len(w) = Len(v) + Len(u)
  BY JoinedText
<1>3. w[Len(v)] = Space
  <2> DEFINE S == {v[i] : i \in DOMAIN v} \cup {u[i] : i \in DOMAIN u}
  <2>1. v \in Seq(S) /\ u \in Seq(S)
    <3>1. /\ {v[i] : i \in DOMAIN v} \subseteq S /\ {u[i] : i \in DOMAIN u} \subseteq S
          /\ v \in Seq({v[i] : i \in DOMAIN v}) /\ u \in Seq({u[i] : i \in DOMAIN u})
      BY DEF IsText
    <3> HIDE DEF S
    <3> QED
      BY <3>1, SeqMonotonic
  <2> HIDE DEF S
  <2>2. \A i \in 1 .. Len(v) + Len(u) : w[i] = IF i <= Len(v) THEN v[i] ELSE u[i - Len(v)]
    BY <2>1, ConcatProperties
  <2>3. Len(v) \in 1 .. Len(v) + Len(u) /\ Len(v) <= Len(v)
    BY <1>1
  <2> QED
    BY <2>2, <2>3
<1>4. Len(v) \in 1 .. Len(w) /\ Len(v) < Len(w)
  BY <1>1, <1>2
<1> HIDE DEF w
<1>5. OtherWords(w) # <<>>
  BY <1>2, <1>3, <1>4, SecondWord
<1> QED
  BY <1>5 DEF SplitFails, w

LEMMA GenericSplits ==
    ASSUME NEW t, IsText(t), t # <<>>
    PROVE  ~SplitFails(Generic \o t)
<1>1. IsText(Generic) /\ Len(Generic) = 2 /\ Generic[2] = Space
  BY Zenon, Tuples DEF Generic, Space
<1>2. Len(Generic) > 0 /\ Generic[Len(Generic)] = Space
  BY <1>1
<1> QED
  BY <1>1, <1>2, TwoWordsSplit

LEMMA FivePrefixes ==
    ASSUME NEW p1, NEW p2, NEW p3, NEW p4, NEW p5, NEW m1, NEW m2, NEW m3, NEW m4, NEW m5,
           Len(p1) = 4, Len(p2) = 4, Len(p3) = 4, Len(p4) = 2, Len(p5) = 4
    PROVE  LET s == <<[prefix |-> p1, make |-> m1], [prefix |-> p2, make |-> m2],
                      [prefix |-> p3, make |-> m3], [prefix |-> p4, make |-> m4],
                      [prefix |-> p5, make |-> m5]>>
           IN  Len(s) = 5 /\ \A i \in 1 .. 5 : ~(Len(s[i].prefix) <= 0)
<1> DEFINE s == <<[prefix |-> p1, make |-> m1], [prefix |-> p2, make |-> m2],
                  [prefix |-> p3, make |-> m3], [prefix |-> p4, make |-> m4],
                  [prefix |-> p5, make |-> m5]>>
<1>1. Len(s) = 5
  OBVIOUS
<1>2. /\ s[1].prefix = p1 /\ s[2].prefix = p2 /\ s[3].prefix = p3 /\ s[4].prefix = p4
      /\ s[5].prefix = p5
  OBVIOUS
<1>3. 1 .. 5 = {1, 2, 3, 4, 5}
  OBVIOUS
<1> HIDE DEF s
<1>4. \A i \in {1, 2, 3, 4, 5} : ~(Len(s[i].prefix) <= 0)
  <2>1. ~(4 <= 0) /\ ~(2 <= 0)
    OBVIOUS
  <2>2. /\ ~(Len(s[1].prefix) <= 0) /\ ~(Len(s[2].prefix) <= 0) /\ ~(Len(s[3].prefix) <= 0)
        /\ ~(Len(s[4].prefix) <= 0) /\ ~(Len(s[5].prefix) <= 0)
    BY Zenon, <1>2, <2>1
  <2> QED
    BY Zenon, <2>2
<1> QED
  BY <1>1, <1>3, <1>4 DEF s

LEMMA NothingFails == SplitFails(<<>>)
<1>1. strlwr(<<>>) = <<>>
  BY DEF strlwr
<1>2. Len(SpecialMakes) = 5 /\ \A i \in 1 .. 5 : ~(Len(SpecialMakes[i].prefix) <= 0)
  <2>1. /\ \A a, b : Len(<<a, b>>) = 2
        /\ \A a, b, c, d : Len(<<a, b, c, d>>) = 4
    BY Zenon, Tuples
  <2> QED
    BY Zenon, <2>1, FivePrefixes DEF SpecialMakes
<1>3. \A i \in 1 .. Len(SpecialMakes) : ~startswith(SpecialMakes[i].prefix, strlwr(<<>>))
  <2>1. Len(<<>>) = 0
    OBVIOUS
  <2> QED
    BY <1>1, <1>2, <2>1 DEF startswith, IsPrefix
<1>4. SpecialMake(<<>>) = 0
  BY <1>3 DEF SpecialMake, SelectInSeq
<1>5. OtherWords(<<>>) = <<>>
  <2>1. FirstWord(<<>>) = <<>>
    <3>1. \A token : {i \in 1 .. Len(<<>>) : <<>>[i] = token} = {}
      OBVIOUS
    <3> QED
      BY Zenon, <3>1 DEF FirstWord, SelectInSeq
  <2> QED
    BY <2>1, SubSeqEmpty DEF OtherWords, slice
<1> QED
  BY <1>4, <1>5 DEF SplitFails

IdFields == [key : STRING, value : Seq(STRING)]

\* What is read of a device id is a text.
LEMMA FieldTexts ==
    ASSUME NEW id, id.fields \in Seq(IdFields)
    PROVE  parseDeviceID(id).MFG \in Seq(STRING) /\ parseDeviceID(id).MDL \in Seq(STRING)
<1> DEFINE F == FieldsRead(id)
           field(key) ==
               LET k == SelectLastInSeq(F, LAMBDA f : f.key = key)
               IN  IF k = 0 THEN <<>> ELSE F[k].value
<1>1. F \in Seq(IdFields)
  <2>1. CASE id.closed \/ id.fields = <<>>
    BY <2>1 DEF FieldsRead
  <2>2. CASE ~(id.closed \/ id.fields = <<>>)
    <3>1. F = SubSeq(id.fields, 1, Len(id.fields) - 1)
      BY <2>2 DEF FieldsRead, Front
    <3>2. Len(id.fields) \in Nat /\ \A i \in 1 .. Len(id.fields) : id.fields[i] \in IdFields
      BY LenProperties, ElementOfSeq
    <3> HIDE DEF F
    <3>3. \A i \in 1 .. Len(id.fields) - 1 : id.fields[i] \in IdFields
      BY <3>2
    <3> QED
      BY <3>1, <3>2, <3>3, SubSeqProperties
  <2> QED
    BY <2>1, <2>2
<1> HIDE DEF F
<1>2. Len(F) \in Nat /\ \A i \in 1 .. Len(F) : F[i] \in IdFields
  BY <1>1, LenProperties, ElementOfSeq
<1>3. ASSUME NEW key PROVE field(key) \in Seq(STRING)
  <2> DEFINE I == {i \in 1 .. Len(F) : F[i].key = key}
  <2>1. SelectLastInSeq(F, LAMBDA f : f.key = key) = IF I # {} THEN Max(I) ELSE 0
    BY DEF SelectLastInSeq
  <2>2. I \in SUBSET (1 .. Len(F))
    OBVIOUS
  <2> HIDE DEF I
  <2>3. CASE I = {}
    <3>1. field(key) = <<>>
      BY <2>1, <2>3
    <3>2. <<>> \in Seq(STRING)
      OBVIOUS
    <3> QED
      BY <3>1, <3>2
  <2>4. CASE I # {}
    <3>1. Max(I) \in 1 .. Len(F)
      <4>1. I \in SUBSET (0 .. Len(F)) /\ Len(F) \in Nat
        BY <1>2, <2>2
      <4>2. Max(I) \in I
        BY <2>4, <4>1, Greatest
      <4> QED
        BY <2>2, <4>2
    <3>2. Max(I) # 0
      BY <1>2, <3>1
    <3>3. field(key) = F[Max(I)].value
      BY <2>1, <2>4, <3>2
    <3>4. F[Max(I)].value \in Seq(STRING)
      BY <1>2, <3>1 DEF IdFields
    <3> QED
      BY <3>3, <3>4
  <2> QED
    BY <2>3, <2>4
<1>4. /\ parseDeviceID(id).MFG = IF field("MANUFACTURER") # <<>> THEN field("MANUFACTURER") ELSE field("MFG")
      /\ parseDeviceID(id).MDL = IF field("MODEL") # <<>> THEN field("MODEL") ELSE field("MDL")
  BY DEF parseDeviceID, F
<1> HIDE DEF field
<1> QED
  BY <1>3, <1>4

LEMMA KeyTexts ==
    ASSUME NEW id, id.fields \in Seq(IdFields), <<>> \notin ToSet(Key(id))
    PROVE  /\ IsText(parseDeviceID(id).MFG)
           /\ IsText(parseDeviceID(id).MDL) /\ parseDeviceID(id).MDL # <<>>
           /\ IsText(Key(id)[1]) /\ Key(id)[1] # <<>>
           /\ IsText(Key(id)[2]) /\ Len(Key(id)[2]) = Len(parseDeviceID(id).MDL)
<1> DEFINE MFG == parseDeviceID(id).MFG
           MDL == parseDeviceID(id).MDL
<1>1. IsText(MFG) /\ IsText(MDL)
  <2>1. MFG \in Seq(STRING) /\ MDL \in Seq(STRING)
    BY FieldTexts
  <2> HIDE DEF MFG, MDL
  <2> QED
    BY <2>1, TextOf
<1>2. Key(id) = <<strlwr(MFG), strlwr(MDL)>>
  BY DEF Key
<1> HIDE DEF MFG, MDL
<1>3. Key(id)[1] = strlwr(MFG) /\ Key(id)[2] = strlwr(MDL)
  BY <1>2
<1>4. Key(id)[1] # <<>> /\ Key(id)[2] # <<>>
  BY <1>2 DEF ToSet
<1>5. /\ IsText(strlwr(MFG))
      /\ IsText(strlwr(MDL)) /\ Len(strlwr(MDL)) = Len(MDL)
  BY <1>1, LoweredText
<1>6. MDL # <<>>
  <2>1. Len(strlwr(MDL)) > 0
    BY <1>3, <1>4, <1>5, TextProperties
  <2> QED
    BY <1>1, <1>5, <2>1, TextProperties
<1> QED
  BY <1>1, <1>3, <1>4, <1>5, <1>6 DEF MFG, MDL

\* A model is more than the manufacturer's name that is taken off it.
LEMMA RestLeft ==
    ASSUME NEW p, IsText(p), Len(p) > 0, p[Len(p)] = Space, NEW mdll, IsText(mdll),
           startswith(p, mdll), Last(mdll) # Space
    PROVE  Len(p) \in Nat /\ Len(p) < Len(mdll)
<1>1. Len(p) <= Len(mdll) /\ SubSeq(p, 1, Len(p)) = SubSeq(mdll, 1, Len(p))
  BY DEF startswith, IsPrefix
<1>2. Len(p) \in Nat /\ Len(mdll) \in Nat /\ DOMAIN p = 1 .. Len(p) /\ DOMAIN mdll = 1 .. Len(mdll)
  BY TextProperties
<1>3. ASSUME Len(p) = Len(mdll) PROVE FALSE
  <2>1. ASSUME NEW u, IsText(u), Len(u) = Len(p) PROVE SubSeq(u, 1, Len(p))[Len(p)] = u[Len(p)]
    <3>1. DOMAIN u = 1 .. Len(u)
      BY <2>1, TextProperties
    <3> DEFINE S == {u[i] : i \in DOMAIN u}
    <3>2. \A i \in 1 .. Len(p) : u[i] \in S
      BY <2>1, <3>1
    <3> HIDE DEF S
    <3>3. \A i \in 1 .. Len(p) - 1 + 1 : SubSeq(u, 1, Len(p))[i] = u[1 + i - 1]
      BY <1>2, <3>2, SubSeqProperties
    <3>4. Len(p) \in 1 .. Len(p) - 1 + 1 /\ 1 + Len(p) - 1 = Len(p)
      BY <1>2
    <3> QED
      BY <3>3, <3>4
  <2>2. SubSeq(p, 1, Len(p))[Len(p)] = p[Len(p)]
    BY <2>1
  <2>3. SubSeq(mdll, 1, Len(p))[Len(p)] = mdll[Len(p)]
    BY <1>3, <2>1
  <2>4. mdll[Len(p)] = Space
    BY <1>1, <2>2, <2>3
  <2> QED
    BY <1>3, <2>4 DEF Last
<1>4. Len(p) <= Len(mdll) /\ Len(p) # Len(mdll)
  BY Zenon, <1>1, <1>3
<1>5. \A a, b \in Nat : a <= b /\ a # b => a < b
  OBVIOUS
<1> QED
  BY Zenon, <1>2, <1>4, <1>5

\* What SelectInSeq finds among three.
LEMMA OneOfThree ==
    ASSUME NEW p1, NEW p2, NEW p3, NEW t
    PROVE  LET s == <<p1, p2, p3>>
               I == {i \in 1 .. Len(s) : startswith(s[i], t)}
               k == IF I # {} THEN Min(I) ELSE 0
           IN  k # 0 => s[k] \in {p1, p2, p3} /\ startswith(s[k], t)
<1> DEFINE s == <<p1, p2, p3>>
           I == {i \in 1 .. Len(s) : startswith(s[i], t)}
           k == IF I # {} THEN Min(I) ELSE 0
<1>1. I \in SUBSET Nat /\ Len(s) = 3
  OBVIOUS
<1>2. ASSUME k # 0 PROVE k \in I
  <2>1. I # {} /\ k = Min(I)
    BY <1>2
  <2> HIDE DEF I, k
  <2> QED
    BY <1>1, <2>1, Least
<1>3. \A i \in 1 .. 3 : s[i] \in {p1, p2, p3}
  OBVIOUS
<1>4. \A i \in I : s[i] \in {p1, p2, p3} /\ startswith(s[i], t)
  BY Zenon, <1>1, <1>3
<1> HIDE DEF I, s
<1>5. k # 0 => s[k] \in {p1, p2, p3} /\ startswith(s[k], t)
  BY <1>2, <1>4
<1> QED
  BY Zenon, <1>5 DEF I, s

\* Without the manufacturer's name there is still a model, if it does not end in a space.
LEMMA ModelLeft ==
    ASSUME NEW mfg, NEW mdl, NEW mfgl, NEW mdll, NEW make,
           IsText(mfgl), IsText(mdl), mdl # <<>>, IsText(mdll), Len(mdll) = Len(mdl),
           Last(mdll) # Space
    PROVE  LET n == [mfg |-> mfg, mdl |-> mdl, mfgl |-> mfgl, mdll |-> mdll, make |-> make]
           IN  /\ Unprefixed(n).mfg = mfg
               /\ IsText(Unprefixed(n).mdl) /\ Unprefixed(n).mdl # <<>>
<1> DEFINE n == [mfg |-> mfg, mdl |-> mdl, mfgl |-> mfgl, mdll |-> mdll, make |-> make]
           p1 == mfgl \o <<Space>>
           p2 == <<"hewlett", "-", "packard", Space>>
           p3 == HP \o <<Space>>
           prefixes == <<p1, p2, p3>>
           I == {i \in 1 .. Len(prefixes) : startswith(prefixes[i], mdll)}
           k == IF I # {} THEN Min(I) ELSE 0
           rest == slice(mdl, Len(prefixes[k]))
<1>1. Unprefixed(n) = IF k = 0 THEN n ELSE [n EXCEPT !.mdl = strlwr(rest), !.mdll = normalize(rest)]
  BY Zenon DEF Unprefixed, SelectInSeq, Space
<1>2. /\ IsText(p1) /\ Len(p1) > 0 /\ p1[Len(p1)] = Space
      /\ IsText(p2) /\ Len(p2) > 0 /\ p2[Len(p2)] = Space
      /\ IsText(p3) /\ Len(p3) > 0 /\ p3[Len(p3)] = Space
  <2>1. IsText(<<Space>>) /\ Len(<<Space>>) = 1 /\ <<Space>>[1] = Space
    BY Zenon, Tuples
  <2>2. ASSUME NEW t, IsText(t)
        PROVE  LET p == t \o <<Space>> IN IsText(p) /\ Len(p) > 0 /\ p[Len(p)] = Space
    <3> DEFINE p == t \o <<Space>>
    <3>1. IsText(p) /\ Len(p) = Len(t) + 1 /\ p[Len(t) + 1] = Space
      BY <2>1, <2>2, JoinedText
    <3>2. Len(t) \in Nat
      BY <2>2, TextProperties
    <3> HIDE DEF p
    <3>3. IsText(p) /\ Len(p) > 0 /\ p[Len(p)] = Space
      BY <3>1, <3>2
    <3> QED
      BY Zenon, <3>3 DEF p
  <2>3. IsText(HP)
    BY Zenon, Tuples DEF HP
  <2>4. IsText(p2) /\ Len(p2) = 4 /\ p2[4] = Space
    BY Zenon, Tuples
  <2>5. 4 > 0
    OBVIOUS
  <2> QED
    BY Zenon, <2>2, <2>3, <2>4, <2>5
<1> HIDE DEF p1, p2, p3
<1>3. k # 0 => prefixes[k] \in {p1, p2, p3} /\ startswith(prefixes[k], mdll)
  <2>1. LET s == <<p1, p2, p3>>
            J == {i \in 1 .. Len(s) : startswith(s[i], mdll)}
            m == IF J # {} THEN Min(J) ELSE 0
        IN  m # 0 => s[m] \in {p1, p2, p3} /\ startswith(s[m], mdll)
    BY OneOfThree
  <2> QED
    BY Zenon, <2>1
<1> HIDE DEF k, prefixes
<1>4. CASE k = 0
  BY <1>1, <1>4
<1>5. CASE k # 0
  <2> DEFINE p == prefixes[k]
  <2>1. IsText(p) /\ Len(p) > 0 /\ p[Len(p)] = Space /\ startswith(p, mdll)
    BY Zenon, <1>2, <1>3, <1>5
  <2> HIDE DEF p
  <2>2. Len(p) \in Nat /\ Len(p) < Len(mdl)
    BY <2>1, RestLeft
  <2>3. rest = slice(mdl, Len(p))
    BY DEF p
  <2> HIDE DEF rest
  <2>4. IsText(rest) /\ rest # <<>>
    BY <2>2, <2>3, SlicedText
  <2>5. IsText(strlwr(rest)) /\ strlwr(rest) # <<>>
    <3>1. IsText(strlwr(rest)) /\ Len(strlwr(rest)) = Len(rest)
      BY <2>4, LoweredText
    <3>2. Len(rest) > 0
      BY <2>4, TextProperties
    <3> QED
      BY <3>1, <3>2, TextProperties
  <2>6. Unprefixed(n).mfg = mfg /\ Unprefixed(n).mdl = strlwr(rest)
    BY <1>1, <1>5
  <2> QED
    BY <2>5, <2>6
<1> QED
  BY <1>4, <1>5

-----------------------------------------------------------------------------
(* Reading the order of preference. *)

\* What is read is a sequence, of nodes of the document.
PrefOK ==
    /\ IsText(drvtypes) /\ IsText(pordertypes)
    /\ reading \in {"types", "order"} => document # NoDocument /\ nodes = KnownNodes(document)

\* A text with one element more.
LEMMA AppendedText ==
    ASSUME NEW t, IsText(t), NEW e
    PROVE  /\ IsText(Append(t, e)) /\ Len(Append(t, e)) = Len(t) + 1
           /\ \A i \in 1 .. Len(t) : Append(t, e)[i] = t[i]
           /\ Append(t, e)[Len(t) + 1] = e
<1> DEFINE S == {t[i] : i \in DOMAIN t} \cup {e}
<1>1. t \in Seq(S) /\ e \in S
  <2>1. {t[i] : i \in DOMAIN t} \subseteq S /\ t \in Seq({t[i] : i \in DOMAIN t}) /\ e \in S
    BY DEF IsText
  <2> HIDE DEF S
  <2> QED
    BY <2>1, SeqMonotonic
<1> HIDE DEF S
<1>2. /\ Append(t, e) \in Seq(S) /\ Len(Append(t, e)) = Len(t) + 1
      /\ \A i \in 1 .. Len(t) : Append(t, e)[i] = t[i]
      /\ Append(t, e)[Len(t) + 1] = e
  BY <1>1, AppendProperties
<1> QED
  BY <1>2, TextOf

\* Nothing but its steps changes what is read.
LEMMA OrderKept == ASSUME [Next]_vars PROVE ReadPreferences \/ UNCHANGED orderVars
<1> USE DEF orderVars, searchVars, tables
<1>1. CASE Preferences
  BY Zenon, <1>1 DEF Preferences
<1>2. CASE FetchPPDs \/ FilterPPDs \/ InitIds \/ SearchByDeviceID
  BY <1>2 DEF FetchPPDs, FilterPPDs, InitIds, SearchByDeviceID
<1>3. ASSUME NEW p \in todo, InitMakes(p) PROVE UNCHANGED orderVars
  BY <1>3 DEF InitMakes
<1>4. CASE InitMakesEnds \/ FindMake
  BY <1>4 DEF InitMakesEnds, FindMake
<1>5. CASE SearchByModel
  BY <1>5 DEF SearchByModel
<1>6. CASE BestMatch \/ ByCommandSet
  BY <1>6 DEF BestMatch, ByCommandSet
<1>7. CASE RemoveDriverless \/ CheckCommands \/ Fallback
  BY <1>7 DEF RemoveDriverless, CheckCommands, Fallback
<1>8. CASE UNCHANGED vars
  BY <1>8 DEF vars
<1> QED
  BY <1>1, <1>2, <1>3, <1>4, <1>5, <1>6, <1>7, <1>8 DEF Next

\* Every step keeps the preferences texts.
LEMMA PrefStep == ASSUME PrefOK, [Next]_vars PROVE PrefOK'
<1> USE DEF PrefOK
<1>1. CASE UNCHANGED <<document, nodes, drvtypes, pordertypes, reading>>
  BY Zenon, <1>1
<1>2. ASSUME PreferredDrivers PROVE PrefOK'
  BY <1>2 DEF PreferredDrivers
<1>3. ASSUME NodeMissing PROVE PrefOK'
  BY <1>3 DEF NodeMissing
<1>4. ASSUME DriverTypes_load PROVE PrefOK'
  <2>1. /\ reading = "types" /\ reading' \in {"types", "crashed"}
        /\ UNCHANGED <<document, nodes, pordertypes>>
        /\ drvtypes' = drvtypes \/ \E e : drvtypes' = Append(drvtypes, e)
    BY Zenon, <1>4 DEF DriverTypes_load
  <2>2. IsText(drvtypes')
    <3>1. IsText(drvtypes)
      OBVIOUS
    <3>2. \A e : IsText(Append(drvtypes, e))
      BY <3>1, AppendedText
    <3> QED
      BY Zenon, <2>1, <3>1, <3>2
  <2> QED
    BY <2>1, <2>2
<1>5. ASSUME TypesEnd PROVE PrefOK'
  BY <1>5 DEF TypesEnd
<1>6. ASSUME PreferenceOrder_load PROVE PrefOK'
  <2>1. /\ reading = "order" /\ reading' \in {"order", "crashed"}
        /\ UNCHANGED <<document, nodes, drvtypes>>
        /\ pordertypes' = pordertypes \/ \E e : pordertypes' = Append(pordertypes, e)
    BY Zenon, <1>6 DEF PreferenceOrder_load
  <2>2. IsText(pordertypes')
    <3>1. IsText(pordertypes)
      OBVIOUS
    <3>2. \A e : IsText(Append(pordertypes, e))
      BY <3>1, AppendedText
    <3> QED
      BY Zenon, <2>1, <3>1, <3>2
  <2> QED
    BY <2>1, <2>2
<1>7. ASSUME OrderEnds PROVE PrefOK'
  BY <1>7 DEF OrderEnds
<1>8. ReadPreferences => PrefOK'
  BY Zenon, <1>2, <1>3, <1>4, <1>5, <1>6, <1>7 DEF ReadPreferences
<1> QED
  BY Zenon, <1>1, <1>8, OrderKept DEF orderVars

\* The document is made of texts, as far as it is read.
LEMMA DocumentTexts ==
    ASSUME InputOK
    PROVE  LET known == KnownNodes(document)
           IN  /\ IsText(known)
               /\ \A i \in DOMAIN known : IsText(known[i].children)
               /\ \A i \in DOMAIN known : \A node \in ToSet(known[i].children) :
                     /\ IsText(Elements(node, "ppdname"))
                     /\ \A c \in ToSet(Elements(node, "ppdname")) : IsText(c.match)
<1>1. PICK input \in Inputs : document = input.document
  BY DEF InputOK
<1> DEFINE known == KnownNodes(document)
<1>2. /\ known \in Seq({known[i] : i \in DOMAIN known})
      /\ \A i \in DOMAIN known : known[i].children \in Seq(ToSet(known[i].children))
      /\ \A i \in DOMAIN known : \A node \in ToSet(known[i].children) :
            /\ Elements(node, "ppdname") \in Seq(ToSet(Elements(node, "ppdname")))
            /\ \A c \in ToSet(Elements(node, "ppdname")) : c.match \in Seq(STRING)
  BY Zenon, <1>1, InputsAssumption
<1> HIDE DEF known
<1>3. IsText(known)
  BY Zenon, <1>2 DEF IsText
<1>4. \A i \in DOMAIN known : IsText(known[i].children)
  BY Zenon, <1>2, TextOf
<1>5. \A i \in DOMAIN known : \A node \in ToSet(known[i].children) :
         /\ IsText(Elements(node, "ppdname"))
         /\ \A c \in ToSet(Elements(node, "ppdname")) : IsText(c.match)
  BY Zenon, <1>2, TextOf
<1> QED
  BY <1>3, <1>4, <1>5 DEF known

\* The types are those of the first node's children, as far as they have been read.
TypesRead ==
    /\ reading = "file" => drvtypes = <<>>
    /\ drvtypes # <<>> =>
          /\ nodes = KnownNodes(document) /\ Len(nodes) >= 1
          /\ Len(drvtypes) <= Len(nodes[1].children)

\* Every step keeps the types those of the children that have been read.
LEMMA TypesReadStep == ASSUME InputOK, PrefOK, TypesRead, [Next]_vars PROVE TypesRead'
<1> USE DEF TypesRead
<1>1. CASE UNCHANGED <<document, nodes, drvtypes>> /\ (reading' = "file" => reading = "file")
  BY Zenon, <1>1
<1>2. CASE PreferredDrivers
  <2>1. drvtypes' = <<>> /\ reading' # "file"
    BY <1>2 DEF PreferredDrivers
  <2> QED
    BY <2>1
<1>3. CASE NodeMissing
  BY <1>1, <1>3 DEF NodeMissing
<1>4. CASE DriverTypes_load
  <2>1. /\ reading = "types" /\ reading' \in {"types", "crashed"}
        /\ UNCHANGED <<document, nodes>>
        /\ Len(nodes) >= 1 /\ Len(drvtypes) < Len(nodes[1].children)
        /\ drvtypes' = drvtypes \/ \E e : drvtypes' = Append(drvtypes, e)
    BY Zenon, <1>4 DEF DriverTypes_load
  <2>2. nodes = KnownNodes(document) /\ IsText(drvtypes)
    BY <2>1 DEF PrefOK
  <2>3. IsText(nodes) /\ \A i \in DOMAIN nodes : IsText(nodes[i].children)
    BY <2>2, DocumentTexts
  <2>4. Len(drvtypes) \in Nat /\ Len(nodes[1].children) \in Nat
    <3>1. 1 \in DOMAIN nodes
      BY <2>1, <2>3, TextProperties
    <3> QED
      BY <2>2, <2>3, <3>1, TextProperties
  <2>5. Len(drvtypes') <= Len(nodes[1].children)
    <3>1. \A e : Len(Append(drvtypes, e)) = Len(drvtypes) + 1
      BY <2>2, AppendedText
    <3>2. Len(drvtypes') = Len(drvtypes) \/ Len(drvtypes') = Len(drvtypes) + 1
      BY Zenon, <2>1, <3>1
    <3> QED
      BY <2>1, <2>4, <3>2
  <2> QED
    BY <2>1, <2>2, <2>5
<1>5. CASE TypesEnd \/ PreferenceOrder_load \/ OrderEnds
  <2>1. UNCHANGED <<document, nodes, drvtypes>> /\ reading # "file"
    BY Zenon, <1>5 DEF TypesEnd, PreferenceOrder_load, OrderEnds
  <2>2. reading' # "file"
    BY <1>5, <2>1 DEF TypesEnd, PreferenceOrder_load, OrderEnds
  <2> QED
    BY <1>1, <2>1, <2>2
<1>6. CASE UNCHANGED orderVars
  BY <1>1, <1>6 DEF orderVars
<1> QED
  BY <1>2, <1>3, <1>4, <1>5, <1>6, OrderKept DEF ReadPreferences

\* A sound document is read to its end.
LEMMA SoundIsRead ==
    ASSUME InputOK, PrefOK, Sound(document), ReadPreferences
    PROVE  reading' # "crashed"
<1>1. ASSUME reading \in {"types", "order"}
      PROVE  /\ nodes = KnownNodes(document) /\ Len(nodes) = 2
             /\ \A n \in ToSet(nodes[1].children) : ~TypeFails(n) /\ ~LinesMissing(n)
             /\ \A n \in ToSet(nodes[2].children) : ~PrinterFails(n)
  BY Zenon, <1>1 DEF PrefOK, Sound
<1>2. ASSUME reading \in {"types", "order"}, NEW i \in 1 .. Len(nodes)
      PROVE  IsText(nodes[i].children)
  <2>1. IsText(KnownNodes(document))
    BY Zenon, DocumentTexts
  <2>2. i \in DOMAIN KnownNodes(document)
    BY Zenon, <1>1, <1>2, <2>1, TextProperties
  <2> QED
    BY Zenon, <1>1, <1>2, <2>2, DocumentTexts
<1>3. ASSUME NEW t, IsText(t), NEW done, IsText(done), Len(done) < Len(t)
      PROVE  t[Len(done) + 1] \in ToSet(t)
  <2>1. Len(t) \in Nat /\ DOMAIN t = 1 .. Len(t) /\ Len(done) \in Nat
    BY <1>3, TextProperties
  <2>2. Len(done) + 1 \in DOMAIN t
    BY <1>3, <2>1
  <2> QED
    BY Zenon, <2>2 DEF ToSet
<1>4. CASE PreferredDrivers
  BY <1>4 DEF PreferredDrivers
<1>5. CASE NodeMissing
  <2>1. reading \in {"types", "order"} /\ (Len(nodes) < 1 \/ Len(nodes) < 2)
    BY Zenon, <1>5 DEF NodeMissing
  <2>2. Len(nodes) = 2
    BY <1>1, <2>1
  <2> QED
    BY <2>1, <2>2
<1>6. CASE DriverTypes_load
  <2> DEFINE node == nodes[1].children[Len(drvtypes) + 1]
  <2>1. /\ reading = "types" /\ Len(drvtypes) < Len(nodes[1].children)
        /\ reading' = reading \/ TypeFails(node) \/ LinesMissing(node)
    BY Zenon, <1>6 DEF DriverTypes_load
  <2>2. 1 \in 1 .. Len(nodes)
    BY <1>1, <2>1
  <2>3. node \in ToSet(nodes[1].children)
    BY Zenon, <1>2, <1>3, <2>1, <2>2 DEF PrefOK
  <2> HIDE DEF node
  <2>4. ~TypeFails(node) /\ ~LinesMissing(node)
    BY Zenon, <1>1, <2>1, <2>3
  <2> QED
    BY <2>1, <2>4
<1>7. CASE TypesEnd
  BY <1>7 DEF TypesEnd
<1>8. CASE PreferenceOrder_load
  <2> DEFINE node == nodes[2].children[Len(pordertypes) + 1]
  <2>1. /\ reading = "order" /\ Len(pordertypes) < Len(nodes[2].children)
        /\ reading' = reading \/ PrinterFails(node)
    BY Zenon, <1>8 DEF PreferenceOrder_load
  <2>2. 2 \in 1 .. Len(nodes)
    <3>1. Len(nodes) = 2
      BY Zenon, <1>1, <2>1
    <3> QED
      BY <3>1
  <2>3. node \in ToSet(nodes[2].children)
    BY Zenon, <1>2, <1>3, <2>1, <2>2 DEF PrefOK
  <2> HIDE DEF node
  <2>4. ~PrinterFails(node)
    BY Zenon, <1>1, <2>1, <2>3
  <2> QED
    BY <2>1, <2>4
<1>9. CASE OrderEnds
  BY <1>9 DEF OrderEnds
<1> QED
  BY <1>4, <1>5, <1>6, <1>7, <1>8, <1>9 DEF ReadPreferences

-----------------------------------------------------------------------------
(* A known device is answered. *)

\* The names that are filed.
LEMMA NamesFiled ==
    ASSUME NEW e
    PROVE  ToSet(NamesOf(e)) = {e.ppd_make_and_model} \cup (IF HasProduct(e) THEN {Product(e)} ELSE {})
<1>1. ASSUME NEW a, NEW b PROVE ToSet(<<a>> \o <<b>>) = {a, b} /\ ToSet(<<a>> \o <<>>) = {a}
  BY DEF ToSet
<1>2. NamesOf(e) = <<e.ppd_make_and_model>> \o (IF HasProduct(e) THEN <<Product(e)>> ELSE <<>>)
  BY Zenon DEF NamesOf
<1>3. CASE HasProduct(e)
  <2>1. NamesOf(e) = <<e.ppd_make_and_model>> \o <<Product(e)>>
    BY Zenon, <1>2, <1>3
  <2>2. ToSet(NamesOf(e)) = {e.ppd_make_and_model, Product(e)}
    BY Zenon, <1>1, <2>1
  <2> QED
    BY Zenon, <1>3, <2>2
<1>4. CASE ~HasProduct(e)
  <2>1. NamesOf(e) = <<e.ppd_make_and_model>> \o <<>>
    BY Zenon, <1>2, <1>4
  <2> QED
    BY Zenon, <1>1, <1>4, <2>1
<1> QED
  BY Zenon, <1>3, <1>4

\* An entry of the list is as well formed as the record that it was read from.
LEMMA EntryWellFormed ==
    ASSUME InputOK, ListOK, pc # "fetch", \A r \in ToSet(response) : WellFormed(r),
           NEW p \in DOMAIN ppds
    PROVE  /\ ~ParseFails(ppds[p].ppd_device_id)
           /\ HasProduct(ppds[p]) => ppds[p].ppd_make # <<>>
           /\ \A name \in ToSet(NamesOf(ppds[p])) : ~SplitFails(name)
<1>1. \A i \in DOMAIN response : WellFormed(response[i])
  BY Zenon DEF ToSet
<1>2. AllComplete
  BY Zenon, <1>1 DEF AllComplete, WellFormed
<1>3. PICK i \in DOMAIN response : FromRecord(ppds[p], response[i])
  BY Zenon, <1>2 DEF ListOK
<1> DEFINE e == ppds[p]
           r == response[i]
<1>4. /\ e.ppd_device_id = r.ppd_device_id /\ e.ppd_make = r.ppd_make
      /\ e.ppd_product = r.ppd_product
      /\ e.ppd_make_and_model \in {r.ppd_make_and_model, Generic \o r.ppd_make_and_model}
  <2>1. {"ppd_device_id", "ppd_make", "ppd_product"} \subseteq ToSet(Attributes)
    BY NamesOfAttributes
  <2>2. \A a \in {"ppd_device_id", "ppd_make", "ppd_product"} : a # "ppd_make_and_model"
    OBVIOUS
  <2>3. \A a \in {"ppd_device_id", "ppd_make", "ppd_product"} : e[a] = r[a]
    BY Zenon, <1>3, <2>1, <2>2 DEF FromRecord
  <2> QED
    BY Zenon, <1>3, <2>3 DEF FromRecord
<1>5. IsText(r.ppd_make_and_model)
  <2>1. PICK input \in Inputs : response = input.response
    BY Zenon DEF InputOK
  <2>2. "ppd_make_and_model" \in DOMAIN r
    BY Zenon, <1>2, NamesOfAttributes DEF AllComplete, Complete
  <2>3. "ppd_make_and_model" # "ppd_device_id"
    OBVIOUS
  <2>4. r.ppd_make_and_model \in Seq(STRING)
    BY Zenon, <2>1, <2>2, <2>3, InputsAssumption
  <2> HIDE DEF r
  <2> QED
    BY Zenon, <2>4, TextOf
<1>6. /\ ~ParseFails(r.ppd_device_id)
      /\ HasProduct(r) => r.ppd_make # <<>>
      /\ \A name \in ToSet(NamesOf(r)) : ~SplitFails(name)
  BY Zenon, <1>1 DEF WellFormed
<1> HIDE DEF e, r
<1>7. (HasProduct(e) <=> HasProduct(r)) /\ Product(e) = Product(r)
  BY Zenon, <1>4 DEF HasProduct, Product
<1>8. ~SplitFails(r.ppd_make_and_model) /\ (HasProduct(r) => ~SplitFails(Product(r)))
  BY Zenon, <1>6, NamesFiled
<1>9. ~SplitFails(Generic \o r.ppd_make_and_model)
  <2>1. r.ppd_make_and_model # <<>>
    BY Zenon, <1>8, NothingFails
  <2> QED
    BY Zenon, <1>5, <2>1, GenericSplits
<1>10. ~SplitFails(e.ppd_make_and_model)
  BY Zenon, <1>4, <1>8, <1>9
<1>11. \A name \in ToSet(NamesOf(e)) : ~SplitFails(name)
  <2>1. ToSet(NamesOf(e)) = {e.ppd_make_and_model} \cup (IF HasProduct(e) THEN {Product(e)} ELSE {})
    BY NamesFiled
  <2> QED
    BY Zenon, <1>7, <1>8, <1>10, <2>1
<1> QED
  BY Zenon, <1>4, <1>6, <1>7, <1>11 DEF e

\* The filter keeps a PPD with the device's id.
LEMMA SameIdKept ==
    ASSUME ListOK, Answerable, pc = "filter", FilterPPDs
    PROVE  SameId' # {}
<1>1. AllComplete /\ \A i, j \in DOMAIN response : response[i].ppd_name = response[j].ppd_name => i = j
  BY Zenon DEF Answerable, AllComplete, WellFormed, ToSet
<1>2. PICK i \in DOMAIN response :
          /\ Key(response[i].ppd_device_id) = Key(device.id)
          /\ Understood(Put(Empty, response[i].ppd_name, response[i]), response[i].ppd_name)
  BY Zenon DEF Answerable, ToSet
<1> DEFINE r == response[i]
           p == r.ppd_name
<1>3. p \in DOMAIN ppds /\ EntryOf(ppds[p], r)
  <2>1. p \in DOMAIN ppds
    BY Zenon, <1>1 DEF ListOK
  <2>2. PICK j \in DOMAIN response : response[j].ppd_name = p /\ EntryOf(ppds[p], response[j])
    BY Zenon, <1>1, <2>1 DEF ListOK
  <2>3. j = i
    BY Zenon, <1>1, <2>2
  <2> QED
    BY Zenon, <2>1, <2>2, <2>3
<1>4. ppds[p].ppd_natural_language = r.ppd_natural_language /\ ppds[p].ppd_device_id = r.ppd_device_id
  <2>1. {"ppd_natural_language", "ppd_device_id"} \subseteq ToSet(Attributes)
    BY NamesOfAttributes
  <2> QED
    BY Zenon, <1>3, <2>1 DEF EntryOf
<1>5. Understood(ppds, p)
  <2>1. Put(Empty, p, r)[p] = r
    BY Zenon DEF Put
  <2> QED
    BY Zenon, <1>2, <1>4, <2>1 DEF Understood
<1>6. ppds' = PPDs(ppds) /\ device' = device
  BY DEF FilterPPDs
<1>7. \A q \in DOMAIN ppds : OnAttributes(ppds[q], Attributes)
  BY DEF ListOK
<1> HIDE DEF r
<1>8. p \in DOMAIN ppds' /\ ppds'[p].ppd_device_id = r.ppd_device_id
  <2>1. /\ DOMAIN PPDs(ppds) = {q \in DOMAIN ppds : Understood(ppds, q)}
        /\ \A q \in DOMAIN PPDs(ppds) : \A a \in ToSet(Attributes) :
               a # "ppd_make_and_model" => PPDs(ppds)[q][a] = ppds[q][a]
    BY <1>7, Filtered
  <2>2. "ppd_device_id" \in ToSet(Attributes) /\ "ppd_device_id" # "ppd_make_and_model"
    BY NamesOfAttributes
  <2>3. p \in DOMAIN PPDs(ppds)
    BY Zenon, <1>3, <1>5, <2>1
  <2>4. PPDs(ppds)[p].ppd_device_id = ppds[p].ppd_device_id
    BY Zenon, <2>1, <2>2, <2>3
  <2> QED
    BY Zenon, <1>4, <1>6, <2>3, <2>4
<1> HIDE DEF p
<1>9. Key(r.ppd_device_id) = Key(device.id) /\ <<>> \notin ToSet(Key(device.id))
  BY Zenon, <1>2 DEF Answerable, r
<1>10. p \in Keyed'
  BY Zenon, <1>8, <1>9 DEF Keyed
<1>11. p \in SameId'
  BY Zenon, <1>6, <1>8, <1>9, <1>10 DEF SameId
<1> QED
  BY Zenon, <1>11

\* The locals of the search by make and model.
Locals(mfg, mfgl, make) ==
    [mfg |-> mfg, mdl |-> parseDeviceID(device.id).MDL, mfgl |-> mfgl,
     mdll |-> Key(device.id)[2], make |-> make]

\* Nothing has failed, a PPD with the device's id is known, and the search has the
\* model of that id.
Answers ==
    /\ pc # "crashed"
    /\ pc \in {"ids", "device id"} \cup Searching => SameId # {}
    /\ pc \in {"makes", "make"} =>
          names = Locals(parseDeviceID(device.id).MFG, Key(device.id)[1], NULL)
    /\ pc = "model" =>
          \E mfg, mfgl, make : IsText(mfg) /\ IsText(mfgl) /\ names = Locals(mfg, mfgl, make)

AnsweredOK == Answerable => Answers

\* The texts of a device that can be answered.
LEMMA DeviceTexts ==
    ASSUME InputOK, Answerable
    PROVE  LET key == Key(device.id)
               parsed == parseDeviceID(device.id)
           IN  /\ IsText(parsed.MFG)
               /\ IsText(parsed.MDL) /\ parsed.MDL # <<>>
               /\ IsText(key[1]) /\ key[1] # <<>>
               /\ IsText(key[2]) /\ Len(key[2]) = Len(parsed.MDL) /\ Last(key[2]) # Space
<1>1. device.id.fields \in Seq(IdFields)
  BY Zenon, InputsAssumption DEF InputOK, IdFields
<1>2. <<>> \notin ToSet(Key(device.id)) /\ Last(Key(device.id)[2]) # Space
  BY Zenon DEF Answerable, Space
<1>3. /\ IsText(parseDeviceID(device.id).MFG)
      /\ IsText(parseDeviceID(device.id).MDL) /\ parseDeviceID(device.id).MDL # <<>>
      /\ IsText(Key(device.id)[1]) /\ Key(device.id)[1] # <<>>
      /\ IsText(Key(device.id)[2])
      /\ Len(Key(device.id)[2]) = Len(parseDeviceID(device.id).MDL)
  BY <1>1, <1>2, KeyTexts
<1> QED
  BY Zenon, <1>2, <1>3

\* What another spelling of a manufacturer is.
LEMMA OtherMakeText ==
    ASSUME NEW t, IsText(t)
    PROVE  IsText(mfgrepl(t))
<1>1. mfgrepl(t) \in {HP, <<"lexmark">>, <<"kyocera", " ", "mita">>, t}
  BY Zenon DEF mfgrepl
<1>2. IsText(HP) /\ IsText(<<"lexmark">>)
  BY Zenon, Tuples DEF HP
<1>3. \A a, b, c : <<a, b, c>> \in Seq({a, b, c})
  OBVIOUS
<1>4. \A a, b, c : IsText(<<a, b, c>>)
  BY <1>3, TextOf
<1> QED
  BY Zenon, <1>1, <1>2, <1>4

LEMMA FindMakeAnswers ==
    ASSUME InputOK, Answerable, Answers, FindMake
    PROVE  /\ pc' = "model"
           /\ \E mfg, mfgl, make :
                 IsText(mfg) /\ IsText(mfgl) /\ names' = Locals(mfg, mfgl, make)
<1> DEFINE MFG == parseDeviceID(device.id).MFG
           mfgl == Key(device.id)[1]
           other == mfgrepl(mfgl)
<1>1. names = Locals(MFG, mfgl, NULL)
  BY Zenon DEF FindMake, Answers
<1>2. IsText(MFG) /\ IsText(mfgl) /\ mfgl # <<>>
  BY Zenon, DeviceTexts
<1> HIDE DEF MFG, mfgl
<1>3. names.mfgl = mfgl
  BY <1>1 DEF Locals
<1>4. /\ pc' = "model"
      /\ \/ names' = [names EXCEPT !.make = lmakes[names.mfgl]]
         \/ names' = [names EXCEPT !.mfg = mfgrepl(names.mfgl), !.mfgl = mfgrepl(names.mfgl),
                                   !.make = lmakes[mfgrepl(names.mfgl)]]
         \/ names' = names
  BY Zenon, <1>2, <1>3 DEF FindMake
<1>5. CASE names' = [names EXCEPT !.make = lmakes[names.mfgl]]
  <2>1. names' = Locals(MFG, mfgl, lmakes[names.mfgl])
    BY <1>1, <1>5 DEF Locals
  <2> QED
    BY Zenon, <1>2, <1>4, <2>1
<1>6. CASE names' = [names EXCEPT !.mfg = mfgrepl(names.mfgl), !.mfgl = mfgrepl(names.mfgl),
                                  !.make = lmakes[mfgrepl(names.mfgl)]]
  <2>1. names' = Locals(mfgrepl(names.mfgl), mfgrepl(names.mfgl), lmakes[mfgrepl(names.mfgl)])
    BY <1>1, <1>6 DEF Locals
  <2>2. IsText(mfgrepl(names.mfgl))
    BY Zenon, <1>2, <1>3, OtherMakeText
  <2> QED
    BY Zenon, <1>4, <2>1, <2>2
<1>7. CASE names' = names
  BY Zenon, <1>1, <1>2, <1>4, <1>7
<1> QED
  BY Zenon, <1>4, <1>5, <1>6, <1>7

\* The manufacturer and what is left of the model can be split again.
LEMMA ModelAnswers ==
    ASSUME InputOK, Answerable, Answers, SearchByModel
    PROVE  pc' = "best"
<1>1. PICK mfg, mfgl, make : IsText(mfg) /\ IsText(mfgl) /\ names = Locals(mfg, mfgl, make)
  BY Zenon DEF SearchByModel, Answers
<1> DEFINE n == Unprefixed(names)
           full == n.mfg \o <<Space>> \o n.mdl
<1>2. ~SplitFails(full)
  <2> DEFINE mdl == parseDeviceID(device.id).MDL
             mdll == Key(device.id)[2]
             old == [mfg |-> mfg, mdl |-> mdl, mfgl |-> mfgl, mdll |-> mdll, make |-> make]
  <2>1. IsText(mdl) /\ mdl # <<>> /\ IsText(mdll) /\ Len(mdll) = Len(mdl) /\ Last(mdll) # Space
    BY Zenon, DeviceTexts
  <2>2. names = old
    BY Zenon, <1>1 DEF Locals
  <2> HIDE DEF mdl, mdll
  <2>3. LET o == [mfg |-> mfg, mdl |-> mdl, mfgl |-> mfgl, mdll |-> mdll, make |-> make]
        IN  /\ Unprefixed(o).mfg = mfg
            /\ IsText(Unprefixed(o).mdl) /\ Unprefixed(o).mdl # <<>>
    BY <1>1, <2>1, ModelLeft
  <2>4. n.mfg = mfg /\ IsText(n.mdl) /\ n.mdl # <<>>
    BY Zenon, <2>2, <2>3
  <2> HIDE DEF n
  <2>5. IsText(<<Space>>) /\ Len(<<Space>>) = 1 /\ <<Space>>[1] = Space
    BY Zenon, Tuples
  <2> DEFINE v == mfg \o <<Space>>
  <2>6. IsText(v) /\ Len(v) = Len(mfg) + 1 /\ v[Len(mfg) + 1] = Space /\ Len(mfg) \in Nat
    BY <1>1, <2>5, JoinedText, TextProperties
  <2> HIDE DEF v
  <2>7. Len(v) > 0 /\ v[Len(v)] = Space
    BY <2>6
  <2>8. ~SplitFails(v \o n.mdl)
    BY <2>4, <2>6, <2>7, TwoWordsSplit
  <2> QED
    BY Zenon, <2>4, <2>8 DEF v
<1>3. SplitFails(n.mfg \o <<" ">> \o n.mdl) <=> SplitFails(full)
  BY Zenon DEF Space
<1> HIDE DEF n, full
<1> QED
  BY Zenon, <1>2, <1>3 DEF SearchByModel, n, Crash

LEMMA AnswersStep ==
    ASSUME InputOK, IInv, ListOK, PrefOK, Answerable, Answers, [Next]_vars
    PROVE  Answers'
<1> USE DEF Searching
<1>1. /\ UNCHANGED <<response, device, document>>
      /\ pc \notin {"fetch", "filter"} => UNCHANGED ppds
  BY InputKept, ListSteps
<1>2. ASSUME UNCHANGED ppds PROVE SameId' = SameId
  BY <1>1, <1>2 DEF SameId, Keyed
<1>3. ASSUME UNCHANGED ppds, pc \in {"ids", "device id"} \cup Searching,
             pc' \notin {"makes", "make", "model", "crashed"}
      PROVE  Answers'
  BY Zenon, <1>2, <1>3 DEF Answers
<1>4. \A mfg, mfgl, make : Locals(mfg, mfgl, make)' = Locals(mfg, mfgl, make)
  BY <1>1 DEF Locals
<1>5. CASE FetchPPDs
  <2>1. pc' = "preferences"
    BY <1>5 DEF FetchPPDs
  <2> QED
    BY <2>1 DEF Answers
<1>6. CASE Preferences
  <2>1. /\ pc = "preferences" /\ ReadPreferences
        /\ pc' = IF reading' \in {"read", "crashed"}
                 THEN IF reading' = "read" THEN "filter" ELSE "crashed" ELSE pc
    BY <1>6 DEF Preferences
  <2>2. reading' # "crashed"
    BY <2>1, SoundIsRead DEF Answerable
  <2>3. pc' \in {"preferences", "filter"}
    BY <2>1, <2>2
  <2> QED
    BY <2>3 DEF Answers
<1>7. CASE FilterPPDs
  <2>1. pc = "filter" /\ pc' = "ids"
    BY <1>7 DEF FilterPPDs, Answerable
  <2>2. SameId' # {}
    BY <1>7, <2>1, SameIdKept
  <2> QED
    BY <2>1, <2>2 DEF Answers
<1>8. CASE InitIds
  <2>1. pc = "ids" /\ UNCHANGED ppds
    BY <1>8 DEF InitIds
  <2>2. \A p \in DOMAIN ppds : ~ParseFails(ppds[p].ppd_device_id)
    BY <2>1, EntryWellFormed DEF Answerable
  <2>3. pc' = "device id"
    BY <1>8, <2>2 DEF InitIds
  <2> QED
    BY <1>3, <2>1, <2>3
<1>9. CASE SearchByDeviceID
  <2>1. /\ pc = "device id" /\ pc' = "makes" /\ UNCHANGED ppds
        /\ names' = Locals(parseDeviceID(device.id).MFG, Key(device.id)[1], NULL)
    BY <1>9 DEF SearchByDeviceID, Locals, tables
  <2>2. names' = Locals(parseDeviceID(device.id).MFG, Key(device.id)[1], NULL)'
    BY <1>1, <2>1 DEF Locals
  <2>3. SameId' # {}
    BY <1>2, <2>1 DEF Answers
  <2> QED
    BY <2>1, <2>2, <2>3 DEF Answers
<1>10. ASSUME NEW p \in todo, InitMakes(p) PROVE Answers'
  <2>1. pc = "makes" /\ UNCHANGED <<ppds, names>>
    BY <1>10 DEF InitMakes
  <2>2. p \in DOMAIN ppds
    BY <1>10 DEF IInv, TablesOK
  <2>3. /\ HasProduct(ppds[p]) => ppds[p].ppd_make # <<>>
        /\ \A name \in ToSet(NamesOf(ppds[p])) : ~SplitFails(name)
    BY <2>1, <2>2, EntryWellFormed DEF Answerable
  <2>4. pc' = "makes"
    BY Zenon, <1>10, <2>1, <2>3 DEF InitMakes
  <2>5. names' = Locals(parseDeviceID(device.id).MFG, Key(device.id)[1], NULL)'
    BY <1>1, <2>1 DEF Answers, Locals
  <2>6. SameId' # {}
    BY <1>2, <2>1 DEF Answers
  <2> QED
    BY <2>4, <2>5, <2>6 DEF Answers
<1>11. CASE InitMakesEnds
  <2>1. /\ pc = "makes" /\ UNCHANGED <<ppds, names>>
        /\ pc' = "make" \/ (pc' = "crashed" /\ ppds = Empty)
    BY <1>11 DEF InitMakesEnds, tables, searchVars
  <2>2. ppds # Empty
    BY <2>1 DEF Answers, SameId, Keyed, Empty
  <2>3. pc' = "make"
    BY <2>1, <2>2
  <2>4. names' = Locals(parseDeviceID(device.id).MFG, Key(device.id)[1], NULL)'
    BY <1>1, <2>1 DEF Answers, Locals
  <2>5. SameId' # {}
    BY <1>2, <2>1 DEF Answers
  <2> QED
    BY <2>3, <2>4, <2>5 DEF Answers
<1>12. CASE FindMake
  <2>1. pc = "make" /\ UNCHANGED ppds
    BY <1>12 DEF FindMake, tables
  <2>2. PICK mfg, mfgl, make :
            pc' = "model" /\ IsText(mfg) /\ IsText(mfgl) /\ names' = Locals(mfg, mfgl, make)
    BY Zenon, <1>12, FindMakeAnswers
  <2>3. names' = Locals(mfg, mfgl, make)'
    BY Zenon, <1>4, <2>2
  <2>4. SameId' # {}
    BY <1>2, <2>1 DEF Answers
  <2>5. \E a, b, c : IsText(a) /\ IsText(b) /\ names' = Locals(a, b, c)'
    BY Zenon, <2>2, <2>3
  <2> QED
    BY Zenon, <2>2, <2>4, <2>5 DEF Answers
<1>13. CASE SearchByModel
  <2>1. pc = "model" /\ UNCHANGED ppds
    BY <1>13 DEF SearchByModel, tables
  <2>2. pc' = "best"
    BY <1>13, ModelAnswers
  <2> QED
    BY <1>3, <2>1, <2>2
<1>14. CASE BestMatch
  <2>1. pc = "best" /\ UNCHANGED ppds
    BY <1>14 DEF BestMatch, tables
  <2>2. fit # Empty
    BY <2>1 DEF Answers, IInv, IdsOK, Empty
  <2>3. pc' = "generic"
    BY Zenon, <1>14, <2>2 DEF BestMatch
  <2> QED
    BY <1>3, <2>1, <2>3
<1>15. CASE ByCommandSet
  <2>1. <<"Generic">> \notin DOMAIN makes
    BY NoMakeIsGeneric DEF IInv, TablesOK, ShapeOK, Index
  <2>2. getPPDNameFromCommandSet = {NONE}
    BY <2>1 DEF getPPDNameFromCommandSet
  <2>3. pc = "generic" /\ pc' = "driverless" /\ UNCHANGED ppds
    BY <1>15, <2>2 DEF ByCommandSet, NONE, CRASH, tables
  <2> QED
    BY <1>3, <2>3
<1>16. CASE RemoveDriverless \/ CheckCommands \/ Fallback
  <2>1. pc' \in {"commands", "fallback", "done"}
    BY <1>16 DEF RemoveDriverless, CheckCommands, Fallback
  <2> QED
    BY <2>1 DEF Answers
<1>17. CASE UNCHANGED vars
  <2>1. UNCHANGED <<pc, names, ppds>>
    BY <1>17 DEF vars, tables, searchVars
  <2>2. SameId' = SameId
    BY <1>2, <2>1
  <2>3. Locals(parseDeviceID(device.id).MFG, Key(device.id)[1], NULL)'
            = Locals(parseDeviceID(device.id).MFG, Key(device.id)[1], NULL)
    BY <1>1 DEF Locals
  <2> QED
    BY Zenon, <1>4, <2>1, <2>2, <2>3 DEF Answers
<1> QED
  BY <1>5, <1>6, <1>7, <1>8, <1>9, <1>10, <1>11, <1>12, <1>13, <1>14, <1>15, <1>16, <1>17 DEF Next

\* Every step keeps a known device from the end of the process.
LEMMA AnsweredStep ==
    ASSUME InputOK, IInv, ListOK, PrefOK, AnsweredOK, [Next]_vars
    PROVE  AnsweredOK'
<1>1. Answerable' <=> Answerable
  <2>1. UNCHANGED <<response, device, document>>
    BY InputKept
  <2> QED
    BY Zenon, <2>1 DEF Answerable
<1> QED
  BY Zenon, <1>1, AnswersStep DEF AnsweredOK

LEMMA AnsweredInit == Init => PrefOK /\ AnsweredOK
<1> SUFFICES ASSUME Init PROVE PrefOK /\ AnsweredOK
  OBVIOUS
<1>1. drvtypes = <<>> /\ pordertypes = <<>> /\ reading = "file"
  BY DEF Init, OrderInit
<1>2. IsText(<<>>)
  BY DEF IsText
<1>3. PrefOK
  BY <1>1, <1>2 DEF PrefOK
<1>4. pc = "fetch"
  BY DEF Init
<1>5. Answers
  BY <1>4 DEF Answers, Searching
<1> QED
  BY <1>3, <1>5 DEF AnsweredOK

-----------------------------------------------------------------------------
(* Searching a text with the table of Knuth, Morris and Pratt. *)

\* The first l tokens of the first i end them too.
Border(p, i, l) == l \in 0 .. i - 1 /\ \A y \in 1 .. l : p[y] = p[i - l + y]
LongestBorder(p, i, l) == Border(p, i, l) /\ \A k : Border(p, i, k) => k <= l

\* computeLPSArray, with names for its functions.
IsExtend(p, lps, i, e) ==
    e = [len \in 0 .. i - 1 |-> IF p[len + 1] = p[i] THEN len + 1
                                ELSE IF len = 0 THEN 0 ELSE e[lps[len]]]
Extend(p, lps, i) == CHOOSE e : IsExtend(p, lps, i, e)
IsTable(p, lps) == lps = [i \in DOMAIN p |-> IF i = 1 THEN 0 ELSE Extend(p, lps, i)[lps[i - 1]]]

\* Every non-empty prefix has a longest border.
LEMMA LongestExists ==
    ASSUME NEW p, NEW i \in Nat \ {0}
    PROVE  \E l : LongestBorder(p, i, l)
<1> DEFINE I == {l \in 0 .. i - 1 : Border(p, i, l)}
<1>1. 0 \in I /\ I \in SUBSET (0 .. i - 1) /\ i - 1 \in Nat
  BY DEF Border
<1>2. Max(I) \in I /\ \A y \in I : y <= Max(I)
  <2> HIDE DEF I
  <2> QED
    BY <1>1, Greatest
<1>3. \A k : Border(p, i, k) => k \in I
  BY DEF Border
<1> QED
  BY <1>2, <1>3 DEF LongestBorder

\* It has only one.
LEMMA LongestUnique ==
    ASSUME NEW p, NEW i \in Nat, NEW l, NEW k, LongestBorder(p, i, l), LongestBorder(p, i, k)
    PROVE  l = k
BY DEF LongestBorder, Border

\* Borders of the longest border are the other borders.
LEMMA BorderOfLongest ==
    ASSUME NEW p, NEW i \in Nat, NEW l, LongestBorder(p, i, l), NEW k
    PROVE  Border(p, l, k) <=> Border(p, i, k) /\ k # l
<1>1. l \in 0 .. i - 1 /\ \A y \in 1 .. l : p[y] = p[i - l + y]
  BY DEF LongestBorder, Border
<1>2. ASSUME Border(p, l, k) PROVE Border(p, i, k) /\ k # l
  <2>1. k \in 0 .. l - 1 /\ \A y \in 1 .. k : p[y] = p[l - k + y]
    BY <1>2 DEF Border
  <2>2. ASSUME NEW y \in 1 .. k PROVE p[y] = p[i - k + y]
    <3>1. l - k + y \in 1 .. l /\ i - l + (l - k + y) = i - k + y
      BY <1>1, <2>1
    <3> QED
      BY <1>1, <2>1, <3>1
  <2> QED
    BY <1>1, <2>1, <2>2 DEF Border
<1>3. ASSUME Border(p, i, k), k # l PROVE Border(p, l, k)
  <2>1. k \in 0 .. i - 1 /\ k <= l /\ \A y \in 1 .. k : p[y] = p[i - k + y]
    BY <1>3 DEF LongestBorder, Border
  <2>2. ASSUME NEW y \in 1 .. k PROVE p[y] = p[l - k + y]
    <3>1. l - k + y \in 1 .. l /\ i - l + (l - k + y) = i - k + y
      BY <1>1, <2>1
    <3> QED
      BY <1>1, <2>1, <3>1
  <2> QED
    BY <1>1, <1>3, <2>1, <2>2 DEF Border
<1> QED
  BY <1>2, <1>3

\* The borders of the first len tokens, and all of them, that the i-th token continues.
Continued(p, i, len) ==
    {0} \cup {l \in 1 .. len + 1 : p[l] = p[i] /\ (l = len + 1 \/ Border(p, len, l - 1))}

\* The loop of computeLPSArray: the longest border that goes on with the next character is the tried one and
\* that character, or is found from the tried one's longest border.
LEMMA ContinuedSteps ==
    ASSUME NEW p, NEW i \in Nat, NEW len \in 0 .. i - 1
    PROVE  /\ p[len + 1] = p[i] => Max(Continued(p, i, len)) = len + 1
           /\ p[len + 1] # p[i] /\ len = 0 => Max(Continued(p, i, len)) = 0
           /\ p[len + 1] # p[i] /\ len # 0 =>
                 \A l : LongestBorder(p, len, l) => Continued(p, i, len) = Continued(p, i, l)
<1> DEFINE I == Continued(p, i, len)
<1>1. I \in SUBSET (0 .. len + 1) /\ 0 \in I /\ len + 1 \in Nat
  BY DEF Continued
<1>2. Max(I) \in I /\ \A y \in I : y <= Max(I)
  <2> HIDE DEF I
  <2> QED
    BY <1>1, Greatest
<1> HIDE DEF I
<1>3. p[len + 1] = p[i] => len + 1 \in I
  BY DEF Continued, I
<1>4. p[len + 1] = p[i] => Max(I) = len + 1
  <2>1. ASSUME NEW x \in 0 .. len + 1, len + 1 <= x PROVE x = len + 1
    BY <2>1
  <2>2. Max(I) \in 0 .. len + 1 /\ (p[len + 1] = p[i] => len + 1 <= Max(I))
    BY <1>1, <1>2, <1>3
  <2> QED
    BY <2>1, <2>2
<1>5. ASSUME p[len + 1] # p[i], len = 0 PROVE I = {0}
  BY <1>5 DEF I, Continued
<1>6. ASSUME p[len + 1] # p[i], len # 0, NEW l, LongestBorder(p, len, l)
      PROVE  Continued(p, i, len) = Continued(p, i, l)
  <2>1. l \in 0 .. len - 1 /\ Border(p, len, l)
    BY <1>6 DEF LongestBorder, Border
  <2>2. \A k : Border(p, l, k) <=> Border(p, len, k) /\ k # l
    BY <1>6, BorderOfLongest
  <2>3. \A k : Border(p, l, k) => k <= l - 1
    BY <2>1 DEF Border
  <2>4. \A k : Border(p, len, k) => k <= l
    BY <1>6 DEF LongestBorder
  <2>5. ASSUME NEW k \in 1 .. len + 1
        PROVE  p[k] = p[i] /\ (k = len + 1 \/ Border(p, len, k - 1))
               <=> k \in 1 .. l + 1 /\ p[k] = p[i] /\ (k = l + 1 \/ Border(p, l, k - 1))
    <3>1. CASE k = len + 1
      BY <1>6, <2>1, <3>1
    <3>2. CASE k = l + 1
      BY <2>1, <3>2
    <3>3. CASE k # len + 1 /\ k # l + 1
      <4>1. k - 1 # l
        BY <2>1, <3>3
      <4>2. Border(p, len, k - 1) <=> Border(p, l, k - 1)
        BY <2>2, <4>1
      <4>3. Border(p, l, k - 1) => k \in 1 .. l + 1
        BY <2>1, <2>3
      <4> QED
        BY <3>3, <4>2, <4>3
    <3> QED
      BY <3>1, <3>2, <3>3
  <2> QED
    BY <2>1, <2>5 DEF Continued
<1> QED
  BY <1>2, <1>4, <1>5, <1>6 DEF I

\* When the table is right below i, the loop of computeLPSArray finds the longest border that goes on to i.
LEMMA ExtendFinds ==
    ASSUME NEW p, NEW i \in Nat \ {0}, NEW lps,
           \A j \in 1 .. i - 1 : LongestBorder(p, j, lps[j])
    PROVE  \A len \in 0 .. i - 1 : Extend(p, lps, i)[len] = Max(Continued(p, i, len))
<1> DEFINE best(len) == Max(Continued(p, i, len))
           step(e, len) == IF p[len + 1] = p[i] THEN len + 1
                           ELSE IF len = 0 THEN 0 ELSE e[lps[len]]
           g == [len \in 0 .. i - 1 |-> best(len)]
<1>1. \A j \in 1 .. i - 1 : lps[j] \in 0 .. j - 1
  BY DEF LongestBorder, Border
<1>2. ASSUME NEW len \in 0 .. i - 1
      PROVE  best(len) = IF p[len + 1] = p[i] THEN len + 1
                         ELSE IF len = 0 THEN 0 ELSE best(lps[len])
  <2>1. len # 0 => len \in 1 .. i - 1 /\ LongestBorder(p, len, lps[len])
    OBVIOUS
  <2> QED
    BY <2>1, ContinuedSteps
<1> HIDE DEF best
<1>3. \E e : IsExtend(p, lps, i, e)
  <2>1. ASSUME NEW len \in 0 .. i - 1 PROVE g[len] = step(g, len)
    <3>1. len # 0 => lps[len] \in 0 .. i - 1
      BY <1>1
    <3> QED
      BY <1>2, <3>1
  <2>2. g = [len \in 0 .. i - 1 |-> g[len]]
    OBVIOUS
  <2> HIDE DEF g
  <2>3. IsExtend(p, lps, i, g)
    BY <2>1, <2>2 DEF IsExtend
  <2> QED
    BY <2>3
<1> DEFINE e == Extend(p, lps, i)
           I == {len \in 0 .. i - 1 : e[len] # best(len)}
<1>4. IsExtend(p, lps, i, e)
  BY <1>3 DEF Extend
<1> HIDE DEF e
<1>5. \A len \in 0 .. i - 1 : e[len] = step(e, len)
  BY <1>4 DEF IsExtend
<1>6. I = {}
  <2> SUFFICES ASSUME I # {} PROVE FALSE
    OBVIOUS
  <2>1. I \in SUBSET Nat
    OBVIOUS
  <2>2. PICK len \in I : \A y \in I : len <= y
    <3> HIDE DEF I
    <3> QED
      BY <2>1, Least
  <2>3. len \in 0 .. i - 1 /\ e[len] # best(len)
    OBVIOUS
  <2>4. len # 0 => e[lps[len]] = best(lps[len])
    <3>1. len # 0 => lps[len] \in 0 .. len - 1 /\ lps[len] \in 0 .. i - 1
      BY <1>1, <2>3
    <3>2. len # 0 => lps[len] \notin I
      BY <2>2, <2>3, <3>1
    <3> QED
      BY <3>1, <3>2
  <2> QED
    BY <1>2, <1>5, <2>3, <2>4
<1> QED
  BY <1>6 DEF best, e

\* A border of the first i tokens is one of the first i - 1 that the i-th token continues.
LEMMA ContinuedBorders ==
    ASSUME NEW p, NEW i \in Nat, i > 1, NEW l, LongestBorder(p, i - 1, l)
    PROVE  LongestBorder(p, i, Max(Continued(p, i, l)))
<1>1. l \in 0 .. i - 2 /\ Border(p, i - 1, l) /\ \A k : Border(p, i - 1, k) => k <= l
  BY DEF LongestBorder, Border
<1>2. ASSUME NEW k
      PROVE  Border(p, i, k)
             <=> k = 0 \/ (k - 1 \in Nat /\ k \in Nat /\ p[k] = p[i] /\ Border(p, i - 1, k - 1))
  <2>1. CASE k \in 1 .. i - 1
    <3>1. ASSUME Border(p, i, k) PROVE p[k] = p[i] /\ Border(p, i - 1, k - 1)
      <4>1. \A y \in 1 .. k : p[y] = p[i - k + y]
        BY <3>1 DEF Border
      <4>2. p[k] = p[i]
        BY <2>1, <4>1
      <4>3. ASSUME NEW y \in 1 .. k - 1 PROVE p[y] = p[(i - 1) - (k - 1) + y]
        <5>1. (i - 1) - (k - 1) + y = i - k + y /\ y \in 1 .. k
          BY <2>1
        <5> QED
          BY <4>1, <5>1
      <4> QED
        BY <2>1, <4>2, <4>3 DEF Border
    <3>2. ASSUME p[k] = p[i], Border(p, i - 1, k - 1) PROVE Border(p, i, k)
      <4>1. \A y \in 1 .. k - 1 : p[y] = p[(i - 1) - (k - 1) + y]
        BY <3>2 DEF Border
      <4>2. ASSUME NEW y \in 1 .. k PROVE p[y] = p[i - k + y]
        <5>1. CASE y = k
          <6>1. i - k + y = i
            BY <2>1, <5>1
          <6> QED
            BY <3>2, <5>1, <6>1
        <5>2. CASE y # k
          <6>1. (i - 1) - (k - 1) + y = i - k + y /\ y \in 1 .. k - 1
            BY <2>1, <5>2
          <6> QED
            BY <4>1, <6>1
        <5> QED
          BY <5>1, <5>2
      <4> QED
        BY <2>1, <4>2 DEF Border
    <3> QED
      BY <2>1, <3>1, <3>2
  <2>2. CASE k = 0
    BY <2>2 DEF Border
  <2>3. CASE k \notin 0 .. i - 1
    BY <2>3 DEF Border
  <2> QED
    BY <2>1, <2>2, <2>3
<1>3. \A k : Border(p, i - 1, k) <=> k = l \/ Border(p, l, k)
  BY <1>1, BorderOfLongest
<1> DEFINE I == Continued(p, i, l)
<1>4. I \in SUBSET (0 .. l + 1) /\ 0 \in I /\ l + 1 \in Nat
  BY <1>1 DEF Continued
<1>5. ASSUME NEW k PROVE k \in I <=> Border(p, i, k)
  <2>1. CASE k \in 1 .. l + 1
    <3>1. Border(p, i - 1, k - 1) <=> k = l + 1 \/ Border(p, l, k - 1)
      BY <1>1, <1>3, <2>1
    <3> QED
      BY <1>2, <2>1, <3>1 DEF Continued
  <2>2. CASE k = 0
    BY <1>2, <1>4, <2>2
  <2>3. CASE k \notin 0 .. l + 1
    <3>1. k \notin I
      BY <1>4, <2>3
    <3>2. k - 1 \in Nat /\ Border(p, i - 1, k - 1) => k - 1 <= l
      BY <1>1
    <3> QED
      BY <1>1, <1>2, <2>3, <3>1, <3>2
  <2> QED
    BY <2>1, <2>2, <2>3
<1>6. Max(I) \in I /\ \A y \in I : y <= Max(I)
  <2> HIDE DEF I
  <2> QED
    BY <1>4, Greatest
<1> HIDE DEF I
<1>7. LongestBorder(p, i, Max(I))
  BY <1>5, <1>6 DEF LongestBorder
<1> QED
  BY <1>7 DEF I

\* The table has the longest border of each prefix.
LEMMA TableFinds ==
    ASSUME NEW p, NEW m \in Nat, DOMAIN p = 1 .. m
    PROVE  \A i \in 1 .. m : LongestBorder(p, i, computeLPSArray(p)[i])
<1> DEFINE longest(i) == CHOOSE l : LongestBorder(p, i, l)
           g == [i \in 1 .. m |-> longest(i)]
           lps == computeLPSArray(p)
<1>1. \A i \in 1 .. m : LongestBorder(p, i, longest(i))
  <2>1. \A i \in 1 .. m : \E l : LongestBorder(p, i, l)
    BY LongestExists
  <2> QED
    BY <2>1
<1> HIDE DEF longest
<1>2. ASSUME NEW f, NEW i \in 1 .. m, \A j \in 1 .. i - 1 : LongestBorder(p, j, f[j])
      PROVE  LongestBorder(p, i, IF i = 1 THEN 0 ELSE Extend(p, f, i)[f[i - 1]])
  <2>1. CASE i = 1
    <3>1. LongestBorder(p, 1, 0)
      BY DEF LongestBorder, Border
    <3> QED
      BY <2>1, <3>1
  <2>2. CASE i # 1
    <3>1. LongestBorder(p, i - 1, f[i - 1]) /\ i \in Nat /\ i > 1 /\ i - 1 \in 1 .. i - 1
      BY <1>2, <2>2
    <3>2. f[i - 1] \in 0 .. i - 1
      BY <3>1 DEF LongestBorder, Border
    <3>3. Extend(p, f, i)[f[i - 1]] = Max(Continued(p, i, f[i - 1]))
      BY <1>2, <3>2, ExtendFinds
    <3>4. LongestBorder(p, i, Max(Continued(p, i, f[i - 1])))
      BY <3>1, ContinuedBorders
    <3> QED
      BY <2>2, <3>3, <3>4
  <2> QED
    BY <2>1, <2>2
<1>3. IsTable(p, g)
  <2>1. ASSUME NEW i \in 1 .. m
        PROVE  g[i] = IF i = 1 THEN 0 ELSE Extend(p, g, i)[g[i - 1]]
    <3> DEFINE v == IF i = 1 THEN 0 ELSE Extend(p, g, i)[g[i - 1]]
    <3>1. \A j \in 1 .. i - 1 : LongestBorder(p, j, g[j])
      <4>1. \A j \in 1 .. i - 1 : j \in 1 .. m /\ g[j] = longest(j)
        OBVIOUS
      <4> HIDE DEF g
      <4> QED
        BY <1>1, <4>1
    <3>2. g[i] = longest(i)
      OBVIOUS
    <3> HIDE DEF g
    <3>3. LongestBorder(p, i, v)
      BY <1>2, <3>1
    <3> HIDE DEF v
    <3>4. g[i] = v
      BY <1>1, <3>2, <3>3, LongestUnique
    <3> QED
      BY <3>4 DEF v
  <2>2. g = [i \in DOMAIN p |-> g[i]]
    OBVIOUS
  <2> HIDE DEF g
  <2> QED
    BY <2>1, <2>2 DEF IsTable
<1>4. IsTable(p, lps)
  <2>1. lps = CHOOSE f : IsTable(p, f)
    BY DEF computeLPSArray, IsTable, IsExtend, Extend
  <2> HIDE DEF g, lps
  <2> QED
    BY <1>3, <2>1
<1> HIDE DEF g, lps
<1> DEFINE I == {i \in 1 .. m : ~LongestBorder(p, i, lps[i])}
<1>5. I = {}
  <2> SUFFICES ASSUME I # {} PROVE FALSE
    OBVIOUS
  <2>1. I \in SUBSET Nat
    OBVIOUS
  <2>2. PICK i \in I : \A y \in I : i <= y
    <3> HIDE DEF I
    <3> QED
      BY <2>1, Least
  <2>3. i \in 1 .. m /\ ~LongestBorder(p, i, lps[i])
    OBVIOUS
  <2>4. ASSUME NEW j \in 1 .. i - 1 PROVE LongestBorder(p, j, lps[j])
    <3>1. j \in 1 .. m /\ ~(i <= j)
      BY <2>3
    <3>2. j \notin I
      BY <2>2, <3>1
    <3> QED
      BY <3>1, <3>2
  <2>5. lps[i] = IF i = 1 THEN 0 ELSE Extend(p, lps, i)[lps[i - 1]]
    BY <1>4, <2>3 DEF IsTable
  <2> HIDE DEF I
  <2> QED
    BY <1>2, <2>3, <2>4, <2>5
<1> QED
  BY <1>5 DEF lps

\* Where the pattern is found in a text that has the first j tokens of the pattern for
\* those that were read last.
Places(p, t, i, j) ==
    {q \in (i - j) .. (Len(t) - Len(p)) :
        \A k \in 1 .. Len(p) : (IF q + k <= i THEN p[(q + k) - (i - j)] ELSE t[q + k]) = p[k]}
FirstPlace(p, t, i, j) == IF Places(p, t, i, j) = {} THEN NoValue ELSE Min(Places(p, t, i, j))

\* How the first place follows from those of the steps of the search.
PlaceFollows(p, t, i, j) ==
    LET place(a, b) == FirstPlace(p, t, a, b)
        m == Len(p)
        n == Len(t)
    IN  /\ j = m => place(i, j) = i - j
        /\ j < m =>
              /\ i = n => place(i, j) = NoValue
              /\ i < n /\ p[j + 1] = t[i + 1] => place(i, j) = place(i + 1, j + 1)
              /\ i < n /\ p[j + 1] # t[i + 1] =>
                    /\ j = 0 => place(i, j) = place(i + 1, 0)
                    /\ \A l : j # 0 /\ LongestBorder(p, j, l) => place(i, j) = place(i, l)

\* The steps of KMPSearch keep the first place that is still possible, from any state of the search.
LEMMA FirstSteps ==
    ASSUME NEW m \in Nat, NEW n \in Nat, NEW p, Len(p) = m, NEW t, Len(t) = n,
           NEW i \in 0 .. n, NEW j \in 0 .. m
    PROVE  PlaceFollows(p, t, i, j)
<1> DEFINE at(a, b, x) == IF x <= a THEN p[x - (a - b)] ELSE t[x]
           Q(a, b) == Places(p, t, a, b)
<1>1. \A a, b : Q(a, b) = {q \in (a - b) .. (n - m) : \A k \in 1 .. m : at(a, b, q + k) = p[k]}
  BY DEF Places
<1> HIDE DEF Q
<1>2. m \in Nat /\ n \in Nat /\ i \in 0 .. n /\ j \in 0 .. m
  OBVIOUS
<1>3. ASSUME j = m PROVE Q(i, j) # {} /\ Min(Q(i, j)) = i - j
  <2>1. i - j \in Q(i, j)
    <3>1. i - j \in (i - j) .. (n - m)
      BY <1>2, <1>3
    <3>2. ASSUME NEW k \in 1 .. m PROVE at(i, j, (i - j) + k) = p[k]
      <4>1. (i - j) + k <= i /\ ((i - j) + k) - (i - j) = k
        BY <1>2, <1>3
      <4> QED
        BY <4>1
    <3> QED
      BY <1>1, <3>1, <3>2
  <2>2. Q(i, j) \in SUBSET Int /\ i - j \in Int /\ \A q \in Q(i, j) : q >= i - j
    BY <1>1, <1>2
  <2>3. Min(Q(i, j)) \in Q(i, j) /\ Min(Q(i, j)) <= i - j
    BY <2>1, <2>2, LeastFrom
  <2>4. \A x \in Q(i, j) : x <= i - j => x = i - j
    BY <2>2
  <2> QED
    BY <2>1, <2>3, <2>4
<1>4. ASSUME j < m, i = n PROVE Q(i, j) = {}
  <2>1. (i - j) .. (n - m) = {}
    BY <1>2, <1>4
  <2> QED
    BY <1>1, <2>1
<1>5. ASSUME j < m, i < n, p[j + 1] = t[i + 1] PROVE Q(i, j) = Q(i + 1, j + 1)
  <2>1. (i + 1) - (j + 1) = i - j
    BY <1>2
  <2>2. ASSUME NEW q \in (i - j) .. (n - m), NEW k \in 1 .. m
        PROVE  at(i, j, q + k) = at(i + 1, j + 1, q + k)
    <3>1. q + k = i + 1 => (q + k) - (i - j) = j + 1 /\ ~(q + k <= i)
      BY <1>2
    <3>2. q + k # i + 1 => (q + k <= i <=> q + k <= i + 1)
      BY <1>2
    <3> QED
      BY <1>5, <2>1, <3>1, <3>2
  <2> HIDE DEF at
  <2>3. /\ Q(i, j) = {q \in (i - j) .. (n - m) : \A k \in 1 .. m : at(i, j, q + k) = p[k]}
        /\ Q(i + 1, j + 1) =
              {q \in (i - j) .. (n - m) : \A k \in 1 .. m : at(i + 1, j + 1, q + k) = p[k]}
    BY <1>1, <2>1
  <2>4. ASSUME NEW q \in (i - j) .. (n - m) PROVE q \in Q(i, j) <=> q \in Q(i + 1, j + 1)
    BY Zenon, <2>2, <2>3
  <2> QED
    BY Zenon, <2>3, <2>4
<1>6. ASSUME j < m, i < n, p[j + 1] # t[i + 1], j = 0 PROVE Q(i, j) = Q(i + 1, 0)
  <2>1. ASSUME NEW q \in i + 1 .. (n - m), NEW k \in 1 .. m
        PROVE  at(i, 0, q + k) = at(i + 1, 0, q + k)
    <3>1. ~(q + k <= i) /\ ~(q + k <= i + 1)
      BY <1>2
    <3> QED
      BY <3>1
  <2>2. at(i, 0, i + 1) # p[1] /\ 1 \in 1 .. m
    BY <1>2, <1>6
  <2> HIDE DEF at
  <2>3. i \notin Q(i, 0)
    BY <1>1, <2>2
  <2>4. Q(i, 0) = {q \in i .. (n - m) : \A k \in 1 .. m : at(i, 0, q + k) = p[k]}
    <3>1. i - 0 = i
      BY <1>2
    <3> QED
      BY <1>1, <3>1
  <2>5. Q(i + 1, 0) = {q \in i + 1 .. (n - m) : \A k \in 1 .. m : at(i + 1, 0, q + k) = p[k]}
    <3>1. (i + 1) - 0 = i + 1
      BY <1>2
    <3> QED
      BY <1>1, <3>1
  <2>6. \A q \in i .. (n - m) : q = i \/ q \in i + 1 .. (n - m)
    BY <1>2
  <2>7. \A q \in i + 1 .. (n - m) : q \in i .. (n - m)
    BY <1>2
  <2>8. \A q : q \in Q(i, 0) <=> q \in Q(i + 1, 0)
    BY <2>1, <2>3, <2>4, <2>5, <2>6, <2>7
  <2> QED
    BY <1>6, <2>8
<1>7. ASSUME j < m, i < n, p[j + 1] # t[i + 1], j # 0, NEW l, LongestBorder(p, j, l)
      PROVE  Q(i, j) = Q(i, l)
  <2>1. l \in 0 .. j - 1 /\ \A y \in 1 .. l : p[y] = p[j - l + y]
    BY <1>7 DEF LongestBorder, Border
  <2>2. ASSUME NEW q \in (i - l) .. (n - m), NEW k \in 1 .. m
        PROVE  at(i, j, q + k) = at(i, l, q + k)
    <3>1. CASE q + k <= i
      <4>1. (q + k) - (i - l) \in 1 .. l
        BY <1>2, <2>1, <3>1
      <4>2. j - l + ((q + k) - (i - l)) = (q + k) - (i - j)
        BY <1>2, <2>1
      <4>3. p[(q + k) - (i - l)] = p[(q + k) - (i - j)]
        BY <2>1, <4>1, <4>2
      <4> QED
        BY <3>1, <4>3
    <3>2. CASE ~(q + k <= i)
      BY <3>2
    <3> QED
      BY <3>1, <3>2
  <2>3. ASSUME NEW q \in Q(i, j), q < i - l PROVE FALSE
    <3>1. q \in (i - j) .. (n - m) /\ \A k \in 1 .. m : at(i, j, q + k) = p[k]
      BY <1>1
    <3> DEFINE b == i - q
    <3>2. b \in l + 1 .. j
      BY <1>2, <2>1, <2>3, <3>1
    <3>3. CASE b = j
      <4>1. j + 1 \in 1 .. m /\ q + (j + 1) = i + 1 /\ ~(i + 1 <= i)
        BY <1>2, <1>7, <3>1, <3>3
      <4>2. at(i, j, i + 1) = p[j + 1]
        <5> HIDE DEF at
        <5> QED
          BY <3>1, <4>1
      <4> QED
        BY <1>7, <4>1, <4>2
    <3>4. CASE b # j
      <4>1. ASSUME NEW y \in 1 .. b PROVE p[y] = p[j - b + y]
        <5>1. y \in 1 .. m /\ q + y <= i /\ (q + y) - (i - j) = j - b + y
          <6>1. q \in Int /\ y \in Int /\ y >= 1 /\ y <= i - q /\ i - q <= j
            BY <1>2, <2>1, <3>1, <3>2, <4>1
          <6> QED
            BY <1>2, <6>1
        <5>2. at(i, j, q + y) = p[y]
          <6> HIDE DEF at
          <6> QED
            BY <3>1, <5>1
        <5> QED
          BY <5>1, <5>2
      <4>2. Border(p, j, b)
        <5>1. b \in 0 .. j - 1
          BY <1>2, <2>1, <3>2, <3>4
        <5> HIDE DEF b
        <5> QED
          BY <4>1, <5>1 DEF Border
      <4>3. b <= l
        <5> HIDE DEF b
        <5> QED
          BY <1>7, <4>2 DEF LongestBorder
      <4> HIDE DEF b
      <4> QED
        BY <2>1, <3>2, <4>3
    <3> QED
      BY <3>3, <3>4
  <2> HIDE DEF at
  <2>4. \A q : q \in Q(i, j) <=> q \in (i - l) .. (n - m) /\ q \in Q(i, j)
    BY <1>1, <1>2, <2>1, <2>3
  <2>5. \A q \in (i - l) .. (n - m) : q \in (i - j) .. (n - m)
    BY <1>2, <2>1
  <2>6. ASSUME NEW q \in (i - l) .. (n - m) PROVE q \in Q(i, j) <=> q \in Q(i, l)
    <3>1. q \in Q(i, j) <=> \A k \in 1 .. m : at(i, j, q + k) = p[k]
      BY Zenon, <1>1, <2>5
    <3>2. q \in Q(i, l) <=> \A k \in 1 .. m : at(i, l, q + k) = p[k]
      BY Zenon, <1>1
    <3> QED
      BY Zenon, <2>2, <3>1, <3>2
  <2>7. \A q \in Q(i, l) : q \in (i - l) .. (n - m)
    BY <1>1
  <2> QED
    BY <2>4, <2>6, <2>7
<1>8. \A a, b : FirstPlace(p, t, a, b) = IF Q(a, b) = {} THEN NoValue ELSE Min(Q(a, b))
  BY DEF FirstPlace, Q
<1> HIDE DEF at
<1> QED
  BY <1>3, <1>4, <1>5, <1>6, <1>7, <1>8 DEF PlaceFollows

\* KMPSearch, with a name for its function.
IsSearch(p, t, lps, f) ==
    f = [at \in (0 .. Len(t)) \X (0 .. Len(p)) |->
            LET i == at[1]
                j == at[2]
            IN  IF j = Len(p) THEN i - j
                ELSE IF i = Len(t) THEN NoValue
                ELSE IF p[j + 1] = t[i + 1] THEN f[<<i + 1, j + 1>>]
                ELSE IF j = 0 THEN f[<<i + 1, 0>>]
                ELSE f[<<i, lps[j]>>]]

\* The search finds the first place.
LEMMA SearchFinds ==
    ASSUME NEW m \in Nat, NEW n \in Nat,
           NEW p, Len(p) = m, DOMAIN p = 1 .. m, NEW t, Len(t) = n
    PROVE  KMPSearch(p, t) = FirstPlace(p, t, 0, 0)
<1> DEFINE lps == computeLPSArray(p)
           D == (0 .. n) \X (0 .. m)
           S(i, j) == FirstPlace(p, t, i, j)
           step(f, i, j) == IF j = m THEN i - j
                            ELSE IF i = n THEN NoValue
                            ELSE IF p[j + 1] = t[i + 1] THEN f[<<i + 1, j + 1>>]
                            ELSE IF j = 0 THEN f[<<i + 1, 0>>]
                            ELSE f[<<i, lps[j]>>]
           g == [at \in D |-> S(at[1], at[2])]
           f == CHOOSE h : IsSearch(p, t, lps, h)
<1>1. \A i \in 1 .. m : LongestBorder(p, i, lps[i]) /\ lps[i] \in 0 .. i - 1
  <2>1. \A i \in 1 .. m : LongestBorder(p, i, lps[i])
    BY TableFinds
  <2> QED
    BY <2>1 DEF LongestBorder, Border
<1>2. KMPSearch(p, t) = f[<<0, 0>>]
  BY DEF KMPSearch, IsSearch
<1> HIDE DEF lps, S
<1>3. ASSUME NEW i \in 0 .. n, NEW j \in 0 .. m
      PROVE  /\ j = m => S(i, j) = i - j
             /\ j # m =>
                /\ i = n => S(i, j) = NoValue
                /\ i # n =>
                   /\ i + 1 \in 0 .. n
                   /\ p[j + 1] = t[i + 1] => S(i, j) = S(i + 1, j + 1) /\ j + 1 \in 0 .. m
                   /\ p[j + 1] # t[i + 1] =>
                      /\ j = 0 => S(i, j) = S(i + 1, 0)
                      /\ j # 0 => /\ S(i, j) = S(i, lps[j])
                                  /\ lps[j] \in 0 .. j - 1 /\ lps[j] \in 0 .. m
  <2>1. (i < n <=> i # n) /\ (j < m <=> j # m)
    OBVIOUS
  <2>2. (i # n => i + 1 \in 0 .. n) /\ (j # m => j + 1 \in 0 .. m)
    OBVIOUS
  <2>3. j # 0 => LongestBorder(p, j, lps[j]) /\ lps[j] \in 0 .. j - 1 /\ lps[j] \in 0 .. m
    BY <1>1
  <2>4. /\ j = m => S(i, j) = i - j
        /\ j < m =>
              /\ i = n => S(i, j) = NoValue
              /\ i < n /\ p[j + 1] = t[i + 1] => S(i, j) = S(i + 1, j + 1)
              /\ i < n /\ p[j + 1] # t[i + 1] =>
                    /\ j = 0 => S(i, j) = S(i + 1, 0)
                    /\ \A l : j # 0 /\ LongestBorder(p, j, l) => S(i, j) = S(i, l)
    <3>1. PlaceFollows(p, t, i, j)
      BY FirstSteps
    <3> QED
      BY <3>1 DEF PlaceFollows, S
  <2> QED
    BY <2>1, <2>2, <2>3, <2>4
<1>4. IsSearch(p, t, lps, g)
  <2>1. \A i \in 0 .. n, j \in 0 .. m : g[<<i, j>>] = S(i, j)
    OBVIOUS
  <2>2. g = [at \in D |-> g[at]]
    OBVIOUS
  <2> HIDE DEF g
  <2>3. ASSUME NEW i \in 0 .. n, NEW j \in 0 .. m PROVE g[<<i, j>>] = step(g, i, j)
    <3>1. g[<<i, j>>] = S(i, j)
      BY <2>1
    <3>2. CASE j = m
      BY <1>3, <3>1, <3>2
    <3>3. CASE j # m /\ i = n
      BY <1>3, <3>1, <3>3
    <3>4. CASE j # m /\ i # n /\ p[j + 1] = t[i + 1]
      <4>1. g[<<i + 1, j + 1>>] = S(i + 1, j + 1)
        BY <1>3, <2>1, <3>4
      <4> QED
        BY <1>3, <3>1, <3>4, <4>1
    <3>5. CASE j # m /\ i # n /\ p[j + 1] # t[i + 1] /\ j = 0
      <4>1. g[<<i + 1, 0>>] = S(i + 1, 0)
        BY <1>3, <2>1, <3>5
      <4> QED
        BY <1>3, <3>1, <3>5, <4>1
    <3>6. CASE j # m /\ i # n /\ p[j + 1] # t[i + 1] /\ j # 0
      <4>1. g[<<i, lps[j]>>] = S(i, lps[j])
        BY <1>3, <2>1, <3>6
      <4> QED
        BY <1>3, <3>1, <3>6, <4>1
    <3> QED
      BY <3>2, <3>3, <3>4, <3>5, <3>6
  <2> HIDE DEF step
  <2>4. \A at \in D : g[at] = step(g, at[1], at[2])
    BY <2>3
  <2> QED
    BY <2>2, <2>4 DEF IsSearch, step
<1>5. IsSearch(p, t, lps, f)
  <2> HIDE DEF g
  <2> QED
    BY <1>4
<1> HIDE DEF f
<1>6. \A i \in 0 .. n, j \in 0 .. m : f[<<i, j>>] = step(f, i, j)
  BY <1>5 DEF IsSearch
<1> DEFINE Bad(i, j) == f[<<i, j>>] # S(i, j)
           I == {r \in 0 .. n : \E j \in 0 .. m : Bad(n - r, j)}
<1>7. I = {}
  <2> SUFFICES ASSUME I # {} PROVE FALSE
    OBVIOUS
  <2>1. PICK r \in I : \A y \in I : r <= y
    <3>1. I \in SUBSET Nat
      OBVIOUS
    <3> HIDE DEF I
    <3> QED
      BY <3>1, Least
  <2> DEFINE i == n - r
             J == {j \in 0 .. m : Bad(i, j)}
  <2>2. r \in 0 .. n /\ J # {}
    BY <2>1
  <2>m. i \in 0 .. n
    BY <2>2
  <2>3. PICK j \in J : \A y \in J : j <= y
    <3>1. J \in SUBSET Nat
      OBVIOUS
    <3> HIDE DEF J
    <3> QED
      BY <2>2, <3>1, Least
  <2>4. j \in 0 .. m /\ Bad(i, j)
    OBVIOUS
  <2>5. ASSUME NEW k \in 0 .. m, i # n PROVE f[<<i + 1, k>>] = S(i + 1, k)
    <3>1. r - 1 \in 0 .. n /\ n - (r - 1) = i + 1 /\ ~(r <= r - 1)
      BY <2>2, <2>5
    <3>2. r - 1 \notin I
      <4> HIDE DEF I
      <4> QED
        BY <2>1, <3>1
    <3> QED
      BY <3>1, <3>2
  <2>6. ASSUME NEW k \in 0 .. m, k < j PROVE f[<<i, k>>] = S(i, k)
    <3>1. ~(j <= k)
      BY <2>4, <2>6
    <3>2. k \notin J
      <4> HIDE DEF J
      <4> QED
        BY <2>3, <3>1
    <3> QED
      BY <3>2
  <2> HIDE DEF I, J, i
  <2>7. f[<<i, j>>] = step(f, i, j)
    BY <1>6, <2>m, <2>4
  <2>8. step(f, i, j) = S(i, j)
    <3>2. CASE j = m \/ i = n
      BY <1>3, <2>m, <2>4, <3>2
    <3>4. CASE j # m /\ i # n /\ p[j + 1] = t[i + 1]
      <4>1. f[<<i + 1, j + 1>>] = S(i + 1, j + 1)
        BY <1>3, <2>m, <2>4, <2>5, <3>4
      <4> QED
        BY <1>3, <2>m, <2>4, <3>4, <4>1
    <3>5. CASE j # m /\ i # n /\ p[j + 1] # t[i + 1] /\ j = 0
      <4>1. f[<<i + 1, 0>>] = S(i + 1, 0)
        BY <2>5, <3>5
      <4> QED
        BY <1>3, <2>m, <2>4, <3>5, <4>1
    <3>6. CASE j # m /\ i # n /\ p[j + 1] # t[i + 1] /\ j # 0
      <4>1. lps[j] \in 0 .. j - 1 /\ lps[j] \in 0 .. m
        BY <1>3, <2>m, <2>4, <3>6
      <4>2. lps[j] < j
        BY <2>4, <4>1
      <4>3. f[<<i, lps[j]>>] = S(i, lps[j])
        BY <2>6, <4>1, <4>2
      <4> QED
        BY <1>3, <2>m, <2>4, <3>6, <4>3
    <3> QED
      BY <3>2, <3>4, <3>5, <3>6
  <2> QED
    BY <2>4, <2>7, <2>8
<1>8. ~Bad(0, 0)
  <2>1. n \in 0 .. n /\ n - n = 0
    OBVIOUS
  <2>2. n \notin I
    <3> HIDE DEF I
    <3> QED
      BY <1>7
  <2> HIDE DEF Bad
  <2> QED
    BY <2>1, <2>2
<1> QED
  BY <1>2, <1>8 DEF S

\* A text is the function of its tokens.
LEMMA TextFunction ==
    ASSUME NEW t, IsText(t)
    PROVE  t = [k \in 1 .. Len(t) |-> t[k]]
<1>1. t \in [1 .. Len(t) -> {t[k] : k \in DOMAIN t}]
  BY LenProperties DEF IsText
<1> QED
  BY <1>1

\* Part of a text.
LEMMA PartOf ==
    ASSUME NEW t, IsText(t), NEW i \in Nat, NEW m \in Nat, i + m <= Len(t)
    PROVE  LET u == SubSeq(t, i + 1, i + m)
           IN  IsText(u) /\ Len(u) = m /\ \A k \in 1 .. m : u[k] = t[i + k]
<1> DEFINE S == {t[k] : k \in DOMAIN t}
           u == SubSeq(t, i + 1, i + m)
<1>1. Len(t) \in Nat /\ DOMAIN t = 1 .. Len(t)
  BY TextProperties
<1>2. i + 1 \in Int /\ i + m \in Int /\ \A k \in i + 1 .. i + m : t[k] \in S
  BY <1>1
<1> HIDE DEF S, u
<1>3. /\ u \in Seq(S) /\ Len(u) = IF i + 1 <= i + m THEN (i + m) - (i + 1) + 1 ELSE 0
      /\ \A k \in 1 .. (i + m) - (i + 1) + 1 : u[k] = t[(i + 1) + k - 1]
  BY <1>2, SubSeqProperties DEF u
<1>4. /\ (i + m) - (i + 1) + 1 = m /\ (i + 1 <= i + m <=> m # 0)
      /\ \A k \in 1 .. m : (i + 1) + k - 1 = i + k
  OBVIOUS
<1>5. \A k \in 1 .. m : u[k] = t[i + k]
  BY <1>3, <1>4
<1> QED
  BY <1>3, <1>4, <1>5, TextOf DEF u

\* A text is found where its characters are, one by one.
LEMMA OccurrencesOf ==
    ASSUME NEW p, IsText(p), NEW t, IsText(t)
    PROVE  Occurrences(p, t) =
               {q \in 0 .. Len(t) - Len(p) : \A k \in 1 .. Len(p) : t[q + k] = p[k]}
<1>1. Len(p) \in Nat /\ Len(t) \in Nat
  BY TextProperties
<1>2. ASSUME NEW q \in 0 .. Len(t) - Len(p)
      PROVE  SubSeq(t, q + 1, q + Len(p)) = p <=> \A k \in 1 .. Len(p) : t[q + k] = p[k]
  <2> DEFINE u == SubSeq(t, q + 1, q + Len(p))
  <2>1. IsText(u) /\ Len(u) = Len(p) /\ \A k \in 1 .. Len(p) : u[k] = t[q + k]
    <3>1. q \in Nat /\ q + Len(p) <= Len(t)
      BY <1>1
    <3> QED
      BY <1>1, <3>1, PartOf
  <2>2. DOMAIN u = 1 .. Len(p)
    BY <2>1, TextProperties
  <2> HIDE DEF u
  <2>3. u = [k \in 1 .. Len(p) |-> u[k]]
    BY <2>1, <2>2, TextFunction
  <2>4. p = [k \in 1 .. Len(p) |-> p[k]]
    BY TextFunction
  <2>5. ASSUME \A k \in 1 .. Len(p) : t[q + k] = p[k] PROVE u = p
    <3>1. \A k \in 1 .. Len(p) : u[k] = p[k]
      BY <2>1, <2>5
    <3> QED
      BY <2>3, <2>4, <3>1
  <2>6. u = p => \A k \in 1 .. Len(p) : t[q + k] = p[k]
    BY <2>1
  <2> QED
    BY <2>5, <2>6 DEF u
<1> QED
  BY <1>2 DEF Occurrences

\* KMPSearch returns the first place of the pattern in the text, when there is one.
LEMMA KMPSearchFinds ==
    ASSUME NEW p, IsText(p), NEW t, IsText(t), Occurrences(p, t) # {}
    PROVE  KMPSearch(p, t) = Min(Occurrences(p, t))
<1>1. Len(p) \in Nat /\ Len(t) \in Nat /\ DOMAIN p = 1 .. Len(p)
  BY TextProperties
<1>2. Places(p, t, 0, 0) = Occurrences(p, t)
  <2>1. ASSUME NEW q \in 0 .. Len(t) - Len(p), NEW k \in 1 .. Len(p) PROVE ~(q + k <= 0)
    BY <1>1
  <2>2. Places(p, t, 0, 0) =
            {q \in 0 .. Len(t) - Len(p) : \A k \in 1 .. Len(p) : t[q + k] = p[k]}
    <3>1. 0 - 0 = 0
      OBVIOUS
    <3> QED
      BY <2>1, <3>1 DEF Places
  <2> QED
    BY <2>2, OccurrencesOf
<1>3. KMPSearch(p, t) = FirstPlace(p, t, 0, 0)
  BY <1>1, SearchFinds
<1> QED
  BY <1>2, <1>3 DEF FirstPlace

\* A reversed text is a text of the same length, with its characters from the end.
LEMMA ReversedText ==
    ASSUME NEW t, IsText(t)
    PROVE  /\ IsText(Reverse(t)) /\ Len(Reverse(t)) = Len(t)
           /\ \A i \in 1 .. Len(t) : Reverse(t)[i] = t[(Len(t) - i) + 1]
<1>1. Len(t) \in Nat
  BY TextProperties
<1>2. /\ Reverse(t) = [i \in 1 .. Len(t) |-> Reverse(t)[i]]
      /\ \A i \in 1 .. Len(t) : Reverse(t)[i] = t[(Len(t) - i) + 1]
  BY DEF Reverse
<1> QED
  BY <1>1, <1>2, TextFrom

\* The places of the reversed pattern in the reversed text are the mirrored places.
LEMMA ReversedOccurrences ==
    ASSUME NEW p, IsText(p), NEW t, IsText(t)
    PROVE  \A q \in Int : q \in Occurrences(Reverse(p), Reverse(t))
                          <=> (Len(t) - Len(p)) - q \in Occurrences(p, t)
<1> DEFINE rp == Reverse(p)
           rt == Reverse(t)
<1>1. /\ Len(p) \in Nat /\ Len(t) \in Nat
      /\ IsText(rp) /\ IsText(rt) /\ Len(rp) = Len(p) /\ Len(rt) = Len(t)
      /\ \A i \in 1 .. Len(p) : rp[i] = p[(Len(p) - i) + 1]
      /\ \A i \in 1 .. Len(t) : rt[i] = t[(Len(t) - i) + 1]
  BY TextProperties, ReversedText
<1> HIDE DEF rp, rt
<1> SUFFICES ASSUME NEW q \in Int
             PROVE  q \in Occurrences(rp, rt) <=> (Len(t) - Len(p)) - q \in Occurrences(p, t)
  BY DEF rp, rt
<1> DEFINE m == Len(p)
           n == Len(t)
           o == (n - m) - q
<1>2. /\ q \in Occurrences(rp, rt) <=>
            q \in 0 .. n - m /\ \A k \in 1 .. m : rt[q + k] = rp[k]
      /\ o \in Occurrences(p, t) <=>
            o \in 0 .. n - m /\ \A k \in 1 .. m : t[o + k] = p[k]
  <2>1. Occurrences(rp, rt) =
            {x \in 0 .. Len(rt) - Len(rp) : \A k \in 1 .. Len(rp) : rt[x + k] = rp[k]}
    BY <1>1, OccurrencesOf
  <2>2. Occurrences(p, t) = {x \in 0 .. Len(t) - Len(p) : \A k \in 1 .. Len(p) : t[x + k] = p[k]}
    BY OccurrencesOf
  <2> QED
    BY <1>1, <2>1, <2>2
<1>3. q \in 0 .. n - m <=> o \in 0 .. n - m
  BY <1>1
<1>4. ASSUME q \in 0 .. n - m, NEW k \in 1 .. m
      PROVE  /\ (m - k) + 1 \in 1 .. m
             /\ rp[k] = p[(m - k) + 1] /\ rt[q + k] = t[o + ((m - k) + 1)]
  <2>1. q + k \in 1 .. n /\ (n - (q + k)) + 1 = o + ((m - k) + 1) /\ (m - k) + 1 \in 1 .. m
    BY <1>1, <1>4
  <2> HIDE DEF o
  <2> QED
    BY <1>1, <2>1
<1>5. \A k \in 1 .. m : (m - ((m - k) + 1)) + 1 = k /\ (m - k) + 1 \in 1 .. m
  BY <1>1
<1> HIDE DEF o, n, m
<1>6. ASSUME q \in 0 .. n - m
      PROVE  (\A k \in 1 .. m : rt[q + k] = rp[k]) <=> (\A k \in 1 .. m : t[o + k] = p[k])
  <2>1. ASSUME \A k \in 1 .. m : rt[q + k] = rp[k], NEW k \in 1 .. m PROVE t[o + k] = p[k]
    <3> DEFINE j == (m - k) + 1
    <3>1. j \in 1 .. m /\ (m - j) + 1 = k
      BY <1>5
    <3> HIDE DEF j
    <3> QED
      BY <1>4, <1>6, <2>1, <3>1
  <2>2. ASSUME \A k \in 1 .. m : t[o + k] = p[k], NEW k \in 1 .. m PROVE rt[q + k] = rp[k]
    BY <1>4, <1>6, <2>2
  <2> QED
    BY <2>1, <2>2
<1> QED
  BY <1>2, <1>3, <1>6 DEF o, n, m

\* find and rfind return the first and the last place for any two texts.
LEMMA ExactSearch ==
    ASSUME NEW p, IsText(p), NEW t, IsText(t)
    PROVE  SearchIsExactFor(t, p)
<1> DEFINE m == Len(p)
           n == Len(t)
           places == Occurrences(p, t)
           mirrored == Occurrences(Reverse(p), Reverse(t))
<1>1. CASE places = {}
  BY <1>1 DEF SearchIsExactFor, find, rfind
<1>2. CASE places # {}
  <2>1. m \in Nat /\ n \in Nat
    BY TextProperties
  <2>2. /\ places \in SUBSET (0 .. n - m)
        /\ mirrored \in SUBSET Int
        /\ \A q \in Int : q \in mirrored <=> (n - m) - q \in places
    <3>1. mirrored \in SUBSET Int
      BY <2>1, ReversedText DEF Occurrences
    <3> QED
      BY <3>1, ReversedOccurrences DEF Occurrences
  <2> HIDE DEF places, mirrored
  <2>3. n - m \in Nat
    <3>1. PICK q \in places : q \in 0 .. n - m
      BY <1>2, <2>2
    <3> HIDE DEF m, n
    <3> QED
      BY <2>1, <3>1
  <2>4. Max(places) \in places /\ \A y \in places : y <= Max(places)
    BY <1>2, <2>2, <2>3, Greatest
  <2>5. mirrored # {} /\ \A y \in mirrored : y >= 0
    <3>1. PICK q \in places : TRUE
      BY <1>2
    <3>2. (n - m) - q \in Int /\ (n - m) - ((n - m) - q) = q
      BY <2>2, <2>3, <3>1
    <3>3. (n - m) - q \in mirrored
      BY <2>2, <3>1, <3>2
    <3>4. ASSUME NEW y \in mirrored PROVE y >= 0
      <4>1. y \in Int /\ (n - m) - y \in 0 .. n - m
        BY <2>2
      <4> QED
        BY <2>3, <4>1
    <3> QED
      BY <3>3, <3>4
  <2>6. Min(mirrored) \in mirrored /\ \A y \in mirrored : Min(mirrored) <= y
    <3>1. 0 \in Int
      OBVIOUS
    <3> QED
      BY <2>2, <2>5, <3>1, LeastFrom
  <2>7. (n - m) - Min(mirrored) = Max(places)
    <3> PICK x : x = Min(mirrored)
      OBVIOUS
    <3> PICK z : z = Max(places)
      OBVIOUS
    <3>1. x \in Int /\ z \in 0 .. n - m /\ (n - m) - x \in places /\ (n - m) - x <= z
      BY <2>2, <2>4, <2>6
    <3>2. (n - m) - z \in Int /\ (n - m) - ((n - m) - z) = z
      BY <2>3, <3>1
    <3>3. (n - m) - z \in mirrored
      BY <2>2, <2>4, <3>2
    <3>4. x <= (n - m) - z
      BY <2>6, <3>3
    <3>5. (n - m) - x = z
      BY <2>3, <3>1, <3>4
    <3> QED
      BY <3>5
  <2>8. KMPSearch(p, t) = Min(places)
    BY <1>2, KMPSearchFinds DEF places
  <2>9. KMPSearch(Reverse(p), Reverse(t)) = Min(mirrored)
    BY <2>5, KMPSearchFinds, ReversedText DEF mirrored
  <2>10. n - (Min(mirrored) + m) = (n - m) - Min(mirrored)
    <3> PICK x : x = Min(mirrored)
      OBVIOUS
    <3>1. x \in Int
      BY <2>2, <2>6
    <3>2. n - (x + m) = (n - m) - x
      BY <2>1, <3>1
    <3> QED
      BY <3>2
  <2> QED
    BY <1>2, <2>7, <2>8, <2>9, <2>10 DEF SearchIsExactFor, find, rfind, places
<1> QED
  BY <1>1, <1>2

-----------------------------------------------------------------------------
(* The parts of a text. *)

Starts(t, separator) ==
    {i \in DOMAIN t : t[i] # separator /\ (i = 1 \/ t[i - 1] = separator)}
StartOf(t, separator, n) ==
    CHOOSE i \in Starts(t, separator) : Cardinality({j \in Starts(t, separator) : j <= i}) = n
EndOf(t, separator, i) == Max({j \in i .. Len(t) : \A k \in i .. j : t[k] # separator})

\* The number of elements up to an element tells which one it is.
LEMMA Numbered ==
    ASSUME NEW S, IsFiniteSet(S), S \in SUBSET Nat, NEW a \in S
    PROVE  (CHOOSE i \in S : Cardinality({j \in S : j <= i}) = Cardinality({j \in S : j <= a})) = a
<1> DEFINE U(i) == {j \in S : j <= i}
<1>1. ASSUME NEW i \in S, NEW k \in S, i < k PROVE Cardinality(U(i)) # Cardinality(U(k))
  <2>1. U(k) \in SUBSET S /\ k \in U(k) /\ k \notin U(i)
    BY <1>1
  <2>2. ASSUME NEW j \in U(i) PROVE j \in U(k)
    <3>1. j \in Nat /\ i \in Nat /\ k \in Nat /\ j \in S /\ j <= i
      BY <1>1, <2>2
    <3> QED
      BY <1>1, <3>1
  <2> HIDE DEF U
  <2>3. U(i) \in SUBSET U(k)
    BY <2>2
  <2>4. IsFiniteSet(U(k))
    BY <2>1, FS_Subset
  <2>5. U(i) # U(k)
    BY <2>1
  <2> QED
    BY <2>3, <2>4, <2>5, FS_Subset
<1>2. \A i \in S : i # a => i < a \/ a < i
  OBVIOUS
<1>3. \A i \in S : Cardinality(U(i)) = Cardinality(U(a)) <=> i = a
  <2> HIDE DEF U
  <2> QED
    BY <1>1, <1>2
<1> QED
  BY <1>3

\* There are finitely many starts of parts.
LEMMA StartsFinite ==
    ASSUME NEW t, IsText(t), NEW separator
    PROVE  /\ Starts(t, separator) \in SUBSET (1 .. Len(t))
           /\ IsFiniteSet(Starts(t, separator))
           /\ Cardinality(Starts(t, separator)) \in Nat
<1>1. Len(t) \in Nat /\ DOMAIN t = 1 .. Len(t)
  BY TextProperties
<1>2. Starts(t, separator) \in SUBSET (1 .. Len(t))
  BY <1>1 DEF Starts
<1>3. IsFiniteSet(1 .. Len(t))
  BY <1>1, FS_Interval
<1> QED
  BY <1>2, <1>3, FS_Subset, FS_CardinalityType

\* A part ends before the next separator.
LEMMA PartEnds ==
    ASSUME NEW t, IsText(t), NEW separator, NEW i \in 1 .. Len(t), t[i] # separator
    PROVE  LET e == EndOf(t, separator, i)
           IN  /\ e \in i .. Len(t)
               /\ \A k \in i .. e : t[k] # separator
               /\ e < Len(t) => t[e + 1] = separator
<1> DEFINE I == {j \in i .. Len(t) : \A k \in i .. j : t[k] # separator}
<1>1. Len(t) \in Nat
  BY TextProperties
<1>2. i \in I /\ I \in SUBSET (0 .. Len(t))
  BY <1>1
<1>3. Max(I) \in I /\ \A y \in I : y <= Max(I)
  <2> HIDE DEF I
  <2> QED
    BY <1>1, <1>2, Greatest
<1>4. PICK e : e = Max(I)
  OBVIOUS
<1>5. e \in i .. Len(t) /\ \A k \in i .. e : t[k] # separator
  BY <1>3, <1>4
<1>6. ASSUME e < Len(t), t[e + 1] # separator PROVE FALSE
  <2>1. e + 1 \in i .. Len(t) /\ \A k \in i .. e + 1 : k \in i .. e \/ k = e + 1
    BY <1>1, <1>5, <1>6
  <2>2. e + 1 \in I
    BY <1>5, <1>6, <2>1
  <2>3. e + 1 <= e
    <3> HIDE DEF I
    <3> QED
      BY <1>3, <1>4, <2>2
  <2> QED
    BY <1>5, <2>3
<1>7. EndOf(t, separator, i) = e
  BY <1>4 DEF EndOf
<1> QED
  BY <1>5, <1>6, <1>7

\* The parts of a text are as many as their starts.
LEMMA SplitParts ==
    ASSUME NEW t, IsText(t), NEW separator
    PROVE  /\ split(t, separator) =
                  [n \in 1 .. Cardinality(Starts(t, separator)) |->
                      SubSeq(t, StartOf(t, separator, n), EndOf(t, separator, StartOf(t, separator, n)))]
           /\ IsText(split(t, separator))
           /\ Len(split(t, separator)) = Cardinality(Starts(t, separator))
<1> DEFINE m == Cardinality(Starts(t, separator))
           parts == [n \in 1 .. m |->
                        SubSeq(t, StartOf(t, separator, n), EndOf(t, separator, StartOf(t, separator, n)))]
<1>1. m \in Nat
  BY StartsFinite
<1>2. split(t, separator) = parts
  BY DEF split, Starts, StartOf, EndOf
<1> HIDE DEF m
<1>3. parts = [n \in 1 .. m |-> parts[n]]
  OBVIOUS
<1>4. IsText(parts) /\ Len(parts) = m
  <2> HIDE DEF parts
  <2> QED
    BY <1>1, <1>3, TextFrom
<1> QED
  BY <1>2, <1>4 DEF m

\* What a text starts with is its first part.
LEMMA FirstPart ==
    ASSUME NEW t, IsText(t), NEW separator, t # <<>>, t[1] # separator
    PROVE  \E e \in 1 .. Len(t) :
               /\ Len(split(t, separator)) \in Nat \ {0}
               /\ split(t, separator)[1] = SubSeq(t, 1, e)
               /\ \A k \in 1 .. e : t[k] # separator
               /\ e < Len(t) => t[e + 1] = separator
<1> DEFINE S == Starts(t, separator)
<1>1. Len(t) \in Nat /\ DOMAIN t = 1 .. Len(t) /\ 1 \in 1 .. Len(t)
  BY TextProperties
<1>2. 1 \in S /\ S \in SUBSET (1 .. Len(t)) /\ IsFiniteSet(S) /\ Cardinality(S) \in Nat
  BY <1>1, StartsFinite DEF Starts
<1>3. {j \in S : j <= 1} = {1} /\ S \in SUBSET Nat
  BY <1>1, <1>2
<1> HIDE DEF S
<1>4. Cardinality({j \in S : j <= 1}) = 1
  BY <1>3, FS_Singleton
<1>5. (CHOOSE i \in S : Cardinality({j \in S : j <= i}) = 1) = 1
  BY <1>2, <1>3, <1>4, Numbered
<1>6. StartOf(t, separator, 1) = 1
  BY <1>5 DEF StartOf, S
<1>7. Cardinality(S) \in Nat \ {0}
  BY <1>2, FS_EmptySet
<1>8. PICK e : e = EndOf(t, separator, 1)
  OBVIOUS
<1>9. /\ e \in 1 .. Len(t)
      /\ \A k \in 1 .. e : t[k] # separator
      /\ e < Len(t) => t[e + 1] = separator
  BY <1>1, <1>8, PartEnds
<1>10. split(t, separator)[1] = SubSeq(t, 1, e) /\ Len(split(t, separator)) \in Nat \ {0}
  <2>1. 1 \in 1 .. Cardinality(Starts(t, separator))
    BY <1>7 DEF S
  <2> QED
    BY <1>6, <1>7, <1>8, <2>1, SplitParts DEF S
<1> QED
  BY <1>9, <1>10

\* Behind the only separator is the second part, if anything is.
LEMMA SecondPart ==
    ASSUME NEW t, IsText(t), NEW separator, Len(t) >= 2, t[1] # separator, t[2] = separator,
           \A k \in 3 .. Len(t) : t[k] # separator
    PROVE  /\ Len(split(t, separator)) = IF Len(t) > 2 THEN 2 ELSE 1
           /\ Len(t) > 2 => split(t, separator)[2] = SubSeq(t, 3, Len(t))
<1> DEFINE S == Starts(t, separator)
<1>1. Len(t) \in Nat /\ DOMAIN t = 1 .. Len(t)
  BY TextProperties
<1>2. S = IF Len(t) > 2 THEN {1} \cup {3} ELSE {1}
  BY <1>1 DEF Starts
<1>3. /\ IsFiniteSet({1}) /\ Cardinality({1}) = 1
      /\ IsFiniteSet({1} \cup {3}) /\ Cardinality({1} \cup {3}) = 2
  <2>1. IsFiniteSet({1}) /\ Cardinality({1}) = 1
    BY Zenon, FS_Singleton
  <2>3. 3 \notin {1}
    OBVIOUS
  <2>2. IsFiniteSet({1} \cup {3}) /\ Cardinality({1} \cup {3}) = Cardinality({1}) + 1
    BY <2>1, <2>3, FS_AddElement
  <2> QED
    BY <2>1, <2>2
<1>4. Len(split(t, separator)) = Cardinality(S)
  BY SplitParts
<1> HIDE DEF S
<1>5. ASSUME Len(t) > 2 PROVE split(t, separator)[2] = SubSeq(t, 3, Len(t))
  <2>1. S = {1} \cup {3} /\ S \in SUBSET Nat /\ 3 \in S /\ IsFiniteSet(S)
    <3>1. S = {1} \cup {3}
      BY Zenon, <1>2, <1>5
    <3>2. IsFiniteSet(S)
      BY Zenon, <1>3, <3>1
    <3>3. S \in SUBSET Nat /\ 3 \in S
      BY <3>1
    <3> QED
      BY <3>1, <3>2, <3>3
  <2>8. Cardinality({j \in S : j <= 3}) = 2
    <3>1. {j \in {1} \cup {3} : j <= 3} = {1} \cup {3}
      OBVIOUS
    <3> QED
      BY <1>3, <2>1, <3>1
  <2>2. (CHOOSE i \in S : Cardinality({j \in S : j <= i}) = 2) = 3
    BY <2>1, <2>8, Numbered
  <2>3. StartOf(t, separator, 2) = 3
    BY <2>2 DEF StartOf, S
  <2>4. PICK e : e = EndOf(t, separator, 3)
    OBVIOUS
  <2>5. e \in 3 .. Len(t) /\ (e < Len(t) => t[e + 1] = separator)
    <3>1. 3 \in 1 .. Len(t) /\ 3 \in 3 .. Len(t)
      BY <1>1, <1>5
    <3> QED
      BY <2>4, <3>1, PartEnds
  <2>6. e = Len(t)
    <3>1. ASSUME e < Len(t) PROVE FALSE
      <4>1. e + 1 \in 3 .. Len(t)
        BY <1>1, <2>5, <3>1
      <4> QED
        BY <2>5, <3>1, <4>1
    <3>2. ~(e < Len(t))
      BY <3>1
    <3>3. e \in Int /\ e <= Len(t)
      BY <1>1, <2>5
    <3>4. \A x, y \in Int : x <= y /\ ~(x < y) => x = y
      OBVIOUS
    <3>5. Len(t) \in Int
      BY <1>1
    <3> QED
      BY Zenon, <3>2, <3>3, <3>4, <3>5
  <2>7. 2 \in 1 .. Cardinality(Starts(t, separator))
    <3>1. Cardinality(Starts(t, separator)) = 2
      BY <1>3, <2>1 DEF S
    <3> QED
      BY <3>1
  <2>9. EndOf(t, separator, StartOf(t, separator, 2)) = Len(t)
    BY <2>3, <2>4, <2>6
  <2>10. split(t, separator)[2] =
            SubSeq(t, StartOf(t, separator, 2), EndOf(t, separator, StartOf(t, separator, 2)))
    BY <2>7, SplitParts
  <2> QED
    BY Zenon, <2>3, <2>9, <2>10
<1> QED
  BY <1>2, <1>3, <1>4, <1>5

\* The beginning of a text.
LEMMA BeginningOf ==
    ASSUME NEW t, IsText(t), NEW m \in Nat, m <= Len(t)
    PROVE  /\ IsText(SubSeq(t, 1, m)) /\ Len(SubSeq(t, 1, m)) = m
           /\ \A k \in 1 .. m : SubSeq(t, 1, m)[k] = t[k]
<1>1. 0 \in Nat /\ 0 + m <= Len(t) /\ 0 + 1 = 1 /\ 0 + m = m /\ \A k \in 1 .. m : 0 + k = k
  BY TextProperties
<1>2. /\ IsText(SubSeq(t, 0 + 1, 0 + m)) /\ Len(SubSeq(t, 0 + 1, 0 + m)) = m
      /\ \A k \in 1 .. m : SubSeq(t, 0 + 1, 0 + m)[k] = t[0 + k]
  BY Zenon, <1>1, PartOf
<1>3. SubSeq(t, 0 + 1, 0 + m) = SubSeq(t, 1, m)
  BY <1>1
<1> QED
  BY Zenon, <1>1, <1>2, <1>3

\* A text is a prefix where its characters are, one by one.
LEMMA PrefixOf ==
    ASSUME NEW u, IsText(u), NEW t, IsText(t), Len(u) <= Len(t)
    PROVE  startswith(u, t) <=> \A k \in 1 .. Len(u) : t[k] = u[k]
<1> DEFINE m == Len(u)
           a == SubSeq(u, 1, m)
           b == SubSeq(t, 1, m)
<1>1. m \in Nat /\ Len(t) \in Nat
  BY TextProperties
<1>2. startswith(u, t) <=> a = b
  BY DEF startswith, IsPrefix
<1>3. /\ IsText(a) /\ Len(a) = m /\ \A k \in 1 .. m : a[k] = u[k]
      /\ IsText(b) /\ Len(b) = m /\ \A k \in 1 .. m : b[k] = t[k]
  <2>1. m <= Len(u) /\ m <= Len(t)
    BY <1>1
  <2> HIDE DEF m
  <2> QED
    BY <1>1, <2>1, BeginningOf
<1> HIDE DEF m, a, b
<1>4. a = [k \in 1 .. m |-> a[k]] /\ b = [k \in 1 .. m |-> b[k]]
  BY <1>3, TextFunction
<1>5. a = b <=> \A k \in 1 .. m : a[k] = b[k]
  BY <1>4
<1>6. a = b <=> \A k \in 1 .. m : t[k] = u[k]
  BY <1>3, <1>5
<1> QED
  BY <1>2, <1>6 DEF m

\* What two texts joined begin with.
LEMMA JoinedFirst ==
    ASSUME NEW t, NEW u, IsText(t), IsText(u)
    PROVE  \A i \in 1 .. Len(t) : (t \o u)[i] = t[i]
<1> DEFINE S == {t[i] : i \in DOMAIN t} \cup {u[i] : i \in DOMAIN u}
<1>1. t \in Seq(S) /\ u \in Seq(S)
  <2>1. /\ {t[i] : i \in DOMAIN t} \subseteq S /\ {u[i] : i \in DOMAIN u} \subseteq S
        /\ t \in Seq({t[i] : i \in DOMAIN t}) /\ u \in Seq({u[i] : i \in DOMAIN u})
    BY DEF IsText
  <2> HIDE DEF S
  <2> QED
    BY <2>1, SeqMonotonic
<1> HIDE DEF S
<1>2. \A i \in 1 .. Len(t) + Len(u) :
         (t \o u)[i] = IF i <= Len(t) THEN t[i] ELSE u[i - Len(t)]
  BY <1>1, ConcatProperties
<1>3. Len(t) \in Nat /\ Len(u) \in Nat
  BY TextProperties
<1>4. \A i \in 1 .. Len(t) : i \in 1 .. Len(t) + Len(u) /\ i <= Len(t)
  BY <1>3
<1> QED
  BY <1>2, <1>4

\* What a text of a first token and a text is made of.
LEMMA PushedText ==
    ASSUME NEW a, NEW u, IsText(u)
    PROVE  /\ IsText(<<a>> \o u) /\ Len(<<a>> \o u) = Len(u) + 1
           /\ Head(<<a>> \o u) = a /\ Tail(<<a>> \o u) = u
           /\ u # <<>> => Last(<<a>> \o u) = u[Len(u)]
<1> DEFINE h == <<a>> \o u
           S == {a} \cup {u[i] : i \in DOMAIN u}
<1>1. Len(u) \in Nat /\ DOMAIN u = 1 .. Len(u)
  BY TextProperties
<1>2. IsText(h) /\ Len(h) = Len(u) + 1 /\ \A i \in 1 .. Len(u) : h[1 + i] = u[i]
  BY <1>1, Tuples, JoinedText
<1>3. <<a>> \in Seq(S) /\ u \in Seq(S)
  <2>1. u \in Seq({u[i] : i \in DOMAIN u}) /\ {u[i] : i \in DOMAIN u} \subseteq S
    BY DEF IsText
  <2>2. a \in S
    OBVIOUS
  <2> HIDE DEF S
  <2> QED
    BY <2>1, <2>2, SeqMonotonic
<1>4. h \in Seq(S) /\ h[1] = a
  <2>1. Len(<<a>>) = 1 /\ <<a>>[1] = a
    BY Tuples
  <2> HIDE DEF S
  <2> QED
    BY <1>1, <1>3, <2>1, ConcatProperties
<1>5. h # <<>>
  BY <1>1, <1>2, TextProperties
<1>6. /\ Head(h) = h[1] /\ Tail(h) \in Seq(S) /\ Len(Tail(h)) = Len(h) - 1
      /\ \A i \in 1 .. Len(Tail(h)) : Tail(h)[i] = h[i + 1]
  <2> HIDE DEF S, h
  <2> QED
    BY <1>4, <1>5, HeadTailProperties
<1> HIDE DEF h, S
<1>7. IsText(Tail(h)) /\ Len(Tail(h)) = Len(u) /\ \A i \in 1 .. Len(u) : Tail(h)[i] = u[i]
  <2>1. \A i \in 1 .. Len(u) : i + 1 = 1 + i
    OBVIOUS
  <2>2. Len(Tail(h)) = Len(u)
    BY <1>1, <1>2, <1>6
  <2>3. \A i \in 1 .. Len(u) : Tail(h)[i] = u[i]
    BY <1>2, <1>6, <2>1, <2>2
  <2> QED
    BY <1>6, <2>2, <2>3, TextOf
<1>8. Tail(h) = u
  <2>1. /\ Tail(h) = [i \in 1 .. Len(u) |-> Tail(h)[i]]
        /\ u = [i \in 1 .. Len(u) |-> u[i]]
    BY <1>7, TextFunction
  <2> QED
    BY <1>7, <2>1
<1>9. u # <<>> => Last(h) = u[Len(u)]
  <2>1. u # <<>> => Len(u) \in 1 .. Len(u)
    BY <1>1, TextProperties
  <2>2. Last(h) = h[1 + Len(u)]
    <3>1. Len(u) + 1 = 1 + Len(u)
      BY <1>1
    <3> QED
      BY <1>2, <3>1 DEF Last
  <2> QED
    BY <1>2, <2>1, <2>2
<1> QED
  BY <1>2, <1>4, <1>6, <1>8, <1>9 DEF h

\* The last place of a character.
LEMMA LastPlace ==
    ASSUME NEW t, IsText(t), NEW c, NEW f, f = rfind(t, <<c>>), f # -1
    PROVE  f \in Nat /\ f < Len(t) /\ t[f + 1] = c /\ \A i \in f + 2 .. Len(t) : t[i] # c
<1>1. PICK u : u = <<c>>
  OBVIOUS
<1>2. IsText(u) /\ Len(u) = 1 /\ u[1] = c
  BY <1>1, Tuples
<1>3. PICK n \in Nat : n = Len(t)
  BY TextProperties
<1>4. PICK places : places = Occurrences(u, t)
  OBVIOUS
<1>5. places = {q \in 0 .. n - 1 : t[q + 1] = c}
  <2>1. places = {q \in 0 .. Len(t) - Len(u) : \A k \in 1 .. Len(u) : t[q + k] = u[k]}
    BY <1>2, <1>4, OccurrencesOf
  <2>2. \A q : (\A k \in 1 .. 1 : t[q + k] = u[k]) <=> t[q + 1] = c
    BY <1>2
  <2> QED
    BY <1>2, <1>3, <2>1, <2>2
<1>6. f = rfind(t, u) /\ f # -1
  BY <1>1
<1>7. places # {} /\ f = Max(places)
  <2>1. f = IF places = {} THEN -1 ELSE Max(places)
    BY <1>2, <1>4, <1>6, ExactSearch DEF SearchIsExactFor
  <2> QED
    BY <1>6, <2>1
<1>8. f \in places /\ \A q \in places : q <= f
  <2>1. n - 1 \in Nat /\ places \in SUBSET (0 .. n - 1)
    <3>1. PICK q \in places : q \in 0 .. n - 1
      BY <1>5, <1>7
    <3> QED
      BY <1>3, <1>5, <3>1
  <2> QED
    BY <1>7, <2>1, Greatest
<1>9. f \in 0 .. n - 1 /\ t[f + 1] = c
  BY <1>5, <1>8
<1>10. ASSUME NEW i \in f + 2 .. n, t[i] = c PROVE FALSE
  <2>1. i - 1 \in 0 .. n - 1 /\ (i - 1) + 1 = i
    BY <1>3, <1>9
  <2>2. i - 1 \in places
    BY <1>5, <1>10, <2>1
  <2>3. i - 1 <= f
    BY <1>8, <2>2
  <2> QED
    BY <1>3, <1>9, <2>3
<1>11. f \in Nat /\ f < n /\ t[f + 1] = c /\ \A i \in f + 2 .. n : t[i] # c
  BY <1>3, <1>9, <1>10
<1> QED
  BY <1>3, <1>11

\* What a text that begins with three of a character begins with.
LEMMA Triple ==
    ASSUME NEW a, NEW t, IsText(t), startswith(<<a, a, a>>, t)
    PROVE  Len(t) >= 3 /\ t[1] = a /\ t[2] = a /\ t[3] = a
<1>1. PICK u : u = <<a, a, a>>
  OBVIOUS
<1>2. IsText(u) /\ Len(u) = 3 /\ u[1] = a /\ u[2] = a /\ u[3] = a
  <2>1. <<a, a, a>> \in Seq({a})
    OBVIOUS
  <2>2. IsText(<<a, a, a>>)
    BY <2>1, TextOf
  <2> QED
    BY <1>1, <2>2
<1>3. startswith(u, t) /\ Len(u) <= Len(t)
  BY <1>1 DEF startswith, IsPrefix
<1>4. \A k \in 1 .. 3 : t[k] = u[k]
  <2>1. \A k \in 1 .. Len(u) : t[k] = u[k]
    BY <1>2, <1>3, PrefixOf
  <2> QED
    BY <1>2, <2>1
<1> QED
  BY <1>2, <1>3, <1>4

-----------------------------------------------------------------------------
(* A pattern whose scheme is its first part. *)

\* A pattern does not begin with a ":", and a file's name has no more of them.
HasScheme(pattern) ==
    /\ (\E i \in DOMAIN pattern : pattern[i] # ":") => pattern[1] # ":"
    /\ startswith(<<"drv", ":">>, pattern) => \A i \in 3 .. Len(pattern) : pattern[i] # ":"

\* What a hint is, from the parts of the name.
LEMMA HintCases ==
    ASSUME NEW t
    PROVE  LET pieces == split(t, ":")
               drv == slice(pieces[2], 3)
               f == rfind(drv, <<"/">>)
               plain == pieces[1] # <<"drv">> \/ Len(pieces) = 1
               local == startswith(<<"/", "/", "/">>, pieces[2]) /\ f # -1
           IN  /\ pieces = <<>> => add_ppd_name(t) = NULL
               /\ pieces # <<>> /\ plain => add_ppd_name(t) = <<"driver">> \o pieces[1]
               /\ pieces # <<>> /\ ~plain /\ local =>
                     add_ppd_name(t) = <<"drv">> \o SubSeq(drv, 1, f + 1)
               /\ pieces # <<>> /\ ~plain /\ ~local => add_ppd_name(t) = Unset
BY Zenon DEF add_ppd_name

\* The hint at a file's directory: all up to the last "/".
LEMMA DirectoryHint ==
    ASSUME NEW t, IsText(t), NEW rest, IsText(rest),
           Len(t) > 2, t[1] = "drv", t[2] = ":", rest = SubSeq(t, 3, Len(t)),
           startswith(<<"/", "/", "/">>, rest), rfind(slice(rest, 3), <<"/">>) # -1
    PROVE  LET drv == slice(rest, 3)
           IN  IsHintOf(<<"drv">> \o SubSeq(drv, 1, rfind(drv, <<"/">>) + 1), t)
<1>1. PICK n \in Nat : n = Len(t) /\ n > 2
  BY TextProperties
<1>2. Len(rest) = n - 2 /\ \A k \in 1 .. n - 2 : rest[k] = t[2 + k]
  <2>0. n - 2 \in Nat
    BY <1>1
  <2>1. PICK m \in Nat : m = n - 2
    BY <2>0
  <2>2. 2 \in Nat /\ 2 + m <= Len(t)
    BY <1>1, <2>1
  <2>3. rest = SubSeq(t, 2 + 1, 2 + m)
    BY <1>1, <2>1
  <2>4. /\ Len(SubSeq(t, 2 + 1, 2 + m)) = m
        /\ \A k \in 1 .. m : SubSeq(t, 2 + 1, 2 + m)[k] = t[2 + k]
    BY <2>2, PartOf
  <2> QED
    BY Zenon, <2>1, <2>3, <2>4
<1>3. n >= 5 /\ rest[1] = "/" /\ rest[2] = "/" /\ rest[3] = "/"
  <2>1. Len(rest) >= 3 /\ rest[1] = "/" /\ rest[2] = "/" /\ rest[3] = "/"
    BY Triple
  <2> QED
    BY <1>1, <1>2, <2>1
<1>4. t[3] = "/" /\ t[4] = "/" /\ t[5] = "/"
  <2>1. /\ 1 \in 1 .. n - 2 /\ 2 \in 1 .. n - 2 /\ 3 \in 1 .. n - 2
        /\ 2 + 1 = 3 /\ 2 + 2 = 4 /\ 2 + 3 = 5
    BY <1>1, <1>3
  <2> QED
    BY <1>2, <1>3, <2>1
<1>5. PICK drv : drv = slice(rest, 3)
  OBVIOUS
<1>6. IsText(drv) /\ Len(drv) = n - 5 /\ \A k \in 1 .. n - 5 : drv[k] = t[5 + k]
  <2>1. PICK m \in Nat : m = n - 5
    BY <1>3
  <2>2. 3 \in Nat /\ 3 + m <= Len(rest) /\ 3 + m = Len(rest) /\ 3 + 1 = 4
    BY <1>1, <1>2, <2>1
  <2>3. drv = SubSeq(rest, 3 + 1, 3 + m)
    BY <1>5, <2>2 DEF slice
  <2>4. IsText(drv) /\ Len(drv) = m /\ \A k \in 1 .. m : drv[k] = rest[3 + k]
    <3>1. /\ IsText(SubSeq(rest, 3 + 1, 3 + m)) /\ Len(SubSeq(rest, 3 + 1, 3 + m)) = m
          /\ \A k \in 1 .. m : SubSeq(rest, 3 + 1, 3 + m)[k] = rest[3 + k]
      BY Zenon, <2>2, PartOf
    <3> QED
      BY Zenon, <2>3, <3>1
  <2>5. \A k \in 1 .. n - 5 : 3 + k \in 1 .. n - 2 /\ 2 + (3 + k) = 5 + k
    BY <1>3
  <2> QED
    BY <1>2, <2>1, <2>4, <2>5
<1>7. PICK f : f = rfind(drv, <<"/">>)
  OBVIOUS
<1>8. f \in Nat /\ f < n - 5 /\ drv[f + 1] = "/" /\ \A i \in f + 2 .. n - 5 : drv[i] # "/"
  <2>1. f # -1
    BY <1>5, <1>7
  <2>2. f \in Nat /\ f < Len(drv) /\ drv[f + 1] = "/" /\ \A i \in f + 2 .. Len(drv) : drv[i] # "/"
    <3>1. IsText(drv)
      BY <1>6
    <3> QED
      BY <1>7, <2>1, <3>1, LastPlace
  <2> QED
    BY Zenon, <1>6, <2>2
<1>9. PICK u : u = SubSeq(drv, 1, f + 1)
  OBVIOUS
<1>10. IsText(u) /\ Len(u) = f + 1 /\ \A k \in 1 .. f + 1 : u[k] = t[5 + k]
  <2>1. PICK m \in Nat : m = f + 1
    BY <1>8
  <2>2. m <= Len(drv) /\ IsText(drv)
    BY <1>3, <1>6, <1>8, <2>1
  <2>3. u = SubSeq(drv, 1, m)
    BY <1>9, <2>1
  <2>4. IsText(u) /\ Len(u) = m /\ \A k \in 1 .. m : u[k] = drv[k]
    BY Zenon, <2>2, <2>3, BeginningOf
  <2>5. \A k \in 1 .. f + 1 : k \in 1 .. n - 5
    BY <1>8
  <2> QED
    BY <1>6, <2>1, <2>4, <2>5
<1>11. u # <<>> /\ u[Len(u)] = "/"
  <2>1. f + 1 \in 1 .. f + 1 /\ f + 1 \in 1 .. n - 5
    BY <1>3, <1>8
  <2>2. u[f + 1] = "/"
    BY <1>6, <1>8, <1>10, <2>1
  <2> QED
    BY <1>8, <1>10, <2>2, TextProperties
<1>12. PICK hint : hint = <<"drv">> \o u
  OBVIOUS
<1>13. Head(hint) = "drv" /\ Last(hint) = "/" /\ Len(hint) = f + 2 /\ Tail(hint) = u
  <2>1. Len(hint) = Len(u) + 1 /\ Head(hint) = "drv" /\ Tail(hint) = u /\ Last(hint) = u[Len(u)]
    BY Zenon, <1>10, <1>11, <1>12, PushedText
  <2> QED
    BY <1>8, <1>10, <1>11, <2>1
<1>14. startswith(<<"drv", ":", "/", "/", "/">> \o u, t)
  <2>1. PICK front : front = <<"drv", ":", "/", "/", "/">>
    OBVIOUS
  <2>2. /\ IsText(front) /\ Len(front) = 5 /\ front[1] = "drv" /\ front[2] = ":"
        /\ front[3] = "/" /\ front[4] = "/" /\ front[5] = "/"
    <3>1. <<"drv", ":", "/", "/", "/">> \in Seq({"drv", ":", "/"})
      OBVIOUS
    <3>2. IsText(<<"drv", ":", "/", "/", "/">>)
      BY <3>1, TextOf
    <3> QED
      BY <2>1, <3>2
  <2>3. PICK w : w = front \o u
    OBVIOUS
  <2>4. IsText(w) /\ Len(w) = f + 6 /\ \A k \in 1 .. f + 1 : w[5 + k] = u[k]
    <3>1. /\ IsText(w) /\ Len(w) = Len(front) + Len(u)
          /\ \A k \in 1 .. Len(u) : w[Len(front) + k] = u[k]
      <4>1. IsText(u) /\ IsText(front)
        BY <1>10, <2>2
      <4>2. /\ IsText(front \o u) /\ Len(front \o u) = Len(front) + Len(u)
            /\ \A k \in 1 .. Len(u) : (front \o u)[Len(front) + k] = u[k]
        BY <4>1, JoinedText
      <4> QED
        BY Zenon, <2>3, <4>2
    <3>2. 5 + (f + 1) = f + 6
      BY <1>8
    <3> QED
      BY Zenon, <1>10, <2>2, <3>1, <3>2
  <2>5. \A k \in 1 .. 5 : w[k] = front[k]
    <3>1. \A k \in 1 .. Len(front) : w[k] = front[k]
      BY <1>10, <2>2, <2>3, JoinedFirst
    <3> QED
      BY <2>2, <3>1
  <2>6. ASSUME NEW k \in 1 .. f + 6 PROVE t[k] = w[k]
    <3>1. CASE k <= 5
      <4>1. k = 1 \/ k = 2 \/ k = 3 \/ k = 4 \/ k = 5
        BY <1>8, <3>1
      <4>2. k \in 1 .. 5
        BY <4>1
      <4>3. t[k] = front[k]
        BY <1>4, <2>2, <4>1
      <4> QED
        BY <2>5, <4>2, <4>3
    <3>2. CASE ~(k <= 5)
      <4>1. k - 5 \in 1 .. f + 1 /\ 5 + (k - 5) = k
        BY <1>8, <3>2
      <4>2. w[k] = u[k - 5] /\ u[k - 5] = t[k]
        BY <1>10, <2>4, <4>1
      <4> QED
        BY <4>2
    <3> QED
      BY <3>1, <3>2
  <2>7. Len(w) <= Len(t)
    BY <1>1, <1>8, <2>4
  <2>8. startswith(w, t)
    BY <2>4, <2>6, <2>7, PrefixOf
  <2> QED
    BY <2>1, <2>3, <2>8
<1>15. \A i \in Len(hint) + 5 .. Len(t) : t[i] # "/"
  <2> SUFFICES ASSUME NEW i \in f + 7 .. n, t[i] = "/" PROVE FALSE
    <3>1. Len(hint) + 5 = f + 7
      BY <1>8, <1>13
    <3> QED
      BY <1>1, <3>1
  <2>1. i - 5 \in f + 2 .. n - 5 /\ i - 5 \in 1 .. n - 5 /\ 5 + (i - 5) = i
    BY <1>1, <1>8
  <2>2. drv[i - 5] = "/"
    BY <1>6, <2>1
  <2> QED
    BY <1>8, <2>1, <2>2
<1>16. IsHintOf(hint, t)
  BY <1>13, <1>14, <1>15 DEF IsHintOf
<1> QED
  BY <1>5, <1>7, <1>9, <1>12, <1>16

\* A name of ":" alone has no parts.
LEMMA NoParts ==
    ASSUME NEW t, IsText(t), NEW separator, \A i \in DOMAIN t : t[i] = separator
    PROVE  split(t, separator) = <<>>
<1>1. Starts(t, separator) = {}
  BY DEF Starts
<1>2. IsText(split(t, separator)) /\ Len(split(t, separator)) = 0
  BY <1>1, SplitParts, FS_EmptySet
<1> QED
  BY <1>2, TextProperties

\* The parts of a name that begins with "drv".
LEMMA PartsOfFile ==
    ASSUME NEW t, IsText(t), HasScheme(t), t # <<>>, t[1] # ":",
           split(t, ":")[1] = <<"drv">>, Len(split(t, ":")) # 1
    PROVE  /\ Len(t) > 2 /\ t[1] = "drv" /\ t[2] = ":"
           /\ split(t, ":")[2] = SubSeq(t, 3, Len(t))
<1>1. PICK pieces : pieces = split(t, ":")
  OBVIOUS
<1>2. PICK n \in Nat : n = Len(t) /\ n >= 1 /\ DOMAIN t = 1 .. n
  BY TextProperties
<1>3. PICK e \in 1 .. n : /\ Len(pieces) \in Nat \ {0}
                          /\ pieces[1] = SubSeq(t, 1, e)
                          /\ e < n => t[e + 1] = ":"
  BY <1>1, <1>2, FirstPart
<1>4. e = 1 /\ t[1] = "drv"
  <2>1. PICK u : u = <<"drv">>
    OBVIOUS
  <2>2. Len(u) = 1 /\ u[1] = "drv"
    BY <2>1, Tuples
  <2>3. u = SubSeq(t, 1, e)
    BY <1>1, <1>3, <2>1
  <2>4. e \in Nat /\ e <= Len(t) /\ 1 \in 1 .. e
    BY <1>2, <1>3
  <2>5. Len(u) = e /\ u[1] = t[1]
    BY <2>3, <2>4, BeginningOf
  <2> QED
    BY <2>2, <2>5
<1>5. n # 1
  <2>1. SUFFICES ASSUME n = 1 PROVE FALSE
    OBVIOUS
  <2>2. Starts(t, ":") = {1}
    BY <1>2, <2>1 DEF Starts
  <2>3. Len(pieces) = 1
    <3>1. Cardinality(Starts(t, ":")) = 1
      BY Zenon, <2>2, FS_Singleton
    <3> QED
      BY Zenon, <1>1, <3>1, SplitParts
  <2> QED
    BY <1>1, <2>3
<1>6. t[2] = ":"
  <2>1. 1 < n /\ 1 + 1 = 2
    BY <1>2, <1>5
  <2> QED
    BY <1>3, <1>4, <2>1
<1>7. \A i \in 3 .. n : t[i] # ":"
  <2>1. PICK u : u = <<"drv", ":">>
    OBVIOUS
  <2>2. IsText(u) /\ Len(u) = 2 /\ u[1] = "drv" /\ u[2] = ":"
    BY <2>1, Tuples
  <2>3. \A k \in 1 .. 2 : t[k] = u[k]
    <3>1. \A k \in 1 .. 2 : k = 1 \/ k = 2
      OBVIOUS
    <3> QED
      BY <1>4, <1>6, <2>2, <3>1
  <2>4. Len(u) <= Len(t)
    BY <1>2, <1>5, <2>2
  <2>5. startswith(u, t)
    BY <2>2, <2>3, <2>4, PrefixOf
  <2> QED
    BY <1>2, <2>1, <2>5 DEF HasScheme
<1>8. /\ Len(pieces) = IF n > 2 THEN 2 ELSE 1
      /\ n > 2 => pieces[2] = SubSeq(t, 3, n)
  <2>1. Len(t) >= 2 /\ \A i \in 3 .. Len(t) : t[i] # ":"
    BY <1>2, <1>5, <1>7
  <2>2. /\ Len(split(t, ":")) = IF Len(t) > 2 THEN 2 ELSE 1
        /\ Len(t) > 2 => split(t, ":")[2] = SubSeq(t, 3, Len(t))
    BY Zenon, <1>6, <2>1, SecondPart
  <2> QED
    BY <1>1, <1>2, <2>2
<1>9. n > 2
  BY <1>1, <1>8
<1> QED
  BY <1>1, <1>2, <1>4, <1>6, <1>8, <1>9

\* A name with a scheme has a hint at its own package, if any.
LEMMA HintOwn ==
    ASSUME NEW t, IsText(t), HasScheme(t), add_ppd_name(t) \notin {Unset, NULL}
    PROVE  IsHintOf(add_ppd_name(t), t)
<1>1. PICK h : h = add_ppd_name(t)
  OBVIOUS
<1>2. PICK pieces : pieces = split(t, ":")
  OBVIOUS
<1>3. PICK drv : drv = slice(pieces[2], 3)
  OBVIOUS
<1>4. PICK f : f = rfind(drv, <<"/">>)
  OBVIOUS
<1>5. /\ pieces # <<>>
      /\ pieces[1] # <<"drv">> \/ Len(pieces) = 1 => h = <<"driver">> \o pieces[1]
      /\ ~(pieces[1] # <<"drv">> \/ Len(pieces) = 1) =>
            /\ startswith(<<"/", "/", "/">>, pieces[2]) /\ f # -1
            /\ h = <<"drv">> \o SubSeq(drv, 1, f + 1)
  BY Zenon, <1>1, <1>2, <1>3, <1>4, HintCases
<1>6. IsText(pieces)
  BY <1>2, SplitParts
<1>7. t # <<>> /\ t[1] # ":"
  <2>1. \E i \in DOMAIN t : t[i] # ":"
    BY Zenon, <1>2, <1>5, NoParts
  <2>2. t # <<>>
    BY <2>1, TextProperties
  <2> QED
    BY Zenon, <2>1, <2>2 DEF HasScheme
<1>8. CASE pieces[1] # <<"drv">> \/ Len(pieces) = 1
  <2>1. PICK e \in 1 .. Len(t) : pieces[1] = SubSeq(t, 1, e)
    BY <1>2, <1>7, FirstPart
  <2>2. PICK u : u = SubSeq(t, 1, e)
    OBVIOUS
  <2>3. e \in Nat /\ e <= Len(t)
    BY <2>1, TextProperties
  <2>4. IsText(u) /\ Len(u) = e /\ \A k \in 1 .. e : u[k] = t[k]
    BY <2>2, <2>3, BeginningOf
  <2>5. startswith(u, t)
    BY <2>3, <2>4, PrefixOf
  <2>6. h = <<"driver">> \o u
    BY Zenon, <1>5, <1>8, <2>1, <2>2
  <2>7. Head(h) = "driver" /\ Tail(h) = u
    BY Zenon, <2>4, <2>6, PushedText
  <2> QED
    BY Zenon, <1>1, <2>5, <2>7 DEF IsHintOf
<1>9. CASE ~(pieces[1] # <<"drv">> \/ Len(pieces) = 1)
  <2>1. pieces[1] = <<"drv">> /\ Len(pieces) # 1
    BY Zenon, <1>9
  <2>2. Len(t) > 2 /\ t[1] = "drv" /\ t[2] = ":" /\ pieces[2] = SubSeq(t, 3, Len(t))
    BY Zenon, <1>2, <1>7, <2>1, PartsOfFile
  <2>3. PICK rest : rest = pieces[2]
    OBVIOUS
  <2>4. IsText(rest)
    <3>1. 2 \in Nat /\ Len(t) - 2 \in Nat /\ 2 + (Len(t) - 2) <= Len(t) /\ 2 + 1 = 3 /\ 2 + (Len(t) - 2) = Len(t)
      BY <2>2, TextProperties
    <3>2. IsText(SubSeq(t, 2 + 1, 2 + (Len(t) - 2)))
      BY Zenon, <3>1, PartOf
    <3> QED
      BY Zenon, <2>2, <2>3, <3>1, <3>2
  <2>5. /\ rest = SubSeq(t, 3, Len(t)) /\ startswith(<<"/", "/", "/">>, rest)
        /\ rfind(slice(rest, 3), <<"/">>) # -1
        /\ h = <<"drv">> \o SubSeq(slice(rest, 3), 1, rfind(slice(rest, 3), <<"/">>) + 1)
    BY Zenon, <1>3, <1>4, <1>5, <1>9, <2>2, <2>3
  <2>6. IsHintOf(<<"drv">> \o SubSeq(slice(rest, 3), 1, rfind(slice(rest, 3), <<"/">>) + 1), t)
    BY Zenon, <2>2, <2>4, <2>5, DirectoryHint
  <2> QED
    BY Zenon, <1>1, <2>5, <2>6
<1> QED
  BY Zenon, <1>8, <1>9

-----------------------------------------------------------------------------
(* The hints of types. *)

\* Each type has the kinds of fit of its own node, and the hint of its own names.
TypesOwn ==
    \A i \in DOMAIN drvtypes :
        LET node == nodes[1].children[i]
            named == Elements(node, "ppdname")
        IN  /\ drvtypes[i].fit = Fits(node)
            /\ named # <<>> => drvtypes[i].pkghint = add_ppd_name(Last(named).match)

\* Every step keeps the types' hints and kinds of fit.
LEMMA TypesOwnStep ==
    ASSUME PrefOK, TypesRead, TypesOwn, [Next]_vars
    PROVE  TypesOwn'
<1> USE DEF TypesOwn
<1>1. CASE UNCHANGED <<nodes, drvtypes>>
  BY Zenon, <1>1
<1>2. CASE PreferredDrivers
  <2>1. drvtypes' = <<>>
    BY <1>2 DEF PreferredDrivers, TypesRead
  <2>2. DOMAIN drvtypes' = {}
    BY <2>1
  <2> QED
    BY Zenon, <2>2
<1>3. CASE DriverTypes_load
  <2> DEFINE node == nodes[1].children[Len(drvtypes) + 1]
             e == DriverType(node, pkghint')
  <2>1. nodes' = nodes /\ IsText(drvtypes)
    BY Zenon, <1>3 DEF DriverTypes_load, PrefOK
  <2>2. CASE drvtypes' = drvtypes
    BY Zenon, <1>1, <2>1, <2>2
  <2>3. CASE pkghint' = Hint(node, pkghint) /\ drvtypes' = Append(drvtypes, e)
    <3>1. e.fit = Fits(node) /\ e.pkghint = pkghint'
      BY Zenon DEF DriverType
    <3>2. Elements(node, "ppdname") # <<>> =>
              e.pkghint = add_ppd_name(Last(Elements(node, "ppdname")).match)
      BY Zenon, <2>3, <3>1 DEF Hint
    <3> HIDE DEF e
    <3>3. /\ Len(drvtypes) \in Nat /\ DOMAIN drvtypes = 1 .. Len(drvtypes)
          /\ DOMAIN drvtypes' = 1 .. Len(drvtypes) + 1
          /\ \A i \in 1 .. Len(drvtypes) : drvtypes'[i] = drvtypes[i]
          /\ drvtypes'[Len(drvtypes) + 1] = e
      BY <2>1, <2>3, AppendedText, TextProperties
    <3>4. ASSUME NEW i \in DOMAIN drvtypes'
          PROVE  \/ i \in DOMAIN drvtypes /\ drvtypes'[i] = drvtypes[i]
                 \/ i = Len(drvtypes) + 1 /\ drvtypes'[i] = e
      <4>1. i \in 1 .. Len(drvtypes) + 1
        BY Zenon, <3>3
      <4>2. i \in 1 .. Len(drvtypes) \/ i = Len(drvtypes) + 1
        BY <3>3, <4>1
      <4> QED
        BY <3>3, <4>2
    <3> QED
      BY Zenon, <2>1, <3>1, <3>2, <3>4
  <2> QED
    BY Zenon, <1>3, <2>2, <2>3 DEF DriverTypes_load
<1>4. CASE NodeMissing \/ TypesEnd \/ PreferenceOrder_load \/ OrderEnds
  <2>1. UNCHANGED <<nodes, drvtypes>>
    BY Zenon, <1>4 DEF NodeMissing, TypesEnd, PreferenceOrder_load, OrderEnds
  <2> QED
    BY <1>1, <2>1
<1>5. CASE UNCHANGED orderVars
  BY Zenon, <1>1, <1>5 DEF orderVars
<1> QED
  BY Zenon, <1>2, <1>3, <1>4, <1>5, OrderKept DEF ReadPreferences

-----------------------------------------------------------------------------
(* The results. *)

\* The tables of makes, models and PPDs are of one shape whatever the names of
\* the PPDs are: no search meets a key that is missing, and each search adds a
\* known kind of fit (init_makes and getPPDNamesFromDeviceID, ppds.c).
THEOREM TypeCorrect == Spec => []TypeOK
<1>1. IInv => TypeOK
  <2> SUFFICES ASSUME IInv PROVE TypeOK
    OBVIOUS
  <2>1. TablesOK /\ FitOK
    BY DEF IInv
  <2>2. pc \in {"fetch", "preferences", "filter", "ids", "device id", "makes", "make",
                "model", "best", "generic", "driverless", "commands", "fallback", "done",
                "crashed"}
    BY <2>1 DEF TablesOK, Early, Searching, Ending
  <2>3. /\ DOMAIN lmodels = DOMAIN lmakes
        /\ \A m \in DOMAIN lmakes :
              /\ lmakes[m] \in DOMAIN makes
              /\ \A l \in DOMAIN lmodels[m] :
                    /\ lmodels[m][l] \in DOMAIN makes[lmakes[m]]
                    /\ \A p \in makes[lmakes[m]][lmodels[m][l]] : p \in DOMAIN ppds
    BY <2>1 DEF TablesOK, ShapeOK, Index
  <2> QED
    BY <2>1, <2>2, <2>3 DEF TypeOK, TablesOK, FitOK
<1> QED
  BY <1>1, Invariant, PTL

\* After init_makes each PPD of the list is found under its make and model,
\* whichever PPDs were filed before and after it (ppds.c:1412).
THEOREM FiledCorrect == Spec => []FiledUnderItsModel
<1>1. IInv => FiledUnderItsModel
  <2> SUFFICES ASSUME IInv,
                      pc \notin {"crashed", "fetch", "preferences", "filter", "ids", "device id"}
               PROVE  \A p \in DOMAIN ppds \ todo :
                         FiledAt(Index, p, ppdMakeModelSplit(ppds[p].ppd_make_and_model))
    BY DEF FiledUnderItsModel, FiledAt, Index
  <2> QED
    BY DEF IInv, TablesOK, FiledOK, Early, Searching, Ending
<1> QED
  BY <1>1, Invariant, PTL

\* Each PPD with the device's own id is offered as an exact match at the end,
\* whichever searches follow that by device id; only a driverless one may be
\* removed (ppds.c:962).
THEOREM ExactIdCorrect == Spec => []ExactIdIsOffered
<1>1. IInv => ExactIdIsOffered
  BY DEF IInv, IdsOK, ExactIdIsOffered, SameId, Ending
<1> QED
  BY <1>1, Invariant, PTL

\* A driver of the last resort, textonly.ppd or postscript.ppd, is offered only
\* when there is no other, and is then the only one (ppds.c:1108).
THEOREM LastResortCorrect == Spec => []FallbackIsLastResort
<1>1. IInv => FallbackIsLastResort
  BY DEF IInv, FitOK
<1> QED
  BY <1>1, Invariant, PTL

\* Whatever CUPS answers with complete records, each PPD of the list has the
\* attributes of its own record, although the attributes are read one by one and
\* the end of a record is seen by what was read only (asyncipp.c:198).
THEOREM EntriesCorrect == Spec => []EntriesAreRecords
<1>1. InputOK /\ ListOK => EntriesAreRecords
  <2> SUFFICES ASSUME ListOK, pc # "fetch", AllComplete, NEW p \in DOMAIN ppds
               PROVE  \E i \in DOMAIN response :
                          /\ response[i].ppd_name = p
                          /\ response[i].ppd_device_id = ppds[p].ppd_device_id
                          /\ response[i].ppd_natural_language = ppds[p].ppd_natural_language
                          /\ response[i].ppd_product = ppds[p].ppd_product
    BY DEF EntriesAreRecords, AllComplete
  <2>1. \A entry, record : EntryOf(entry, record) => FromRecord(entry, record)
    BY NamesOfAttributes DEF EntryOf, FromRecord
  <2>2. PICK i \in DOMAIN response : response[i].ppd_name = p /\ FromRecord(ppds[p], response[i])
    BY <2>1 DEF ListOK
  <2> QED
    BY <2>2, NamesOfAttributes DEF FromRecord
<1> QED
  BY <1>1, ListInvariant, PTL

\* Whichever searches find a PPD, it is in a language the user reads, and a
\* driverless one is offered over IPP only or as the last resort (ppds.c:957).
THEOREM UsableCorrect == Spec => []OffersAreUsable
<1>1. UsableOK => OffersAreUsable
  BY DEF UsableOK, OffersAreUsable, Ending
<1> QED
  BY <1>1, ListInvariant, PTL

\* A device that some PPD names by its id is answered: the searches that end the
\* process when they find a list that does not exist (ppds.c:1610, 1833) are not
\* reached, or find one, whatever the answer, the device and the order of preference.
THEOREM AnsweredCorrect == Spec => []KnownDeviceIsAnswered
<1>1. InputOK /\ IInv /\ ListOK /\ PrefOK /\ AnsweredOK /\ [Next]_vars => PrefOK' /\ AnsweredOK'
  BY PrefStep, AnsweredStep
<1>2. AnsweredOK => KnownDeviceIsAnswered
  BY Zenon DEF AnsweredOK, Answers, KnownDeviceIsAnswered
<1> QED
  BY <1>1, <1>2, AnsweredInit, Invariant, ListInvariant, PTL DEF Spec

\* The nearest-model search takes models for PPDs (ppds.c:1646), so that it can offer a PPD
\* that has the name of a model whatever its own make is.
NoPPDNamesAModel == \A p \in DOMAIN ppds : ~NamesAModel(p)

\* Unless a PPD bears the name of a model, an exact match has the device's id, or was filed
\* under its make, for any answers and devices.
THEOREM ExactCorrect == Spec => [](NoPPDNamesAModel => ExactIsOfMake)
<1>1. ExactOK => (NoPPDNamesAModel => ExactIsOfMake)
  <2> SUFFICES ASSUME ExactOK, NoPPDNamesAModel, pc = "done",
                      NEW p \in DOMAIN fit \cap DOMAIN ppds, fit[p] = "exact"
               PROVE  p \in SameId \/ OfMake(p, names.mfgl)
    BY DEF ExactIsOfMake, SameId, OfMake
  <2>1. pc \in Searching \cup Ending
    BY DEF Ending
  <2> QED
    BY <2>1 DEF ExactOK, NoPPDNamesAModel
<1> QED
  BY <1>1, ExactInvariant, PTL

\* The search with Knuth, Morris and Pratt's table finds the lowest and the highest index
\* of each part of each name that has been read, whatever the document (nstring.c:252, 265).
THEOREM SearchCorrect == Spec => []SearchIsExact
<1>1. InputOK /\ PrefOK /\ TypesRead => SearchIsExact
  <2> SUFFICES ASSUME InputOK, PrefOK, TypesRead, NEW i \in DOMAIN drvtypes,
                      NEW c \in ToSet(Elements(nodes[1].children[i], "ppdname")),
                      NEW first \in DOMAIN c.match, NEW last \in DOMAIN c.match, first <= last
               PROVE  SearchIsExactFor(c.match, SubSeq(c.match, first, last))
    BY Zenon DEF SearchIsExact
  <2>1. IsText(drvtypes) /\ Len(drvtypes) \in Nat /\ i \in 1 .. Len(drvtypes) /\ drvtypes # <<>>
    BY TextProperties DEF PrefOK
  <2>2. /\ nodes = KnownNodes(document) /\ Len(nodes) >= 1
        /\ Len(drvtypes) <= Len(nodes[1].children)
    BY <2>1 DEF TypesRead
  <2>3. IsText(nodes) /\ 1 \in DOMAIN nodes /\ IsText(nodes[1].children)
    BY <2>2, DocumentTexts, TextProperties
  <2>4. i \in DOMAIN nodes[1].children
    BY <2>1, <2>2, <2>3, TextProperties
  <2>5. nodes[1].children[i] \in ToSet(nodes[1].children)
    BY Zenon, <2>4 DEF ToSet
  <2>6. IsText(c.match)
    BY Zenon, <2>2, <2>3, <2>5, DocumentTexts
  <2>7. IsText(SubSeq(c.match, first, last))
    <3> DEFINE t == c.match
    <3>1. Len(t) \in Nat /\ first \in 1 .. Len(t) /\ last \in 1 .. Len(t)
      BY <2>6, TextProperties
    <3> HIDE DEF t
    <3>2. /\ first - 1 \in Nat /\ last - (first - 1) \in Nat /\ (first - 1) + 1 = first
          /\ (first - 1) + (last - (first - 1)) = last /\ last <= Len(t)
      BY <3>1
    <3>3. IsText(t)
      BY <2>6 DEF t
    <3>4. IsText(SubSeq(t, (first - 1) + 1, (first - 1) + (last - (first - 1))))
      BY <3>2, <3>3, PartOf
    <3> QED
      BY <3>2, <3>4 DEF t
  <2> QED
    BY <2>6, <2>7, ExactSearch
<1>2. Init => PrefOK /\ TypesRead
  <2>1. Init => drvtypes = <<>>
    BY DEF Init, OrderInit
  <2> QED
    BY <2>1, AnsweredInit DEF TypesRead
<1>3. InputOK /\ PrefOK /\ TypesRead /\ [Next]_vars => PrefOK' /\ TypesRead'
  BY PrefStep, TypesReadStep
<1> QED
  BY <1>1, <1>2, <1>3, ListInvariant, PTL DEF Spec

\* The name of every PPD in the document begins with its scheme, as "drv:///sample.drv/a.ppd"
\* does, and there is no ":" in the name of a file.
NamesHaveSchemes ==
    \A n \in ToSet(KnownNodes(document)) : \A node \in ToSet(n.children) :
        \A c \in ToSet(Elements(node, "ppdname")) : HasScheme(c.match)

\* Whatever the document, if its names have schemes, a type's hint is at its own package
\* although the types share a local for it, and an exact match of the commands goes with
\* every exact match (xml.c:151, 205, 215).
THEOREM HintCorrect == Spec => [](NamesHaveSchemes => HintIsOwn)
<1>1. InputOK /\ PrefOK /\ TypesRead /\ TypesOwn => (NamesHaveSchemes => HintIsOwn)
  <2> SUFFICES ASSUME InputOK, PrefOK, TypesRead, TypesOwn, NamesHaveSchemes,
                      NEW i \in DOMAIN drvtypes
               PROVE  LET named == Elements(nodes[1].children[i], "ppdname")
                          t == drvtypes[i]
                      IN  /\ named # <<>> /\ t.pkghint \notin {Unset, NULL} =>
                                IsHintOf(t.pkghint, Last(named).match)
                          /\ Exact \in t.fit => ExactCmd \in t.fit
    BY Zenon DEF HintIsOwn
  <2>1. PICK node : node = nodes[1].children[i]
    OBVIOUS
  <2>2. PICK named : named = Elements(node, "ppdname")
    OBVIOUS
  <2>3. /\ drvtypes[i].fit = Fits(node)
        /\ named # <<>> => drvtypes[i].pkghint = add_ppd_name(Last(named).match)
    BY Zenon, <2>1, <2>2 DEF TypesOwn
  <2>4. Exact \in Fits(node) => ExactCmd \in Fits(node)
    BY Zenon DEF Fits
  <2>5. ASSUME named # <<>> PROVE IsText(Last(named).match) /\ HasScheme(Last(named).match)
    <3>1. IsText(drvtypes) /\ Len(drvtypes) \in Nat /\ i \in 1 .. Len(drvtypes) /\ drvtypes # <<>>
      BY TextProperties DEF PrefOK
    <3>2. /\ nodes = KnownNodes(document) /\ Len(nodes) >= 1
          /\ Len(drvtypes) <= Len(nodes[1].children)
      BY <3>1 DEF TypesRead
    <3>3. IsText(nodes) /\ 1 \in DOMAIN nodes /\ IsText(nodes[1].children)
      BY <3>2, DocumentTexts, TextProperties
    <3>4. i \in DOMAIN nodes[1].children
      BY <3>1, <3>2, <3>3, TextProperties
    <3>5. nodes[1] \in ToSet(nodes) /\ node \in ToSet(nodes[1].children)
      BY Zenon, <2>1, <3>3, <3>4 DEF ToSet
    <3>6. IsText(named) /\ \A c \in ToSet(named) : IsText(c.match) /\ HasScheme(c.match)
      <4>1. IsText(named) /\ \A c \in ToSet(named) : IsText(c.match)
        BY Zenon, <2>2, <3>2, <3>3, <3>5, DocumentTexts
      <4>2. \A c \in ToSet(named) : HasScheme(c.match)
        BY Zenon, <2>2, <3>2, <3>5 DEF NamesHaveSchemes
      <4> QED
        BY <4>1, <4>2
    <3>7. Len(named) \in DOMAIN named
      BY <2>5, <3>6, TextProperties
    <3>8. Last(named) \in ToSet(named)
      BY Zenon, <3>7 DEF Last, ToSet
    <3> QED
      BY Zenon, <3>6, <3>8
  <2>6. ASSUME named # <<>>, drvtypes[i].pkghint \notin {Unset, NULL}
        PROVE  IsHintOf(drvtypes[i].pkghint, Last(named).match)
    <3>1. drvtypes[i].pkghint = add_ppd_name(Last(named).match)
      BY Zenon, <2>3, <2>6
    <3>2. add_ppd_name(Last(named).match) \notin {Unset, NULL}
      BY Zenon, <2>6, <3>1
    <3>3. IsHintOf(add_ppd_name(Last(named).match), Last(named).match)
      BY Zenon, <2>5, <2>6, <3>2, HintOwn
    <3> QED
      BY Zenon, <3>1, <3>3
  <2> QED
    BY Zenon, <2>1, <2>2, <2>3, <2>4, <2>6
<1>2. Init => PrefOK /\ TypesRead /\ TypesOwn
  <2>1. Init => drvtypes = <<>>
    BY DEF Init, OrderInit
  <2> QED
    BY <2>1, AnsweredInit DEF TypesRead, TypesOwn
<1>3. InputOK /\ PrefOK /\ TypesRead /\ TypesOwn /\ [Next]_vars =>
          PrefOK' /\ TypesRead' /\ TypesOwn'
  BY PrefStep, TypesReadStep, TypesOwnStep
<1> QED
  BY <1>1, <1>2, <1>3, ListInvariant, PTL DEF Spec

=============================================================================
