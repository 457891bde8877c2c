------------------------- MODULE CUPSAccess_proofs -------------------------
(***************************************************************************)
(* Proofs about the authentication cache and the connections that use it,  *)
(* for any number of nodes, hosts and ports.                               *)
(***************************************************************************)
EXTENDS CUPSAccess, CommonLemmas, SequenceTheorems, FiniteSetTheorems

USE MaxNodesAssumption

-----------------------------------------------------------------------------
(* The error handler. *)

LEMMA ConnectionTold ==
    ASSUME NEW host, NEW port, NEW error \in BOOLEAN, NEW told,
           IPPConnection(host, port, error, told)
    PROVE  \/ last'.call # "connection"
           \/ \E c \in BOOLEAN : /\ last'.connected = c /\ last'.error = error
                                 /\ last'.told = told[c]
<1>1. PICK n \in lookup_auth_info(host, port), connected \in BOOLEAN :
         IF n \in {CRASH, HANG}
         THEN last' = NoCall
         ELSE last' = [call |-> "connection", connected |-> connected,
                       error |-> error, told |-> told[connected]]
  BY DEF IPPConnection
<1>2. CASE last' = NoCall
  BY <1>2 DEF NoCall
<1>3. CASE last' = [call |-> "connection", connected |-> connected,
                    error |-> error, told |-> told[connected]]
  BY <1>3
<1> QED
  BY <1>1, <1>2, <1>3

\* Who gave PK1Connection an error handler is told of each failure, and is never told
\* of an error when there is a connection.
THEOREM FailureCorrect == Spec => []FailureIsNotAReply
<1>1. Init => FailureIsNotAReply
  BY DEF Init, NoCall, FailureIsNotAReply
<1>2. ASSUME FailureIsNotAReply, [Next]_vars PROVE FailureIsNotAReply'
  <2>1. ASSUME NEW host, NEW port, NEW reply \in BOOLEAN, NEW error \in BOOLEAN,
               PK1Connection(host, port, reply, error)
        PROVE  FailureIsNotAReply'
    <3> DEFINE told == [c \in BOOLEAN |-> PK1Told(c, reply, error)]
    <3>1. IPPConnection(host, port, error, told)
      BY <2>1 DEF PK1Connection
    <3>2. error = TRUE => told[FALSE] = <<"error">> /\ "error" \notin ToSet(told[TRUE])
      <4> SUFFICES ASSUME error = TRUE
                   PROVE  told[FALSE] = <<"error">> /\ "error" \notin ToSet(told[TRUE])
        OBVIOUS
      <4>1. told[FALSE] = <<>> \o <<"error">>
        BY Zenon DEF PK1Told, IPPTold
      <4>2. told[FALSE] = <<"error">>
        <5>1. <<"error">> \in Seq({"error"})
          OBVIOUS
        <5> QED
          BY <4>1, <5>1, ConcatEmptySeq
      <4>3. reply = TRUE => told[TRUE] = <<"reply">> \o <<"reply">>
        BY Zenon DEF PK1Told, IPPTold
      <4>4. reply = FALSE => told[TRUE] = <<>> \o <<>>
        BY Zenon DEF PK1Told, IPPTold
      <4>5. told[TRUE] \in Seq({"reply"})
        <5>1. <<"reply">> \in Seq({"reply"}) /\ <<>> \in Seq({"reply"})
          OBVIOUS
        <5> QED
          BY <4>3, <4>4, <5>1, ConcatProperties
      <4>6. "error" \notin ToSet(told[TRUE])
        <5>0. \A s \in Seq({"reply"}) : \A i \in DOMAIN s : s[i] \in {"reply"}
          BY ElementOfSeq, LenProperties
        <5>1. \A i \in DOMAIN told[TRUE] : told[TRUE][i] \in {"reply"}
          BY Zenon, <4>5, <5>0
        <5> HIDE DEF told
        <5> QED
          BY <5>1 DEF ToSet
      <4> QED
        BY <4>2, <4>6
    <3> HIDE DEF told
    <3> QED
      BY <3>1, <3>2, ConnectionTold DEF FailureIsNotAReply
  <2>2. ASSUME NEW host, NEW port, NEW told, IPPConnection(host, port, FALSE, told)
        PROVE  FailureIsNotAReply'
    BY <2>2, ConnectionTold DEF FailureIsNotAReply
  <2>3. ASSUME last'.call # "connection" PROVE FailureIsNotAReply'
    BY <2>3 DEF FailureIsNotAReply
  <2>4. ASSUME NEW host \in Hosts, NEW port \in Ports,
               \/ CacheAuthInfo(host, port) \/ LookupAuthInfo(host, port)
               \/ RemoveAuthInfo(host, port)
        PROVE  FailureIsNotAReply'
    <3>1. last' = NoCall
      BY <2>4 DEF CacheAuthInfo, LookupAuthInfo, RemoveAuthInfo
    <3> QED
      BY <2>3, <3>1 DEF NoCall
  <2>5. ASSUME NEW host, NEW port,
               \/ Async_Connection(host, port)
               \/ \E reply \in BOOLEAN : IPPAuthConnection(host, port, reply)
        PROVE  FailureIsNotAReply'
    BY <2>2, <2>5 DEF Async_Connection, IPPAuthConnection
  <2>6. ASSUME NEW answer, getURI(answer) \/ getDevices(answer) PROVE FailureIsNotAReply'
    <3>1. CASE getURI(answer)
      BY <2>3, <3>1 DEF getURI, Failed, Gives
    <3>2. CASE getDevices(answer)
      BY <2>3, <3>2 DEF getDevices, Failed, Gives
    <3> QED
      BY <2>6, <3>1, <3>2
  <2>7. CASE UNCHANGED vars
    BY <1>2, <2>7 DEF vars, FailureIsNotAReply
  <2> QED
    BY Zenon, <1>2, <2>1, <2>4, <2>5, <2>6, <2>7 DEF Next
<1> QED
  BY <1>1, <1>2, PTL DEF Spec

-----------------------------------------------------------------------------
(* Following the list. *)

\* The function Reached exists, so that it is what its definition says.
LEMMA ReachedSteps ==
    Reached = [k \in 0 .. MaxNodes |-> IF k = 0 THEN creds ELSE After(Reached[k - 1])]
<1> DEFINE T == {n \in Nat : \E f : f = [k \in 0 .. n |-> IF k = 0 THEN creds ELSE After(f[k - 1])]}
<1>1. 0 \in T
  <2> DEFINE f == [k \in 0 .. 0 |-> creds]
  <2>1. f = [k \in 0 .. 0 |-> IF k = 0 THEN creds ELSE After(f[k - 1])]
    OBVIOUS
  <2> HIDE DEF f
  <2> QED
    BY <2>1
<1>2. ASSUME NEW n \in Nat, n \in T PROVE n + 1 \in T
  <2>1. PICK f : f = [k \in 0 .. n |-> IF k = 0 THEN creds ELSE After(f[k - 1])]
    BY <1>2
  <2> DEFINE g == [k \in 0 .. n + 1 |-> IF k <= n THEN f[k] ELSE After(f[n])]
  <2>2. ASSUME NEW k \in 0 .. n + 1 PROVE g[k] = IF k = 0 THEN creds ELSE After(g[k - 1])
    <3>1. CASE k = 0
      <4>1. f[0] = creds
        BY <2>1
      <4> QED
        BY <3>1, <4>1
    <3>2. CASE k # 0 /\ k <= n
      <4>1. f[k] = After(f[k - 1])
        BY <2>1, <3>2
      <4>2. g[k] = f[k] /\ g[k - 1] = f[k - 1]
        BY <3>2
      <4> HIDE DEF g
      <4> QED
        BY <3>2, <4>1, <4>2
    <3>3. CASE k = n + 1
      <4>1. g[k] = After(f[n]) /\ g[k - 1] = f[n]
        BY <3>3
      <4> HIDE DEF g
      <4> QED
        BY <3>3, <4>1
    <3> QED
      BY <3>1, <3>2, <3>3
  <2>3. g = [k \in 0 .. n + 1 |-> IF k = 0 THEN creds ELSE After(g[k - 1])]
    <3>1. g = [k \in 0 .. n + 1 |-> g[k]]
      OBVIOUS
    <3> HIDE DEF g
    <3> QED
      BY <2>2, <3>1
  <2> HIDE DEF g
  <2>4. \E f1 : f1 = [k \in 0 .. n + 1 |-> IF k = 0 THEN creds ELSE After(f1[k - 1])]
    BY <2>3
  <2> QED
    BY <2>4
<1>3. MaxNodes \in T
  <2> HIDE DEF T
  <2> QED
    BY <1>1, <1>2, Induction
<1>4. \E f : f = [k \in 0 .. MaxNodes |-> IF k = 0 THEN creds ELSE After(f[k - 1])]
  BY <1>3
<1> QED
  BY <1>4 DEF Reached

-----------------------------------------------------------------------------
(* The heap. *)

NodeRecords ==
    [state : {"unused", "live", "freed"}, entry : Credentials \cup {Garbage},
     next : Nodes \cup {NULL}]

\* What is linked was allocated, and what was not has never been touched.
HeapOK ==
    /\ heap \in [Nodes -> NodeRecords]
    /\ creds \in Nodes \cup {NULL}
    /\ \A n \in Nodes : heap[n].state = "unused" => heap[n] = Unused
    /\ \A n \in Nodes : heap[n].state = "live" <=> heap[n].entry \in Credentials
    /\ \A n \in Nodes : heap[n].next # NULL => heap[heap[n].next].state # "unused"
    /\ creds # NULL => heap[creds].state # "unused"

LEMMA NodeFields ==
    ASSUME NEW e \in NodeRecords
    PROVE  /\ e.state \in {"unused", "live", "freed"}
           /\ e.entry \in Credentials \cup {Garbage}
           /\ e.next \in Nodes \cup {NULL}
BY DEF NodeRecords

LEMMA ReachedNodes ==
    ASSUME HeapOK
    PROVE  \A k \in 0 .. MaxNodes :
              /\ Reached[k] \in Nodes \cup {NULL}
              /\ Reached[k] # NULL => heap[Reached[k]].state # "unused"
<1> DEFINE OK(k) == /\ Reached[k] \in Nodes \cup {NULL}
                    /\ Reached[k] # NULL => heap[Reached[k]].state # "unused"
           T == {k \in Nat : k <= MaxNodes => OK(k)}
<1>1. 0 \in T
  <2>1. Reached[0] = creds
    BY ReachedSteps
  <2> QED
    BY <2>1 DEF HeapOK
<1>2. ASSUME NEW k \in Nat, k \in T PROVE k + 1 \in T
  <2> SUFFICES ASSUME k + 1 <= MaxNodes PROVE OK(k + 1)
    OBVIOUS
  <2>1. OK(k)
    BY <1>2
  <2>2. Reached[k + 1] = After(Reached[k])
    <3>1. k + 1 \in 0 .. MaxNodes /\ k + 1 # 0 /\ (k + 1) - 1 = k
      OBVIOUS
    <3> QED
      BY <3>1, ReachedSteps
  <2>3. CASE Reached[k] = NULL
    BY <2>2, <2>3 DEF After
  <2>4. CASE Reached[k] # NULL
    <3>1. PICK n \in Nodes : Reached[k] = n
      BY <2>1, <2>4
    <3>2. Reached[k + 1] = heap[n].next /\ heap[n] \in NodeRecords
      BY <2>2, <2>4, <3>1 DEF After, HeapOK
    <3>3. heap[n].next \in Nodes \cup {NULL}
      BY <3>2, NodeFields
    <3> QED
      BY <3>2, <3>3 DEF HeapOK
  <2> QED
    BY <2>3, <2>4
<1>3. ASSUME NEW k \in 0 .. MaxNodes PROVE OK(k)
  <2>1. k \in T
    <3> HIDE DEF T
    <3> QED
      BY <1>1, <1>2, Induction
  <2> QED
    BY <2>1
<1> QED
  BY <1>3

\* The end of the list is where it stays.
LEMMA EndStays ==
    ASSUME NEW j \in 0 .. MaxNodes, Reached[j] = NULL
    PROVE  \A k \in j .. MaxNodes : Reached[k] = NULL
<1> DEFINE T == {d \in Nat : j + d <= MaxNodes => Reached[j + d] = NULL}
<1>1. 0 \in T
  OBVIOUS
<1>2. ASSUME NEW d \in Nat, d \in T PROVE d + 1 \in T
  <2> SUFFICES ASSUME j + (d + 1) <= MaxNodes PROVE Reached[j + (d + 1)] = NULL
    OBVIOUS
  <2>1. Reached[j + d] = NULL
    BY <1>2
  <2>2. j + (d + 1) \in 0 .. MaxNodes /\ j + (d + 1) # 0 /\ (j + (d + 1)) - 1 = j + d
    OBVIOUS
  <2>3. Reached[j + (d + 1)] = After(Reached[j + d])
    BY <2>2, ReachedSteps
  <2> QED
    BY <2>1, <2>3 DEF After
<1> SUFFICES ASSUME NEW k \in j .. MaxNodes PROVE Reached[k] = NULL
  OBVIOUS
<1>3. k - j \in T
  <2>1. k - j \in Nat
    OBVIOUS
  <2> HIDE DEF T
  <2> QED
    BY <1>1, <1>2, <2>1, Induction
<1>4. j + (k - j) = k /\ k <= MaxNodes
  OBVIOUS
<1> QED
  BY <1>3, <1>4

LEMMA NodeCount == IsFiniteSet(Nodes) /\ Cardinality(Nodes) = MaxNodes
<1>1. 1 \in Int /\ MaxNodes \in Int /\ ~(1 > MaxNodes) /\ MaxNodes - 1 + 1 = MaxNodes
  OBVIOUS
<1> QED
  BY <1>1, FS_Interval DEF Nodes

\* The list is made of nodes that were allocated.
LEMMA ListNodes ==
    ASSUME HeapOK
    PROVE  /\ List \in Seq(Nodes)
           /\ \A i \in 1 .. Len(List) : heap[List[i]].state # "unused"
<1> DEFINE linked == {Reached[k] : k \in 0 .. MaxNodes - 1} \ {NULL}
           c == Cardinality(linked)
<1>1. linked \subseteq Nodes
  BY ReachedNodes
<1>2. IsFiniteSet(linked) /\ c \in Nat /\ c <= MaxNodes
  <2> HIDE DEF linked
  <2> QED
    BY <1>1, NodeCount, FS_Subset, FS_CardinalityType
<1>3. ASSUME NEW i \in 1 .. c, Reached[i - 1] = NULL PROVE FALSE
  <2> DEFINE S == 0 .. i - 2
             f == [k \in S |-> Reached[k]]
             T == {Reached[k] : k \in S}
  <2>1. i - 1 \in 0 .. MaxNodes /\ i \in Nat
    BY <1>2
  <2>2. \A k \in i - 1 .. MaxNodes : Reached[k] = NULL
    BY <1>3, <2>1, EndStays
  <2>3. linked \subseteq T
    <3> SUFFICES ASSUME NEW k \in 0 .. MaxNodes - 1, Reached[k] # NULL PROVE k \in S
      OBVIOUS
    <3>1. k \notin i - 1 .. MaxNodes
      BY <2>2
    <3> QED
      BY <2>1, <3>1
  <2>4. f \in Surjection(S, T)
    BY DEF Surjection
  <2>5. IsFiniteSet(S) /\ Cardinality(S) = i - 1
    <3>1. 0 \in Int /\ i - 2 \in Int
      BY <2>1
    <3>2. Cardinality(S) = IF 0 > i - 2 THEN 0 ELSE (i - 2) - 0 + 1
      BY <3>1, FS_Interval
    <3>3. i >= 1
      OBVIOUS
    <3> QED
      BY <2>1, <3>1, <3>2, <3>3, FS_Interval
  <2> HIDE DEF S, f, T, linked
  <2>6. IsFiniteSet(T) /\ Cardinality(T) <= i - 1
    BY <2>4, <2>5, FS_Surjection
  <2>7. c <= Cardinality(T) /\ Cardinality(T) \in Nat
    BY <2>3, <2>6, FS_Subset, FS_CardinalityType
  <2> QED
    BY <1>2, <2>1, <2>6, <2>7
<1>4. List = [i \in 1 .. c |-> Reached[i - 1]]
  BY DEF List
<1> HIDE DEF linked
<1> HIDE DEF c
<1>5. ASSUME NEW i \in 1 .. c
      PROVE  Reached[i - 1] \in Nodes /\ heap[Reached[i - 1]].state # "unused"
  <2>1. i - 1 \in 0 .. MaxNodes
    BY <1>2
  <2> QED
    BY <1>3, <2>1, ReachedNodes
<1>6. List \in Seq(Nodes) /\ Len(List) = c
  BY <1>2, <1>4, <1>5
<1> QED
  BY <1>4, <1>5, <1>6

LEMMA DistinctNodes ==
    ASSUME NEW c \in Seq(Nodes), \A i, j \in 1 .. Len(c) : c[i] = c[j] => i = j
    PROVE  Len(c) \in 0 .. MaxNodes
<1> DEFINE m == Len(c)
<1>1. m \in Nat /\ DOMAIN c = 1 .. m /\ c \in [1 .. m -> Nodes]
  BY LenProperties
<1>2. c \in Injection(1 .. m, Nodes)
  BY <1>1 DEF Injection, IsInjective
<1>3. Cardinality(1 .. m) <= MaxNodes
  BY <1>2, NodeCount, FS_Injection
<1>4. 1 \in Int /\ m \in Int /\ (1 > m => m = 0) /\ m - 1 + 1 = m
  BY <1>1
<1>5. Cardinality(1 .. m) = m
  BY <1>4, FS_Interval
<1> QED
  BY <1>1, <1>3, <1>5

-----------------------------------------------------------------------------
(* Lists that may come back to one of their nodes. *)

\* The list is c, and ends or goes on with one of its nodes.
IsWalk(c) ==
    /\ \A i, j \in 1 .. Len(c) : c[i] = c[j] => i = j
    /\ creds = IF c = <<>> THEN NULL ELSE c[1]
    /\ \A i \in 1 .. Len(c) :
          IF i = Len(c) THEN heap[c[i]].next \in {NULL} \cup {c[j] : j \in 1 .. Len(c)}
                        ELSE heap[c[i]].next = c[i + 1]

LEMMA WalkReached ==
    ASSUME NEW c \in Seq(Nodes), IsWalk(c), NEW k \in 0 .. MaxNodes
    PROVE  IF k < Len(c) THEN Reached[k] = c[k + 1]
           ELSE /\ Reached[k] \in {NULL} \cup {c[j] : j \in 1 .. Len(c)}
                /\ c # <<>> /\ heap[c[Len(c)]].next # NULL => Reached[k] # NULL
<1> DEFINE m == Len(c)
           R == {c[j] : j \in 1 .. m}
           loops == c # <<>> /\ heap[c[m]].next # NULL
           OK(n) == IF n < m THEN Reached[n] = c[n + 1]
                    ELSE Reached[n] \in {NULL} \cup R /\ (loops => Reached[n] # NULL)
           T == {n \in Nat : n <= MaxNodes => OK(n)}
<1>1. m \in Nat /\ \A i \in 1 .. m : c[i] \in Nodes /\ c[i] # NULL
  BY LenProperties, ElementOfSeq DEF Nodes, NULL
<1>2. c = <<>> <=> m = 0
  BY EmptySeq
<1>3. \A i \in 1 .. m : IF i = m THEN heap[c[i]].next \in {NULL} \cup R
                        ELSE heap[c[i]].next = c[i + 1]
  BY DEF IsWalk
<1>4. creds = IF m = 0 THEN NULL ELSE c[1]
  BY <1>2 DEF IsWalk
<1>5. loops => m # 0
  BY <1>2
<1>6. loops <=> m # 0 /\ heap[c[m]].next # NULL
  BY <1>2
<1> HIDE DEF loops, m
<1>7. 0 \in T
  <2>1. Reached[0] = creds
    BY ReachedSteps
  <2> QED
    BY <1>1, <1>4, <1>5, <2>1
<1>8. ASSUME NEW n \in Nat, n \in T PROVE n + 1 \in T
  <2> SUFFICES ASSUME n + 1 <= MaxNodes PROVE OK(n + 1)
    <3> HIDE DEF OK
    <3> QED
      OBVIOUS
  <2>1. OK(n)
    BY <1>8
  <2>2. Reached[n + 1] = After(Reached[n])
    <3>1. n + 1 \in 0 .. MaxNodes /\ n + 1 # 0 /\ (n + 1) - 1 = n
      OBVIOUS
    <3> QED
      BY <3>1, ReachedSteps
  <2>3. ASSUME NEW j \in 1 .. m, Reached[n] = c[j]
        PROVE  Reached[n + 1] = heap[c[j]].next
    BY <1>1, <2>2, <2>3 DEF After
  <2>4. CASE n + 1 < m
    <3>1. n < m /\ n + 1 \in 1 .. m /\ n + 1 # m
      BY <1>1, <2>4
    <3> QED
      BY <1>3, <2>1, <2>3, <2>4, <3>1
  <2>5. CASE n + 1 = m
    <3>1. n < m /\ n + 1 \in 1 .. m /\ ~(n + 1 < m)
      BY <1>1, <2>5
    <3>2. Reached[n + 1] = heap[c[m]].next /\ heap[c[m]].next \in {NULL} \cup R
      BY <1>3, <2>1, <2>3, <2>5, <3>1
    <3> QED
      BY <1>6, <3>1, <3>2
  <2>6. CASE ~(n + 1 < m) /\ n + 1 # m
    <3>1. ~(n < m)
      BY <1>1, <2>6
    <3>2. Reached[n] \in {NULL} \cup R /\ (loops => Reached[n] # NULL)
      BY <2>1, <3>1
    <3>3. CASE Reached[n] = NULL
      BY <2>2, <2>6, <3>2, <3>3 DEF After
    <3>4. ASSUME NEW j \in 1 .. m, Reached[n] = c[j]
          PROVE  Reached[n + 1] \in {NULL} \cup R /\ (loops => Reached[n + 1] # NULL)
      <4>1. Reached[n + 1] = heap[c[j]].next
        BY <2>3, <3>4
      <4>2. CASE j = m
        BY <1>3, <1>6, <4>1, <4>2
      <4>3. CASE j # m
        <5>1. j + 1 \in 1 .. m
          BY <1>1, <4>3
        <5>2. Reached[n + 1] = c[j + 1]
          BY <1>3, <4>1, <4>3
        <5> QED
          BY <1>1, <5>1, <5>2
      <4> QED
        BY <4>2, <4>3
    <3>5. Reached[n] \in R => \E j \in 1 .. m : Reached[n] = c[j]
      OBVIOUS
    <3> QED
      BY <2>6, <3>2, <3>3, <3>4, <3>5
  <2> QED
    BY <1>1, <2>4, <2>5, <2>6
<1>9. k \in T
  <2> HIDE DEF T
  <2> QED
    BY <1>7, <1>8, Induction
<1> QED
  BY <1>9 DEF loops, m

LEMMA WalkList ==
    ASSUME NEW c \in Seq(Nodes), IsWalk(c)
    PROVE  List = c /\ (c # <<>> /\ heap[c[Len(c)]].next # NULL => Cyclic)
<1> DEFINE m == Len(c)
           linked == {Reached[k] : k \in 0 .. MaxNodes - 1} \ {NULL}
<1>1. m \in 0 .. MaxNodes
  BY DistinctNodes DEF IsWalk
<1>2. /\ DOMAIN c = 1 .. m /\ c \in [1 .. m -> Nodes]
      /\ \A i \in 1 .. m : c[i] \in Nodes /\ c[i] # NULL
  BY LenProperties, ElementOfSeq DEF Nodes, NULL
<1>3. \A k \in 0 .. MaxNodes : IF k < m THEN Reached[k] = c[k + 1]
                               ELSE Reached[k] \in {NULL} \cup {c[j] : j \in 1 .. m}
  BY WalkReached
<1>4. c # <<>> /\ heap[c[m]].next # NULL => Cyclic
  <2>1. MaxNodes \in 0 .. MaxNodes /\ ~(MaxNodes < m)
    BY <1>1
  <2> QED
    BY <2>1, WalkReached DEF Cyclic
<1>5. linked = {c[i] : i \in 1 .. m}
  <2>1. ASSUME NEW n \in linked PROVE n \in {c[i] : i \in 1 .. m}
    <3>1. PICK k \in 0 .. MaxNodes - 1 : n = Reached[k] /\ n # NULL
      BY <2>1
    <3>2. k \in 0 .. MaxNodes
      BY <3>1
    <3>3. CASE k < m
      <4>1. k + 1 \in 1 .. m /\ n = c[k + 1]
        BY <1>1, <1>3, <3>1, <3>2, <3>3
      <4> QED
        BY <4>1
    <3>4. CASE ~(k < m)
      BY <1>3, <3>1, <3>2, <3>4
    <3> QED
      BY <3>3, <3>4
  <2>2. ASSUME NEW i \in 1 .. m PROVE c[i] \in linked
    <3> DEFINE k == i - 1
    <3>1. k \in 0 .. MaxNodes - 1 /\ k \in 0 .. MaxNodes /\ k < m /\ k + 1 = i
      <4> HIDE DEF m
      <4> QED
        BY <1>1
    <3> HIDE DEF k
    <3>2. Reached[k] = c[i]
      BY <1>3, <3>1
    <3> QED
      BY <1>2, <3>1, <3>2
  <2> QED
    BY <2>1, <2>2
<1>6. Cardinality(linked) = m
  <2>1. c \in Bijection(1 .. m, linked)
    <3>1. c \in [1 .. m -> linked]
      BY <1>2, <1>5
    <3>2. IsInjective(c)
      BY <1>2 DEF IsInjective, IsWalk
    <3>3. \A t \in linked : \E i \in 1 .. m : c[i] = t
      BY <1>5
    <3> HIDE DEF linked, m
    <3> QED
      BY <3>1, <3>2, <3>3 DEF Injection, Surjection, Bijection
  <2> HIDE DEF linked
  <2> QED
    BY <1>1, <2>1, FS_CountingElements DEF ExistsBijection
<1>7. List = [i \in 1 .. m |-> Reached[i - 1]]
  BY <1>6 DEF List
<1>8. \A i \in 1 .. m : Reached[i - 1] = c[i]
  <2> SUFFICES ASSUME NEW i \in 1 .. m PROVE Reached[i - 1] = c[i]
    OBVIOUS
  <2>1. i - 1 \in 0 .. MaxNodes /\ i - 1 < m /\ (i - 1) + 1 = i
    BY <1>1
  <2> QED
    BY <1>3, <2>1
<1>9. c = [i \in 1 .. m |-> c[i]]
  BY <1>2
<1> QED
  BY <1>4, <1>7, <1>8, <1>9

\* The list goes on until it ends or comes to a node for the second time.
LEMMA ListWalk ==
    ASSUME HeapOK
    PROVE  IsWalk(List)
<1> DEFINE S == {k \in Nat : /\ k <= MaxNodes
                             /\ Reached[k] = NULL \/ \E j \in 0 .. k - 1 : Reached[j] = Reached[k]}
           c(l) == [i \in 1 .. l |-> Reached[i - 1]]
<1>1. \A k \in 0 .. MaxNodes : Reached[k] \in Nodes \cup {NULL}
  BY ReachedNodes
<1>2. ASSUME NEW l \in 0 .. MaxNodes + 1, \A k \in 0 .. l - 1 : k \notin S
      PROVE  /\ c(l) \in Seq(Nodes) /\ Len(c(l)) = l
             /\ \A i, j \in 1 .. l : c(l)[i] = c(l)[j] => i = j
  <2>1. \A i \in 1 .. l : i - 1 \in 0 .. MaxNodes /\ i - 1 \in Nat /\ i - 1 \in 0 .. l - 1
    OBVIOUS
  <2>2. \A i \in 1 .. l : Reached[i - 1] \in Nodes
    BY <1>1, <1>2, <2>1
  <2>3. ASSUME NEW i \in 1 .. l, NEW j \in 1 .. l, i < j PROVE Reached[i - 1] # Reached[j - 1]
    <3>1. i - 1 \in 0 .. (j - 1) - 1
      BY <2>3
    <3>2. j - 1 \notin S /\ j - 1 \in Nat /\ j - 1 <= MaxNodes
      BY <1>2, <2>1
    <3> QED
      BY <3>1, <3>2
  <2>4. ASSUME NEW i \in 1 .. l, NEW j \in 1 .. l, Reached[i - 1] = Reached[j - 1] PROVE i = j
    <3>1. ~(i < j) /\ ~(j < i)
      BY <2>3, <2>4
    <3> QED
      BY <3>1
  <2> HIDE DEF S
  <2>5. l \in Nat
    OBVIOUS
  <2>6. c(l) \in Seq(Nodes) /\ Len(c(l)) = l
    BY <2>2, <2>5
  <2> QED
    BY <2>4, <2>6
<1>3. S # {}
  <2> SUFFICES ASSUME S = {} PROVE FALSE
    OBVIOUS
  <2> DEFINE l == MaxNodes + 1
  <2>1. l \in 0 .. MaxNodes + 1 /\ l \notin 0 .. MaxNodes
    OBVIOUS
  <2>2. c(l) \in Seq(Nodes) /\ Len(c(l)) = l /\ \A i, j \in 1 .. l : c(l)[i] = c(l)[j] => i = j
    <3> HIDE DEF S, c, l
    <3> QED
      BY <1>2, <2>1
  <2> HIDE DEF c, l
  <2> QED
    BY <2>1, <2>2, DistinctNodes
<1>4. S \in SUBSET Nat
  OBVIOUS
<1> DEFINE m == Min(S)
           d == c(m)
<1>5. m \in S /\ \A y \in S : m <= y
  <2> HIDE DEF S
  <2> QED
    BY <1>3, <1>4, Least
<1>6. m \in 0 .. MaxNodes /\ (Reached[m] = NULL \/ \E j \in 0 .. m - 1 : Reached[j] = Reached[m])
  <2> HIDE DEF m
  <2> QED
    BY <1>5
<1> HIDE DEF m
<1>7. \A k \in 0 .. m - 1 : k \notin S
  <2> HIDE DEF S
  <2> QED
    BY <1>5, <1>6
<1>8. d \in Seq(Nodes) /\ Len(d) = m /\ \A i, j \in 1 .. m : d[i] = d[j] => i = j
  <2>1. m \in 0 .. MaxNodes + 1
    BY <1>6
  <2> HIDE DEF S, c
  <2> QED
    BY <1>2, <1>7, <2>1
<1>9. \A i \in 1 .. m : d[i] = Reached[i - 1] /\ d[i] \in Nodes
  BY <1>8, ElementOfSeq
<1> HIDE DEF d, S
<1>10. creds = IF d = <<>> THEN NULL ELSE d[1]
  <2>1. Reached[0] = creds
    BY ReachedSteps
  <2>2. d = <<>> <=> m = 0
    BY <1>8, EmptySeq
  <2>3. CASE m = 0
    BY <1>6, <2>1, <2>2, <2>3
  <2>4. CASE m # 0
    <3>1. 1 \in 1 .. m /\ 1 - 1 = 0
      BY <1>6, <2>4
    <3>2. d[1] = Reached[0]
      BY <1>9, <3>1
    <3> QED
      BY <2>1, <2>2, <2>4, <3>2
  <2> QED
    BY <2>3, <2>4
<1>11. ASSUME NEW i \in 1 .. m
       PROVE  IF i = m THEN heap[d[i]].next \in {NULL} \cup {d[j] : j \in 1 .. m}
              ELSE heap[d[i]].next = d[i + 1]
  <2>1. heap[d[i]].next = Reached[i]
    <3>1. i \in 0 .. MaxNodes /\ i # 0
      BY <1>6
    <3>2. Reached[i] = After(Reached[i - 1])
      BY <3>1, ReachedSteps
    <3>3. d[i] # NULL
      BY <1>9 DEF Nodes, NULL
    <3> QED
      BY <1>9, <3>2, <3>3 DEF After
  <2>2. CASE i = m
    <3>1. ASSUME NEW j \in 0 .. m - 1, Reached[j] = Reached[m]
          PROVE  Reached[m] \in {d[a] : a \in 1 .. m}
      <4>1. j + 1 \in 1 .. m /\ (j + 1) - 1 = j
        BY <1>6
      <4>2. d[j + 1] = Reached[m]
        BY <1>9, <3>1, <4>1
      <4> QED
        BY <4>1, <4>2
    <3> QED
      BY <1>6, <2>1, <2>2, <3>1
  <2>3. CASE i # m
    <3>1. i + 1 \in 1 .. m /\ (i + 1) - 1 = i
      BY <1>6, <2>3
    <3> QED
      BY <1>9, <2>1, <2>3, <3>1
  <2> QED
    BY <2>2, <2>3
<1>12. IsWalk(d)
  BY <1>8, <1>10, <1>11 DEF IsWalk
<1> QED
  BY <1>8, <1>12, WalkList

-----------------------------------------------------------------------------
(* Lists that end. *)

\* The list ends, and is c.
IsChain(c) ==
    /\ \A i, j \in 1 .. Len(c) : c[i] = c[j] => i = j
    /\ creds = IF c = <<>> THEN NULL ELSE c[1]
    /\ \A i \in 1 .. Len(c) : heap[c[i]].next = IF i = Len(c) THEN NULL ELSE c[i + 1]

LEMMA ChainReached ==
    ASSUME NEW c \in Seq(Nodes), IsChain(c)
    PROVE  /\ Len(c) \in 0 .. MaxNodes
           /\ \A k \in 0 .. MaxNodes : Reached[k] = IF k < Len(c) THEN c[k + 1] ELSE NULL
<1> DEFINE m == Len(c)
<1>1. m \in Nat /\ DOMAIN c = 1 .. m /\ \A i \in 1 .. m : c[i] \in Nodes
  BY LenProperties, ElementOfSeq
<1>2. m <= MaxNodes
  <2>1. Len(c) \in 0 .. MaxNodes
    BY DistinctNodes DEF IsChain
  <2> QED
    BY <2>1
<1>3. c = <<>> <=> m = 0
  BY EmptySeq
<1> DEFINE OK(k) == Reached[k] = IF k < m THEN c[k + 1] ELSE NULL
           T == {k \in Nat : k <= MaxNodes => OK(k)}
<1>4. 0 \in T
  <2>1. Reached[0] = creds
    BY ReachedSteps
  <2>2. creds = IF m = 0 THEN NULL ELSE c[1]
    BY <1>3 DEF IsChain
  <2> QED
    BY <1>1, <2>1, <2>2
<1>5. ASSUME NEW k \in Nat, k \in T PROVE k + 1 \in T
  <2> SUFFICES ASSUME k + 1 <= MaxNodes PROVE OK(k + 1)
    OBVIOUS
  <2>1. OK(k)
    BY <1>5
  <2>2. Reached[k + 1] = After(Reached[k])
    <3>1. k + 1 \in 0 .. MaxNodes /\ k + 1 # 0 /\ (k + 1) - 1 = k
      OBVIOUS
    <3> QED
      BY <3>1, ReachedSteps
  <2>3. CASE k < m
    <3>1. k + 1 \in 1 .. m /\ Reached[k] = c[k + 1]
      BY <1>1, <2>1, <2>3
    <3>2. heap[c[k + 1]].next = IF k + 1 = m THEN NULL ELSE c[(k + 1) + 1]
      BY <3>1 DEF IsChain
    <3>3. c[k + 1] # NULL
      BY <1>1, <3>1 DEF Nodes, NULL
    <3>4. Reached[k + 1] = heap[c[k + 1]].next
      BY <2>2, <3>1, <3>3 DEF After
    <3>5. k + 1 < m <=> k + 1 # m
      <4>1. m \in Nat /\ k < m
        BY <1>1, <2>3
      <4> HIDE DEF m
      <4> QED
        BY <4>1
    <3> QED
      BY <3>2, <3>4, <3>5
  <2>4. CASE ~(k < m)
    <3>1. Reached[k] = NULL /\ ~(k + 1 < m)
      BY <1>1, <2>1, <2>4
    <3> QED
      BY <2>2, <3>1 DEF After
  <2> QED
    BY <2>3, <2>4
<1>6. ASSUME NEW k \in 0 .. MaxNodes PROVE OK(k)
  <2>1. k \in T
    <3> HIDE DEF T
    <3> QED
      BY <1>4, <1>5, Induction
  <2> QED
    BY <2>1
<1> QED
  BY <1>1, <1>2, <1>6

LEMMA ChainList ==
    ASSUME NEW c \in Seq(Nodes), IsChain(c)
    PROVE  IsWalk(c) /\ List = c /\ ~Cyclic
<1>1. IsWalk(c)
  BY DEF IsChain, IsWalk
<1>2. List = c
  BY <1>1, WalkList
<1>3. MaxNodes \in 0 .. MaxNodes /\ ~(MaxNodes < Len(c))
  BY ChainReached
<1>4. ~Cyclic
  BY <1>3, ChainReached DEF Cyclic
<1> QED
  BY <1>1, <1>2, <1>4

\* The results of looking for an entry.
LEMMA FindResult ==
    ASSUME HeapOK, NEW entry, NEW n \in find(entry)
    PROVE  \/ n = CRASH /\ \E m \in Nodes : Freed(m)
           \/ n = HANG /\ Cyclic
           \/ n = NULL /\ \A i \in 1 .. Len(List) : ~Is(List[i], entry)
           \/ /\ n \in Nodes /\ n \notin {CRASH, HANG, NULL}
              /\ \E i \in 1 .. Len(List) : n = List[i]
              /\ Is(n, entry) /\ heap[n].state # "unused" /\ n \in find(entry) \cap Nodes
<1> DEFINE I == {i \in 1 .. Len(List) : Is(List[i], entry)}
           k == IF I # {} THEN Min(I) ELSE 0
           read == IF k = 0 THEN ToSet(List) ELSE ToSet(SubSeq(List, 1, k))
<1>1. List \in Seq(Nodes) /\ \A i \in 1 .. Len(List) : heap[List[i]].state # "unused"
  BY ListNodes
<1>2. Len(List) \in Nat /\ DOMAIN List = 1 .. Len(List) /\ \A i \in 1 .. Len(List) : List[i] \in Nodes
  BY <1>1, LenProperties, ElementOfSeq
<1>3. find(entry) = {IF k # 0 THEN List[k] ELSE IF Cyclic THEN HANG ELSE NULL}
                        \cup {CRASH : m \in {m \in read : Freed(m)}}
  BY DEF find, SelectInSeq
<1>4. I # {} => k \in I
  <2>1. I \in SUBSET Nat
    BY <1>2
  <2> HIDE DEF I
  <2> QED
    BY <2>1, Least
<1>5. k # 0 => k \in 1 .. Len(List) /\ Is(List[k], entry)
  BY <1>4
<1>6. k = 0 => \A i \in 1 .. Len(List) : ~Is(List[i], entry)
  BY <1>4
<1>7. read \subseteq Nodes
  <2>1. CASE k = 0
    BY <1>2, <2>1 DEF ToSet
  <2>2. CASE k # 0
    <3>1. \A i \in 1 .. k : List[i] \in Nodes
      BY <1>2, <1>5, <2>2
    <3>2. 1 \in Int /\ k \in Int
      BY <1>5, <2>2
    <3> HIDE DEF k
    <3>3. SubSeq(List, 1, k) \in Seq(Nodes)
      BY <3>1, <3>2, SubSeqProperties
    <3>4. ToSet(SubSeq(List, 1, k)) \subseteq Nodes
      BY <3>3, ElementOfSeq, LenProperties DEF ToSet
    <3> QED
      BY <2>2, <3>4
  <2> QED
    BY <2>1, <2>2
<1> HIDE DEF read, k, I
<1>8. CASE n = CRASH /\ \E m \in read : Freed(m)
  BY <1>7, <1>8
<1>9. CASE k = 0 /\ n = IF Cyclic THEN HANG ELSE NULL
  BY <1>6, <1>9
<1>10. CASE k # 0 /\ n = List[k]
  <2>1. n \in Nodes /\ Is(n, entry) /\ heap[n].state # "unused" /\ k \in 1 .. Len(List)
    BY <1>1, <1>2, <1>5, <1>10
  <2>2. n \notin {CRASH, HANG, NULL}
    BY <2>1 DEF CRASH, HANG, NULL, Nodes
  <2> QED
    BY <1>10, <2>1, <2>2
<1> QED
  BY <1>3, <1>8, <1>9, <1>10

\* A record with another next, and a node whose memory is freed.
LEMMA NodeUpdates ==
    ASSUME NEW e \in NodeRecords, NEW n \in Nodes \cup {NULL}
    PROVE  /\ [e EXCEPT !.next = n] \in NodeRecords
           /\ [e EXCEPT !.next = n].next = n
           /\ [e EXCEPT !.next = n].state = e.state
           /\ [e EXCEPT !.next = n].entry = e.entry
           /\ [[e EXCEPT !.state = "freed"] EXCEPT !.entry = Garbage] \in NodeRecords
           /\ [[e EXCEPT !.state = "freed"] EXCEPT !.entry = Garbage].next = e.next
           /\ [[e EXCEPT !.state = "freed"] EXCEPT !.entry = Garbage].state = "freed"
           /\ [[e EXCEPT !.state = "freed"] EXCEPT !.entry = Garbage].entry = Garbage
BY DEF NodeRecords

LEMMA NotGarbage == Garbage \notin Credentials
BY DEF Garbage, Credentials

LEMMA NewNode ==
    ASSUME NEW entry \in Credentials
    PROVE  /\ Node(entry) \in NodeRecords /\ Node(entry).state = "live"
           /\ Node(entry).entry = entry /\ Node(entry).next = NULL
BY DEF Node, NodeRecords

LEMMA EntryType ==
    ASSUME NEW host \in Hosts, NEW port \in Ports
    PROVE  /\ [host |-> host, port |-> Port(port)] \in Credentials
           /\ Entry(host, port) = [host |-> host, port |-> Port(port)]
BY DEF Port, Credentials, Entry

\* What a step that leaves the links alone does to the heap and to a list that ends.
LEMMA Freeing ==
    ASSUME HeapOK, NEW n \in Nodes, heap[n].state # "unused", free(n), UNCHANGED creds
    PROVE  /\ HeapOK'
           /\ \A m \in Nodes : heap'[m].next = heap[m].next
           /\ \A m \in Nodes : heap'[m].entry # Garbage => heap'[m].entry = heap[m].entry
<1> DEFINE e == heap[n]
           g == [[e EXCEPT !.state = "freed"] EXCEPT !.entry = Garbage]
<1>1. e \in NodeRecords /\ heap \in [Nodes -> NodeRecords]
  BY DEF HeapOK
<1>2. heap' = [heap EXCEPT ![n] = g]
  BY <1>1 DEF free
<1>3. g \in NodeRecords /\ g.next = e.next /\ g.state = "freed" /\ g.entry = Garbage
  BY <1>1, NodeUpdates
<1> HIDE DEF g
<1>4. heap' \in [Nodes -> NodeRecords]
  BY <1>1, <1>2, <1>3
<1>5. \A m \in Nodes : heap'[m] = IF m = n THEN g ELSE heap[m]
  BY <1>1, <1>2
<1>6. \A m \in Nodes : heap'[m].next = heap[m].next /\ (heap'[m].state = "unused" <=> heap[m].state = "unused")
  BY <1>3, <1>5
<1>7. \A m \in Nodes : heap'[m].state = "unused" => heap'[m] = Unused
  BY <1>3, <1>5 DEF HeapOK
<1>8. \A m \in Nodes : heap'[m].state = "live" <=> heap'[m].entry \in Credentials
  BY <1>3, <1>5, NotGarbage DEF HeapOK
<1>9. \A m \in Nodes : heap[m].next \in Nodes \cup {NULL}
  BY <1>1, NodeFields
<1>10. \A m \in Nodes : heap'[m].next # NULL => heap'[heap'[m].next].state # "unused"
  BY <1>6, <1>9 DEF HeapOK
<1>11. creds # NULL => heap'[creds].state # "unused"
  BY <1>6 DEF HeapOK
<1> QED
  BY <1>3, <1>4, <1>5, <1>6, <1>7, <1>8, <1>10, <1>11 DEF HeapOK

LEMMA ChainKept ==
    ASSUME NEW c \in Seq(Nodes), IsChain(c), UNCHANGED creds,
           \A m \in Nodes : heap'[m].next = heap[m].next
    PROVE  IsChain(c)'
<1>1. \A i \in 1 .. Len(c) : c[i] \in Nodes
  BY ElementOfSeq
<1>2. \A i \in 1 .. Len(c) : heap'[c[i]].next = heap[c[i]].next
  BY <1>1
<1> QED
  BY <1>2 DEF IsChain


-----------------------------------------------------------------------------
(* A node is inserted. *)

LEMMA AllocatableNodes ==
    ASSUME HeapOK, NEW n \in Allocatable
    PROVE  n \in Nodes /\ (Freed(n) \/ heap[n].state = "unused")
<1> DEFINE unused == {m \in Nodes : heap[m].state = "unused"}
<1>1. unused # {} => Min(unused) \in unused
  <2>1. unused \in SUBSET Nat
    BY DEF Nodes
  <2> HIDE DEF unused
  <2> QED
    BY <2>1, Least
<1>2. n \in {m \in Nodes : Freed(m)} \cup (IF unused = {} THEN {} ELSE {Min(unused)})
  BY DEF Allocatable
<1> QED
  BY <1>1, <1>2

\* A list that has a head has nodes.
LEMMA ListHead ==
    ASSUME HeapOK, creds # NULL
    PROVE  List # <<>> /\ Len(List) \in Nat \ {0} /\ Last(List) \in Nodes
           /\ heap[Last(List)].state # "unused"
<1> DEFINE linked == {Reached[k] : k \in 0 .. MaxNodes - 1} \ {NULL}
           c == Cardinality(linked)
<1>1. creds \in linked
  <2>1. 0 \in 0 .. MaxNodes - 1 /\ 0 \in 0 .. MaxNodes
    OBVIOUS
  <2>2. Reached[0] = creds
    BY <2>1, ReachedSteps
  <2> QED
    BY <2>1, <2>2
<1>2. linked \subseteq Nodes
  BY ReachedNodes
<1>3. IsFiniteSet(linked) /\ c \in Nat /\ c # 0
  <2> HIDE DEF linked
  <2> QED
    BY <1>1, <1>2, NodeCount, FS_Subset, FS_CardinalityType, FS_EmptySet
<1>4. List = [i \in 1 .. c |-> Reached[i - 1]]
  BY DEF List
<1>5. List \in Seq(Nodes) /\ \A i \in 1 .. Len(List) : heap[List[i]].state # "unused"
  BY ListNodes
<1> HIDE DEF c, linked
<1>6. Len(List) = c
  BY <1>3, <1>4, <1>5, LenProperties
<1>7. Len(List) \in 1 .. Len(List) /\ List # <<>>
  BY <1>3, <1>5, <1>6, EmptySeq
<1>8. Last(List) = List[Len(List)]
  BY DEF Last
<1> QED
  BY <1>3, <1>5, <1>6, <1>7, <1>8, ElementOfSeq

\* The heap after node n was inserted.
Inserted(n, entry) ==
    /\ creds' = IF creds = NULL THEN n ELSE creds
    /\ process' = process
    /\ \A m \in Nodes :
          /\ heap'[m].state = IF m = n THEN "live" ELSE heap[m].state
          /\ heap'[m].entry = IF m = n THEN entry ELSE heap[m].entry
          /\ heap'[m].next = IF m = n THEN NULL
                             ELSE IF creds # NULL /\ m = Last(List) THEN n ELSE heap[m].next

LEMMA Inserting ==
    ASSUME HeapOK, ~Cyclic, NEW entry \in Credentials, insert(entry)
    PROVE  HeapOK' /\ \E n \in Allocatable : Inserted(n, entry)
<1>1. PICK n \in Allocatable :
         /\ IF creds = NULL
            THEN creds' = n /\ heap' = [heap EXCEPT ![n] = Node(entry)]
            ELSE /\ heap' = [heap EXCEPT ![Last(List)].next = n, ![n] = Node(entry)]
                 /\ UNCHANGED creds
         /\ UNCHANGED process
  BY DEF insert
<1>2. n \in Nodes /\ (Freed(n) \/ heap[n].state = "unused")
  BY AllocatableNodes
<1>3. heap \in [Nodes -> NodeRecords]
  BY DEF HeapOK
<1> DEFINE g == Node(entry)
<1>4. g \in NodeRecords /\ g.state = "live" /\ g.entry = entry /\ g.next = NULL
  BY NewNode
<1>5. heap' \in [Nodes -> NodeRecords] /\ Inserted(n, entry)
  <2>1. CASE creds = NULL
    <3>1. heap' = [heap EXCEPT ![n] = g] /\ creds' = n /\ process' = process
      BY <1>1, <2>1
    <3> HIDE DEF g
    <3>2. \A m \in Nodes : heap'[m] = IF m = n THEN g ELSE heap[m]
      BY <1>2, <1>3, <3>1
    <3>3. heap' \in [Nodes -> NodeRecords]
      BY <1>2, <1>3, <1>4, <3>1
    <3> QED
      BY <1>4, <2>1, <3>1, <3>2, <3>3 DEF Inserted
  <2>2. CASE creds # NULL
    <3> DEFINE l == Last(List)
               h == [heap[l] EXCEPT !.next = n]
    <3>1. l \in Nodes
      BY <2>2, ListHead
    <3>2. h \in NodeRecords /\ h.next = n /\ h.state = heap[l].state /\ h.entry = heap[l].entry
      <4>1. heap[l] \in NodeRecords /\ n \in Nodes \cup {NULL}
        BY <1>2, <1>3, <3>1
      <4> HIDE DEF l
      <4> QED
        BY <4>1, NodeUpdates
    <3>3. heap' = [[heap EXCEPT ![l] = h] EXCEPT ![n] = g] /\ creds' = creds /\ process' = process
      BY <1>1, <1>3, <2>2, <3>1
    <3> HIDE DEF h, l, g
    <3>4. \A m \in Nodes : heap'[m] = IF m = n THEN g ELSE IF m = l THEN h ELSE heap[m]
      BY <1>2, <1>3, <3>1, <3>3
    <3>5. heap' \in [Nodes -> NodeRecords]
      BY <1>2, <1>3, <1>4, <3>1, <3>2, <3>3
    <3>6. \A m \in Nodes :
             /\ heap'[m].state = IF m = n THEN "live" ELSE heap[m].state
             /\ heap'[m].entry = IF m = n THEN entry ELSE heap[m].entry
             /\ heap'[m].next = IF m = n THEN NULL ELSE IF m = l THEN n ELSE heap[m].next
      BY <1>4, <3>2, <3>4
    <3> QED
      BY <2>2, <3>3, <3>5, <3>6 DEF Inserted, l
  <2> QED
    BY <2>1, <2>2
<1>6. \A m \in Nodes : heap[m].next \in Nodes \cup {NULL}
  BY <1>3, NodeFields
<1>7. \A m \in Nodes : heap'[m].state = "unused" => m # n /\ heap[m].state = "unused"
  BY <1>5 DEF Inserted
<1>8. \A m \in Nodes : heap'[m].state = "unused" => heap'[m] = Unused
  <2> SUFFICES ASSUME NEW m \in Nodes, heap'[m].state = "unused" PROVE heap'[m] = Unused
    OBVIOUS
  <2>1. m # n /\ heap[m].state = "unused" /\ heap[m] = Unused
    BY <1>7 DEF HeapOK
  <2>2. ~(creds # NULL /\ m = Last(List))
    BY <2>1, ListHead
  <2>3. heap'[m].entry = heap[m].entry /\ heap'[m].next = heap[m].next /\ heap'[m] \in NodeRecords
        /\ heap[m] \in NodeRecords
    BY <1>3, <1>5, <2>1, <2>2 DEF Inserted
  <2> QED
    BY <2>1, <2>3 DEF NodeRecords
<1>9. \A m \in Nodes : heap'[m].state = "live" <=> heap'[m].entry \in Credentials
  BY <1>5 DEF Inserted, HeapOK
<1>10. \A m \in Nodes : heap'[m].next # NULL => heap'[heap'[m].next].state # "unused"
  BY <1>2, <1>5, <1>6, <1>7 DEF Inserted, HeapOK
<1>11. creds' \in Nodes \cup {NULL} /\ (creds' # NULL => heap'[creds'].state # "unused")
  BY <1>2, <1>5, <1>7 DEF Inserted, HeapOK
<1> QED
  BY <1>5, <1>8, <1>9, <1>10, <1>11 DEF HeapOK

LEMMA Prefix ==
    ASSUME NEW S, NEW s, NEW k \in Nat \ {0}, \A i \in 1 .. k : s[i] \in S
    PROVE  /\ SubSeq(s, 1, k) \in Seq(S) /\ Len(SubSeq(s, 1, k)) = k
           /\ \A i \in 1 .. k : SubSeq(s, 1, k)[i] = s[i]
<1> DEFINE p == SubSeq(s, 1, k)
<1>1. 1 \in Int /\ k \in Int
  OBVIOUS
<1>2. p \in Seq(S)
  BY <1>1, SubSeqProperties
<1>3. Len(p) = IF 1 <= k THEN k - 1 + 1 ELSE 0
  BY <1>1, SubSeqProperties
<1>4. \A i \in 1 .. k - 1 + 1 : p[i] = s[1 + i - 1]
  BY <1>1, SubSeqProperties
<1>5. 1 <= k /\ k - 1 + 1 = k /\ \A i \in 1 .. k : 1 + i - 1 = i
  OBVIOUS
<1> HIDE DEF p
<1>6. Len(p) = k /\ \A i \in 1 .. k : p[i] = s[i]
  BY <1>3, <1>4, <1>5
<1> QED
  BY Zenon, <1>2, <1>6 DEF p

\* A list that ends is followed by one, at the end of which the new node is.
LEMMA ChainInserted ==
    ASSUME HeapOK, NEW c \in Seq(Nodes), IsChain(c), NEW entry, NEW n \in Nodes, Inserted(n, entry)
    PROVE  \E d \in Seq(Nodes) :
              /\ IsChain(d)'
              /\ (\A i \in 1 .. Len(c) : c[i] # n) => d = Append(c, n)
              /\ Len(d) \in 1 .. Len(c) + 1 /\ d[Len(d)] = n
              /\ \A i \in 1 .. Len(d) - 1 : d[i] = c[i] /\ c[i] # n
<1>1. Len(c) \in Nat /\ \A i \in 1 .. Len(c) : c[i] \in Nodes
  BY LenProperties, ElementOfSeq
<1>2. List = c
  BY ChainList
<1>3. c = <<>> <=> Len(c) = 0
  BY EmptySeq
<1>4. creds = NULL <=> c = <<>>
  BY <1>1, <1>3 DEF IsChain, NULL, Nodes
<1>5. Last(c) = c[Len(c)]
  BY DEF Last
<1>6. CASE \A i \in 1 .. Len(c) : c[i] # n
  <2> DEFINE d == Append(c, n)
  <2>1. d \in Seq(Nodes) /\ Len(d) = Len(c) + 1 /\ d[Len(c) + 1] = n
        /\ \A i \in 1 .. Len(c) : d[i] = c[i]
    BY AppendProperties
  <2> HIDE DEF d
  <2>2. ASSUME NEW i \in 1 .. Len(d), NEW j \in 1 .. Len(d), d[i] = d[j] PROVE i = j
    <3>1. i \in 1 .. Len(c) \/ i = Len(c) + 1
      BY <1>1, <2>1
    <3>2. j \in 1 .. Len(c) \/ j = Len(c) + 1
      BY <1>1, <2>1
    <3>3. \A a, b \in 1 .. Len(c) : c[a] = c[b] => a = b
      BY DEF IsChain
    <3> QED
      BY <1>6, <2>1, <2>2, <3>1, <3>2, <3>3
  <2>3. d # <<>> /\ creds' = d[1]
    <3>1. d # <<>>
      BY <1>1, <2>1, EmptySeq
    <3>2. CASE c = <<>>
      BY <1>3, <1>4, <2>1, <3>2 DEF Inserted
    <3>3. CASE c # <<>>
      <4>1. 1 \in 1 .. Len(c)
        BY <1>1, <1>3, <3>3
      <4> QED
        BY <1>4, <2>1, <3>3, <4>1 DEF Inserted, IsChain
    <3> QED
      BY <3>1, <3>2, <3>3
  <2>4. ASSUME NEW i \in 1 .. Len(d)
        PROVE  heap'[d[i]].next = IF i = Len(d) THEN NULL ELSE d[i + 1]
    <3>1. CASE i = Len(c) + 1
      BY <2>1, <3>1 DEF Inserted
    <3>2. CASE i \in 1 .. Len(c)
      <4>1. d[i] = c[i] /\ c[i] \in Nodes /\ c[i] # n /\ i # Len(d)
        BY <1>1, <1>6, <2>1, <3>2
      <4>2. heap'[c[i]].next = IF c[i] = c[Len(c)] THEN n ELSE heap[c[i]].next
        <5>1. c # <<>>
          BY <1>1, <1>3, <3>2
        <5> QED
          BY <1>2, <1>4, <1>5, <4>1, <5>1 DEF Inserted
      <4>3. c[i] = c[Len(c)] <=> i = Len(c)
        <5>1. Len(c) \in 1 .. Len(c)
          BY <1>1, <3>2
        <5> QED
          BY <3>2, <5>1 DEF IsChain
      <4>4. CASE i = Len(c)
        BY <2>1, <4>1, <4>2, <4>4
      <4>5. CASE i # Len(c)
        <5>1. i + 1 \in 1 .. Len(c)
          BY <1>1, <3>2, <4>5
        <5>2. heap[c[i]].next = c[i + 1]
          BY <3>2, <4>5 DEF IsChain
        <5> QED
          BY <2>1, <4>1, <4>2, <4>3, <4>5, <5>1, <5>2
      <4> QED
        BY <4>4, <4>5
    <3> QED
      BY <1>1, <2>1, <3>1, <3>2
  <2>5. IsChain(d)'
    BY <2>2, <2>3, <2>4 DEF IsChain
  <2>6. Len(d) \in 1 .. Len(c) + 1 /\ d[Len(d)] = n
        /\ \A i \in 1 .. Len(d) - 1 : d[i] = c[i] /\ c[i] # n
    BY <1>1, <1>6, <2>1
  <2> QED
    BY <2>1, <2>5, <2>6 DEF d
<1>7. ASSUME NEW k \in 1 .. Len(c), c[k] = n
      PROVE  \E d \in Seq(Nodes) :
                /\ IsChain(d)'
                /\ Len(d) \in 1 .. Len(c) + 1 /\ d[Len(d)] = n
                /\ \A i \in 1 .. Len(d) - 1 : d[i] = c[i] /\ c[i] # n
  <2> DEFINE d == SubSeq(c, 1, k)
  <2>1. d \in Seq(Nodes) /\ Len(d) = k /\ \A i \in 1 .. k : d[i] = c[i]
    <3>1. k \in Nat \ {0} /\ \A i \in 1 .. k : c[i] \in Nodes
      BY <1>1
    <3> QED
      BY <3>1, Prefix
  <2> HIDE DEF d
  <2>2. \A a, b \in 1 .. Len(c) : c[a] = c[b] => a = b
    BY DEF IsChain
  <2>3. \A i \in 1 .. k : i \in 1 .. Len(c)
    BY <1>1
  <2>4. \A i, j \in 1 .. Len(d) : d[i] = d[j] => i = j
    BY <2>1, <2>2, <2>3
  <2>5. d # <<>> /\ creds' = d[1]
    <3>1. 1 \in 1 .. k /\ k # 0 /\ 1 \in 1 .. Len(c) /\ c # <<>>
      BY <1>1, <1>3
    <3>2. d # <<>>
      BY <2>1, <3>1, EmptySeq
    <3> QED
      BY <1>4, <2>1, <3>1, <3>2 DEF Inserted, IsChain
  <2>6. ASSUME NEW i \in 1 .. Len(d)
        PROVE  heap'[d[i]].next = IF i = Len(d) THEN NULL ELSE d[i + 1]
    <3>1. i \in 1 .. k /\ i \in 1 .. Len(c) /\ d[i] = c[i] /\ c[i] \in Nodes
      BY <1>1, <2>1, <2>3
    <3>2. CASE i = k
      BY <1>7, <2>1, <3>1, <3>2 DEF Inserted
    <3>3. CASE i # k
      <4>1. i + 1 \in 1 .. k /\ i # Len(c)
        BY <1>1, <3>1, <3>3
      <4>2. Len(c) \in 1 .. Len(c)
        BY <1>1
      <4>3. c[i] # n /\ c[i] # c[Len(c)]
        BY <1>7, <2>2, <3>1, <3>3, <4>1, <4>2
      <4>4. heap'[c[i]].next = heap[c[i]].next
        BY <1>2, <1>5, <3>1, <4>3 DEF Inserted
      <4>5. heap[c[i]].next = c[i + 1]
        BY <3>1, <4>1 DEF IsChain
      <4> QED
        BY <2>1, <3>1, <3>3, <4>1, <4>4, <4>5
    <3> QED
      BY <3>2, <3>3
  <2>7. IsChain(d)'
    BY <2>4, <2>5, <2>6 DEF IsChain
  <2>8. Len(d) \in 1 .. Len(c) + 1 /\ d[Len(d)] = n
    BY <1>1, <1>7, <2>1
  <2>9. \A i \in 1 .. Len(d) - 1 : d[i] = c[i] /\ c[i] # n
    <3> SUFFICES ASSUME NEW i \in 1 .. Len(d) - 1 PROVE d[i] = c[i] /\ c[i] # n
      OBVIOUS
    <3>1. i \in 1 .. k /\ i # k /\ i \in 1 .. Len(c)
      BY <1>1, <2>1
    <3> QED
      BY <1>7, <2>1, <2>2, <3>1
  <2> QED
    BY <2>1, <2>7, <2>8, <2>9
<1> QED
  BY <1>6, <1>7


-----------------------------------------------------------------------------
(* A node is taken out. *)

LEMMA Removed ==
    ASSUME NEW S, NEW s \in Seq(S), NEW k \in 1 .. Len(s)
    PROVE  /\ RemoveAt(s, k) \in Seq(S)
           /\ k = 1 => /\ Len(RemoveAt(s, k)) = Len(s) - 1
                       /\ \A i \in 1 .. Len(s) - 1 : RemoveAt(s, k)[i] = s[i + 1]
<1> DEFINE p == SubSeq(s, 1, k - 1)
           q == SubSeq(s, k + 1, Len(s))
<1>1. Len(s) \in Nat /\ \A i \in 1 .. Len(s) : s[i] \in S
  BY LenProperties, ElementOfSeq
<1>2. 1 \in Int /\ k \in Int /\ k - 1 \in Int /\ k + 1 \in Int /\ Len(s) \in Int
  BY <1>1
<1>3. \A i \in 1 .. k - 1 : s[i] \in S
  BY <1>1
<1>4. \A i \in k + 1 .. Len(s) : s[i] \in S
  BY <1>1
<1>5. p \in Seq(S)
  BY <1>2, <1>3, SubSeqProperties
<1>6. q \in Seq(S)
  BY <1>2, <1>4, SubSeqProperties
<1>7. RemoveAt(s, k) = p \o q
  BY DEF RemoveAt
<1>8. ASSUME k = 1
      PROVE  Len(q) = Len(s) - 1 /\ \A i \in 1 .. Len(s) - 1 : q[i] = s[i + 1]
  <2> DEFINE r == SubSeq(s, 2, Len(s))
  <2>1. 2 \in Int /\ \A i \in 2 .. Len(s) : s[i] \in S
    BY <1>1
  <2>2. Len(r) = IF 2 <= Len(s) THEN Len(s) - 2 + 1 ELSE 0
    BY <1>2, <2>1, SubSeqProperties
  <2>3. \A i \in 1 .. Len(s) - 2 + 1 : r[i] = s[2 + i - 1]
    BY <1>2, <2>1, SubSeqProperties
  <2>4. q = r
    BY <1>8
  <2>5. Len(s) >= 1 /\ Len(s) - 2 + 1 = Len(s) - 1 /\ \A i \in 1 .. Len(s) - 1 : 2 + i - 1 = i + 1
    BY <1>1
  <2> HIDE DEF p, q, r
  <2>6. Len(r) = Len(s) - 1
    <3>1. Len(s) \in Nat \ {0}
      BY <1>1, <2>5
    <3> DEFINE l == Len(s)
               m == Len(r)
    <3>2. l \in Nat \ {0} /\ m = IF 2 <= l THEN l - 2 + 1 ELSE 0
      BY <2>2, <3>1
    <3> HIDE DEF l, m
    <3>3. m = l - 1
      BY <3>2
    <3> QED
      BY <3>3 DEF l, m
  <2> QED
    BY <2>3, <2>4, <2>5, <2>6
<1>9. k = 1 => p = <<>>
  <2>1. 0 < 1 /\ 1 - 1 = 0 /\ 0 \in Int /\ 1 \in Int
    OBVIOUS
  <2>2. SubSeq(s, 1, 0) = <<>>
    BY <2>1, SubSeqEmpty
  <2> QED
    BY <2>1, <2>2
<1> HIDE DEF p, q
<1>10. p \o q \in Seq(S)
  BY <1>5, <1>6, ConcatProperties
<1>11. k = 1 => p \o q = q
  BY <1>6, <1>9, ConcatEmptySeq
<1> QED
  BY <1>7, <1>8, <1>10, <1>11

LEMMA ChainHeadOut ==
    ASSUME NEW c \in Seq(Nodes), IsChain(c), creds # NULL,
           creds' = heap[creds].next, UNCHANGED heap
    PROVE  /\ c # <<>> /\ Tail(c) \in Seq(Nodes) /\ IsChain(Tail(c))'
           /\ Len(Tail(c)) = Len(c) - 1 /\ \A i \in 1 .. Len(c) - 1 : Tail(c)[i] = c[i + 1]
<1> DEFINE d == Tail(c)
<1>1. c # <<>> /\ creds = c[1]
  BY DEF IsChain
<1>2. Len(c) \in Nat \ {0} /\ \A i \in 1 .. Len(c) : c[i] \in Nodes
  BY <1>1, LenProperties, ElementOfSeq, EmptySeq
<1>3. d \in Seq(Nodes) /\ Len(d) = Len(c) - 1 /\ \A i \in 1 .. Len(c) - 1 : d[i] = c[i + 1]
  BY <1>1, HeadTailProperties
<1>4. d = <<>> <=> Len(d) = 0
  BY <1>3, EmptySeq
<1> HIDE DEF d
<1>5. \A i, j \in 1 .. Len(c) : c[i] = c[j] => i = j
  BY DEF IsChain
<1>6. \A i \in 1 .. Len(c) : heap[c[i]].next = IF i = Len(c) THEN NULL ELSE c[i + 1]
  BY DEF IsChain
<1>7. ASSUME NEW i \in 1 .. Len(d), NEW j \in 1 .. Len(d), d[i] = d[j] PROVE i = j
  <2>1. i + 1 \in 1 .. Len(c) /\ j + 1 \in 1 .. Len(c) /\ c[i + 1] = c[j + 1]
    BY <1>2, <1>3, <1>7
  <2>2. i + 1 = j + 1
    BY <1>5, <2>1
  <2> QED
    BY <1>2, <1>3, <2>2
<1>8. creds' = IF d = <<>> THEN NULL ELSE d[1]
  <2>1. 1 \in 1 .. Len(c)
    BY <1>2
  <2>2. creds' = IF 1 = Len(c) THEN NULL ELSE c[1 + 1]
    BY <1>1, <1>6, <2>1
  <2>3. CASE Len(c) = 1
    BY <1>3, <1>4, <2>2, <2>3
  <2>4. CASE Len(c) # 1
    <3>1. 1 \in 1 .. Len(c) - 1 /\ Len(d) # 0
      BY <1>2, <1>3, <2>4
    <3> QED
      BY <1>3, <1>4, <2>2, <2>4, <3>1
  <2> QED
    BY <2>3, <2>4
<1>9. ASSUME NEW i \in 1 .. Len(d)
      PROVE  heap'[d[i]].next = IF i = Len(d) THEN NULL ELSE d[i + 1]
  <2>1. i + 1 \in 1 .. Len(c) /\ d[i] = c[i + 1] /\ (i + 1 = Len(c) <=> i = Len(d))
    BY <1>2, <1>3
  <2>2. heap'[d[i]].next = IF i = Len(d) THEN NULL ELSE c[(i + 1) + 1]
    BY <1>6, <2>1
  <2>3. i # Len(d) => i + 1 \in 1 .. Len(c) - 1
    BY <1>2, <1>3
  <2> QED
    BY <1>3, <2>2, <2>3
<1>10. IsChain(d)'
  BY <1>7, <1>8, <1>9 DEF IsChain
<1> QED
  BY <1>1, <1>3, <1>10 DEF d

-----------------------------------------------------------------------------
(* The inductive invariant. *)

\* What is cached, of a list that ends.
Holds(c) ==
    /\ Len(ideal) = Len(c)
    /\ \A i \in 1 .. Len(c) : heap[c[i]].entry = ideal[i]

\* Without the removal of an entry behind the head the list ends, and until a
\* connection has used credentials it holds what was cached and not removed.
ChainOK ==
    ~reordered => \E c \in Seq(Nodes) : IsChain(c) /\ (~used => Holds(c))

Typed ==
    /\ process \in {"running", "crashed", "hung"}
    /\ used \in BOOLEAN
    /\ reordered \in BOOLEAN
    /\ ideal \in Seq(Credentials)

\* Only a connection frees memory, and what ends the process.
EndsOK ==
    /\ \A n \in Nodes : Freed(n) => used
    /\ process = "hung" => reordered
    /\ process = "crashed" => Disturbed \/ last.call = "getURI"

IInv == HeapOK /\ Typed /\ EndsOK /\ ChainOK

LEMMA InvInit == Init => IInv
<1> SUFFICES ASSUME Init PROVE IInv
  OBVIOUS
<1>1. heap = [n \in Nodes |-> Unused] /\ creds = NULL /\ process = "running" /\ ideal = <<>>
      /\ used = FALSE /\ reordered = FALSE
  BY DEF Init, CacheInit
<1>2. Unused \in NodeRecords /\ Unused.state = "unused" /\ Unused.entry = Garbage /\ Unused.next = NULL
  BY DEF Unused, NodeRecords
<1>3. \A n \in Nodes : heap[n] = Unused
  BY <1>1
<1>4. HeapOK
  BY <1>1, <1>2, <1>3, NotGarbage DEF HeapOK
<1>5. Typed
  <2>1. <<>> \in Seq(Credentials)
    BY EmptySeq
  <2> QED
    BY <1>1, <2>1 DEF Typed
<1>6. EndsOK
  BY <1>1, <1>2, <1>3 DEF EndsOK, Freed
<1>7. IsChain(<<>>) /\ Holds(<<>>) /\ <<>> \in Seq(Nodes)
  <2>1. Len(<<>>) = 0 /\ <<>> \in Seq(Nodes)
    BY EmptySeq
  <2> QED
    BY <1>1, <2>1 DEF IsChain, Holds
<1> QED
  BY <1>4, <1>5, <1>6, <1>7 DEF IInv, ChainOK


\* A step that leaves the list and what is cached as they are.
LEMMA Unmoved ==
    ASSUME IInv, UNCHANGED <<creds, heap, reordered>>, used' \in BOOLEAN, used => used',
           ideal' = ideal \/ (Disturbed' /\ ideal' = <<>>)
    PROVE  HeapOK' /\ ideal' \in Seq(Credentials) /\ ChainOK' /\ reordered' \in BOOLEAN
<1>1. HeapOK'
  BY DEF IInv, HeapOK
<1>2. ideal' \in Seq(Credentials)
  BY EmptySeq DEF IInv, Typed
<1>3. ASSUME NEW c \in Seq(Nodes), IsChain(c) PROVE IsChain(c)'
  BY <1>3 DEF IsChain
<1>4. ASSUME NEW c \in Seq(Nodes), Holds(c), ideal' = ideal PROVE Holds(c)'
  BY <1>4 DEF Holds
<1>5. ASSUME ~reordered' PROVE \E c \in Seq(Nodes) : IsChain(c)' /\ (~used' => Holds(c)')
  <2>1. PICK c \in Seq(Nodes) : IsChain(c) /\ (~used => Holds(c))
    BY <1>5 DEF IInv, ChainOK
  <2>2. ~used' => ideal' = ideal
    BY <1>5 DEF Disturbed
  <2> QED
    BY <1>3, <1>4, <2>1, <2>2
<1>6. ChainOK'
  BY <1>5 DEF ChainOK
<1> QED
  BY <1>1, <1>2, <1>6 DEF IInv, Typed

\* The process ends only where memory was freed or the list does not end.
LEMMA Ending ==
    ASSUME IInv, NEW entry, NEW n \in find(entry), n \in {CRASH, HANG}, Ends(n)
    PROVE  /\ process' \in {"running", "crashed", "hung"}
           /\ process' = "hung" => reordered
           /\ process' = "crashed" => used
<1>1. \/ n = CRASH /\ \E m \in Nodes : Freed(m)
      \/ n = HANG /\ Cyclic
  <2>1. HeapOK
    BY DEF IInv
  <2>2. CRASH # NULL /\ HANG # NULL
    BY DEF CRASH, HANG, NULL
  <2> QED
    BY <2>1, <2>2, FindResult
<1>2. CASE n = CRASH /\ \E m \in Nodes : Freed(m)
  <2>1. process' = "crashed" /\ used
    BY <1>2 DEF Ends, IInv, EndsOK
  <2> QED
    BY <2>1
<1>3. CASE n = HANG /\ Cyclic
  <2>1. HANG # CRASH
    BY DEF HANG, CRASH
  <2>2. process' = "hung"
    BY <1>3, <2>1 DEF Ends
  <2>3. reordered \in BOOLEAN
    BY DEF IInv, Typed
  <2>4. ~reordered => FALSE
    <3> SUFFICES ASSUME ~reordered PROVE FALSE
      OBVIOUS
    <3>1. PICK c \in Seq(Nodes) : IsChain(c)
      BY DEF IInv, ChainOK
    <3> QED
      BY <1>3, <3>1, ChainList
  <2> QED
    BY <2>2, <2>3, <2>4
<1> QED
  BY <1>1, <1>2, <1>3

\* The proof of every operation ends with this one.
LEMMA EndsStep ==
    ASSUME IInv, process' \in {"running", "crashed", "hung"},
           used' \in BOOLEAN, reordered' \in BOOLEAN, ideal' \in Seq(Credentials),
           HeapOK', ChainOK', \A n \in Nodes : Freed(n)' => used',
           process' = "hung" => reordered',
           process' = "crashed" => used' \/ reordered' \/ last'.call = "getURI"
    PROVE  IInv'
<1>1. Typed'
  BY DEF Typed
<1>2. EndsOK'
  BY DEF EndsOK, Disturbed
<1> QED
  BY <1>1, <1>2 DEF IInv

LEMMA LookupStep ==
    ASSUME IInv, NEW host \in Hosts, NEW port \in Ports, LookupAuthInfo(host, port)
    PROVE  IInv'
<1>1. PICK n \in find([host |-> host, port |-> Port(port)]) :
         IF n \in {CRASH, HANG} THEN Ends(n) ELSE UNCHANGED cacheVars
  BY DEF LookupAuthInfo, lookup_auth_info
<1>2. process = "running" /\ UNCHANGED <<ideal, used, reordered>>
  BY DEF LookupAuthInfo
<1>3. UNCHANGED <<creds, heap>>
  BY <1>1 DEF Ends, cacheVars
<1>4. HeapOK' /\ ideal' \in Seq(Credentials) /\ ChainOK' /\ reordered' \in BOOLEAN
      /\ used' \in BOOLEAN
  <2>1. used' \in BOOLEAN
    BY <1>2 DEF IInv, Typed
  <2> QED
    BY <1>2, <1>3, <2>1, Unmoved
<1>5. \A m \in Nodes : Freed(m)' => used'
  BY <1>2, <1>3 DEF IInv, EndsOK, Freed
<1>6. /\ process' \in {"running", "crashed", "hung"}
      /\ process' = "hung" => reordered
      /\ process' = "crashed" => used
  <2>1. CASE n \in {CRASH, HANG}
    BY <1>1, <2>1, Ending
  <2>2. CASE n \notin {CRASH, HANG}
    BY <1>1, <1>2, <2>2 DEF cacheVars
  <2> QED
    BY <2>1, <2>2
<1> QED
  BY <1>2, <1>4, <1>5, <1>6, EndsStep

LEMMA QueryStep ==
    ASSUME IInv, NEW answer, getURI(answer) \/ getDevices(answer)
    PROVE  IInv'
<1>1. UNCHANGED <<creds, heap, ideal, used, reordered>> /\ process = "running"
  BY DEF getURI, getDevices, cacheVars
<1>2. process' = "running" \/ (process' = "crashed" /\ last'.call = "getURI")
  <2>1. CASE getURI(answer)
    BY <1>1, <2>1 DEF getURI, Failed
  <2>2. CASE getDevices(answer)
    BY <1>1, <2>2 DEF getDevices, cacheVars
  <2> QED
    BY <2>1, <2>2
<1>3. HeapOK' /\ ideal' \in Seq(Credentials) /\ ChainOK' /\ reordered' \in BOOLEAN
      /\ used' \in BOOLEAN
  <2>1. used' \in BOOLEAN
    BY <1>1 DEF IInv, Typed
  <2> QED
    BY <1>1, <2>1, Unmoved
<1>4. \A m \in Nodes : Freed(m)' => used'
  BY <1>1 DEF IInv, EndsOK, Freed
<1> QED
  BY <1>1, <1>2, <1>3, <1>4, EndsStep


\* A connection frees what it finds, and notes that it did.
LEMMA ConnectionStep ==
    ASSUME IInv, NEW host \in Hosts, NEW port \in Ports, NEW error, NEW told,
           IPPConnection(host, port, error, told)
    PROVE  IInv'
<1> DEFINE entry == [host |-> host, port |-> Port(port)]
<1>1. PICK n \in find(entry), connected \in BOOLEAN :
         IF n \in {CRASH, HANG}
         THEN Ends(n) /\ last' = NoCall /\ UNCHANGED <<ideal, used>>
         ELSE /\ last' = [call |-> "connection", connected |-> connected,
                          error |-> error, told |-> told[connected]]
              /\ used' = (used \/ n # NULL)
              /\ IF n = NULL THEN UNCHANGED heap ELSE free(n)
              /\ Remembers(ideal)
              /\ UNCHANGED <<creds, process>>
  BY DEF IPPConnection, lookup_auth_info
<1>2. process = "running" /\ reordered' = reordered
  BY DEF IPPConnection
<1>3. HeapOK /\ used \in BOOLEAN /\ reordered \in BOOLEAN /\ EndsOK
  BY DEF IInv, Typed
<1> HIDE DEF entry
<1>4. CASE n \in {CRASH, HANG}
  <2>1. Ends(n) /\ ideal' = ideal /\ used' = used
    BY <1>1, <1>4
  <2>2. UNCHANGED <<creds, heap>>
    BY <2>1 DEF Ends
  <2>3. HeapOK' /\ ideal' \in Seq(Credentials) /\ ChainOK' /\ reordered' \in BOOLEAN
        /\ used' \in BOOLEAN
    BY <1>2, <1>3, <2>1, <2>2, Unmoved
  <2>4. \A m \in Nodes : Freed(m)' => used'
    BY <2>1, <2>2 DEF IInv, EndsOK, Freed
  <2>5. /\ process' \in {"running", "crashed", "hung"}
        /\ process' = "hung" => reordered
        /\ process' = "crashed" => used
    BY <1>4, <2>1, Ending
  <2> QED
    BY <1>2, <2>1, <2>3, <2>4, <2>5, EndsStep
<1>5. CASE n = NULL
  <2>1. n \notin {CRASH, HANG}
    BY <1>5 DEF CRASH, HANG, NULL
  <2>2. used' = used /\ UNCHANGED <<creds, heap, process>> /\ Remembers(ideal)
    <3>1. used' = (used \/ n # NULL) /\ UNCHANGED <<creds, heap, process>> /\ Remembers(ideal)
      BY Zenon, <1>1, <1>5, <2>1
    <3> QED
      BY <1>3, <1>5, <3>1
  <2>3. used' \in BOOLEAN
    BY <1>3, <2>2
  <2>4. ideal' = ideal \/ (Disturbed' /\ ideal' = <<>>)
    BY <2>2 DEF Remembers
  <2>5. HeapOK' /\ ideal' \in Seq(Credentials) /\ ChainOK' /\ reordered' \in BOOLEAN
    BY <1>2, <2>2, <2>3, <2>4, Unmoved
  <2>6. \A m \in Nodes : Freed(m)' => used'
    BY <2>2 DEF IInv, EndsOK, Freed
  <2> QED
    BY <1>2, <2>2, <2>3, <2>5, <2>6, EndsStep
<1>6. CASE n \in Nodes /\ n \notin {CRASH, HANG, NULL} /\ heap[n].state # "unused"
  <2>1. used' = TRUE /\ free(n) /\ UNCHANGED <<creds, process>> /\ Remembers(ideal)
    <3>1. used' = (used \/ n # NULL) /\ free(n) /\ UNCHANGED <<creds, process>> /\ Remembers(ideal)
      BY Zenon, <1>1, <1>6
    <3> QED
      BY <1>6, <3>1
  <2>2. HeapOK' /\ \A m \in Nodes : heap'[m].next = heap[m].next
    BY <1>3, <1>6, <2>1, Freeing
  <2>3. ideal' = <<>>
    BY <2>1 DEF Remembers, Disturbed
  <2>4. ideal' \in Seq(Credentials)
    BY <2>3, EmptySeq
  <2>5. ASSUME ~reordered' PROVE \E c \in Seq(Nodes) : IsChain(c)' /\ (~used' => Holds(c)')
    <3>1. PICK c \in Seq(Nodes) : IsChain(c)
      BY <1>2, <2>5 DEF IInv, ChainOK
    <3>2. IsChain(c)'
      BY <2>1, <2>2, <3>1, ChainKept
    <3> QED
      BY <2>1, <3>2
  <2>6. ChainOK'
    BY <2>5 DEF ChainOK
  <2> QED
    BY <1>2, <1>3, <2>1, <2>2, <2>4, <2>6, EndsStep
<1> QED
  BY <1>3, <1>4, <1>5, <1>6, FindResult

LEMMA CacheStep ==
    ASSUME IInv, NEW host \in Hosts, NEW port \in Ports, CacheAuthInfo(host, port)
    PROVE  IInv'
<1> DEFINE entry == Entry(host, port)
<1>1. entry \in Credentials /\ insert(entry)
  BY EntryType DEF CacheAuthInfo, cache_auth_info
<1>2. process = "running" /\ used' = used /\ reordered' = reordered
      /\ Remembers(Append(ideal, entry))
  BY DEF CacheAuthInfo
<1>3. HeapOK /\ used \in BOOLEAN /\ reordered \in BOOLEAN /\ EndsOK /\ ideal \in Seq(Credentials)
  BY DEF IInv, Typed
<1> HIDE DEF entry
<1>4. /\ Append(ideal, entry) \in Seq(Credentials)
      /\ Len(Append(ideal, entry)) = Len(ideal) + 1
      /\ Append(ideal, entry)[Len(ideal) + 1] = entry
      /\ \A i \in 1 .. Len(ideal) : Append(ideal, entry)[i] = ideal[i]
  BY <1>1, <1>3, AppendProperties
<1>5. ideal' \in Seq(Credentials) /\ (~Disturbed' => ideal' = Append(ideal, entry))
  <2>1. <<>> \in Seq(Credentials)
    BY EmptySeq
  <2> QED
    BY <1>2, <1>4, <2>1 DEF Remembers
<1>6. CASE Cyclic /\ Ends(HANG)
  <2>1. reordered
    <3> SUFFICES ASSUME ~reordered PROVE FALSE
      OBVIOUS
    <3>1. PICK c \in Seq(Nodes) : IsChain(c)
      BY DEF IInv, ChainOK
    <3> QED
      BY <1>6, <3>1, ChainList
  <2>2. UNCHANGED <<creds, heap>> /\ process' = "hung"
    BY <1>6 DEF Ends, HANG, CRASH
  <2>3. HeapOK' /\ \A m \in Nodes : Freed(m)' => used'
    BY <1>2, <2>2 DEF IInv, HeapOK, EndsOK, Freed
  <2>4. ChainOK'
    BY <1>2, <2>1 DEF ChainOK
  <2> QED
    BY <1>2, <1>3, <1>5, <2>1, <2>2, <2>3, <2>4, EndsStep
<1>7. CASE ~Cyclic
  <2>1. HeapOK' /\ \E n \in Allocatable : Inserted(n, entry)
    BY <1>1, <1>3, <1>7, Inserting
  <2>2. PICK n \in Allocatable : Inserted(n, entry)
    BY <2>1
  <2>3. n \in Nodes /\ (Freed(n) \/ heap[n].state = "unused")
    BY <1>3, AllocatableNodes
  <2>4. process' = "running" /\ \A m \in Nodes : Freed(m)' => Freed(m)
    BY <1>2, <2>2 DEF Inserted, Freed
  <2>5. \A m \in Nodes : Freed(m)' => used'
    BY <1>2, <1>3, <2>4 DEF EndsOK
  <2>6. ASSUME ~reordered' PROVE \E d \in Seq(Nodes) : IsChain(d)' /\ (~used' => Holds(d)')
    <3>1. PICK c \in Seq(Nodes) : IsChain(c) /\ (~used => Holds(c))
      BY <1>2, <2>6 DEF IInv, ChainOK
    <3>2. PICK d \in Seq(Nodes) :
             IsChain(d)' /\ ((\A i \in 1 .. Len(c) : c[i] # n) => d = Append(c, n))
      BY <1>3, <2>2, <2>3, <3>1, ChainInserted
    <3>3. ASSUME ~used' PROVE Holds(d)'
      <4>1. heap[n].state = "unused"
        BY <1>2, <1>3, <2>3, <3>3 DEF EndsOK
      <4>2. List = c /\ \A i \in 1 .. Len(List) : heap[List[i]].state # "unused"
        BY <1>3, <3>1, ChainList, ListNodes
      <4>3. \A i \in 1 .. Len(c) : c[i] # n
        BY <4>1, <4>2
      <4>4. d = Append(c, n)
        BY <3>2, <4>3
      <4>5. Len(d) = Len(c) + 1 /\ d[Len(c) + 1] = n /\ \A i \in 1 .. Len(c) : d[i] = c[i]
        BY <2>3, <4>4, AppendProperties
      <4>6. ideal' = Append(ideal, entry) /\ Holds(c)
        BY <1>2, <1>5, <2>6, <3>1, <3>3 DEF Disturbed
      <4>7. Len(ideal') = Len(d)
        BY <1>4, <4>5, <4>6 DEF Holds
      <4>8. ASSUME NEW i \in 1 .. Len(d) PROVE heap'[d[i]].entry = ideal'[i]
        <5>1. Len(c) \in Nat /\ \A j \in 1 .. Len(c) : c[j] \in Nodes
          BY LenProperties, ElementOfSeq
        <5>2. CASE i = Len(c) + 1
          <6>1. heap'[n].entry = entry
            BY <2>2, <2>3 DEF Inserted
          <6> QED
            BY <1>4, <4>5, <4>6, <5>2, <6>1 DEF Holds
        <5>3. CASE i \in 1 .. Len(c)
          <6>1. heap'[c[i]].entry = heap[c[i]].entry
            BY <2>2, <4>3, <5>1, <5>3 DEF Inserted
          <6>2. heap[c[i]].entry = ideal[i] /\ i \in 1 .. Len(ideal)
            BY <4>6, <5>3 DEF Holds
          <6> QED
            BY <1>4, <4>5, <4>6, <5>3, <6>1, <6>2
        <5> QED
          BY <4>5, <5>1, <5>2, <5>3
      <4> QED
        BY <4>7, <4>8 DEF Holds
    <3> QED
      BY <3>2, <3>3
  <2>7. ChainOK'
    BY <2>6 DEF ChainOK
  <2> QED
    BY <1>2, <1>3, <1>5, <2>1, <2>4, <2>5, <2>7, EndsStep
<1> QED
  BY <1>1, <1>6, <1>7 DEF insert


\* Some node gets what follows the head.
LEMMA Relinked ==
    ASSUME HeapOK, creds # NULL, NEW p \in {m \in Nodes : heap[m].state # "unused"},
           heap' = [heap EXCEPT ![p].next = heap[creds].next]
    PROVE  /\ heap' \in [Nodes -> NodeRecords]
           /\ heap[creds].next \in Nodes \cup {NULL}
           /\ \A m \in Nodes : /\ m # p => heap'[m] = heap[m]
                               /\ heap'[m].state = heap[m].state
                               /\ heap'[m].entry = heap[m].entry
                               /\ heap'[m].next = IF m = p THEN heap[creds].next ELSE heap[m].next
<1> DEFINE t == heap[creds].next
           g == [heap[p] EXCEPT !.next = t]
<1>1. heap \in [Nodes -> NodeRecords] /\ creds \in Nodes /\ p \in Nodes
  BY DEF HeapOK
<1>2. heap[creds] \in NodeRecords /\ heap[p] \in NodeRecords
  BY <1>1
<1>3. t \in Nodes \cup {NULL}
  BY <1>2, NodeFields
<1>4. heap' = [heap EXCEPT ![p] = g]
  BY <1>1
<1> HIDE DEF t
<1>5. g \in NodeRecords /\ g.next = t /\ g.state = heap[p].state /\ g.entry = heap[p].entry
  BY <1>2, <1>3, NodeUpdates
<1> HIDE DEF g
<1>6. heap' \in [Nodes -> NodeRecords]
  BY <1>1, <1>4, <1>5
<1>7. \A m \in Nodes : heap'[m] = IF m = p THEN g ELSE heap[m]
  BY <1>1, <1>4
<1>8. \A m \in Nodes : /\ m # p => heap'[m] = heap[m]
                       /\ heap'[m].state = heap[m].state
                       /\ heap'[m].entry = heap[m].entry
                       /\ heap'[m].next = IF m = p THEN t ELSE heap[m].next
  <2> SUFFICES ASSUME NEW m \in Nodes
               PROVE  /\ m # p => heap'[m] = heap[m]
                      /\ heap'[m].state = heap[m].state
                      /\ heap'[m].entry = heap[m].entry
                      /\ heap'[m].next = IF m = p THEN t ELSE heap[m].next
    OBVIOUS
  <2>1. CASE m = p
    <3>1. heap'[p] = g
      BY <1>1, <1>7
    <3>2. heap'[p].state = heap[p].state /\ heap'[p].entry = heap[p].entry /\ heap'[p].next = t
      BY <1>5, <3>1
    <3> QED
      BY <2>1, <3>2
  <2>2. CASE m # p
    <3>1. heap'[m] = heap[m]
      BY <1>7, <2>2
    <3> QED
      BY <2>2, <3>1
  <2> QED
    BY <2>1, <2>2
<1> QED
  BY <1>3, <1>6, <1>8 DEF t

\* What is not the head is removed.
LEMMA RemovedOther ==
    ASSUME IInv, creds # NULL, NEW entry, ~Is(creds, entry), del(entry), process = "running"
    PROVE  /\ HeapOK' /\ \A m \in Nodes : Freed(m)' => Freed(m)
           /\ process' \in {"running", "crashed"}
<1>1. \/ Ends(CRASH)
      \/ UNCHANGED cacheVars
      \/ /\ \E p \in {m \in Nodes : heap[m].state # "unused"} :
                heap' = [heap EXCEPT ![p].next = heap[creds].next]
         /\ UNCHANGED <<creds, process>>
  BY DEF del
<1>2. HeapOK
  BY DEF IInv
<1>3. CASE Ends(CRASH) \/ UNCHANGED cacheVars
  <2>1. UNCHANGED <<creds, heap>> /\ process' \in {"running", "crashed"}
    BY <1>3 DEF Ends, cacheVars
  <2> QED
    BY <1>2, <2>1 DEF HeapOK, Freed
<1>4. ASSUME NEW p \in {m \in Nodes : heap[m].state # "unused"},
             heap' = [heap EXCEPT ![p].next = heap[creds].next], UNCHANGED <<creds, process>>
      PROVE  HeapOK' /\ \A m \in Nodes : Freed(m)' => Freed(m)
  <2> DEFINE t == heap[creds].next
  <2>1. heap \in [Nodes -> NodeRecords] /\ creds \in Nodes /\ p \in Nodes
    BY <1>2 DEF HeapOK
  <2>2. /\ heap' \in [Nodes -> NodeRecords]
        /\ t \in Nodes \cup {NULL}
        /\ \A m \in Nodes : /\ m # p => heap'[m] = heap[m]
                            /\ heap'[m].state = heap[m].state
                            /\ heap'[m].entry = heap[m].entry
                            /\ heap'[m].next = IF m = p THEN t ELSE heap[m].next
    BY <1>2, <1>4, Relinked
  <2>3. t # NULL => heap[t].state # "unused"
    BY <1>2, <2>1, <2>2 DEF HeapOK
  <2> HIDE DEF t
  <2>4. \A m \in Nodes : heap'[m].state = "unused" => heap'[m] = Unused
    BY <1>2, <2>2 DEF HeapOK
  <2>5. \A m \in Nodes : heap'[m].state = "live" <=> heap'[m].entry \in Credentials
    BY <1>2, <2>2 DEF HeapOK
  <2>6. \A m \in Nodes : heap[m].next \in Nodes \cup {NULL}
    BY <2>1, NodeFields
  <2>7. \A m \in Nodes : heap'[m].next # NULL => heap'[heap'[m].next].state # "unused"
    BY <1>2, <2>2, <2>3, <2>6 DEF HeapOK
  <2>8. creds' \in Nodes \cup {NULL} /\ (creds' # NULL => heap'[creds'].state # "unused")
    BY <1>2, <1>4, <2>1, <2>2 DEF HeapOK
  <2> QED
    BY <2>2, <2>4, <2>5, <2>7, <2>8 DEF HeapOK, Freed
<1> QED
  BY <1>1, <1>3, <1>4

LEMMA RemoveStep ==
    ASSUME IInv, NEW host \in Hosts, NEW port \in Ports, RemoveAuthInfo(host, port)
    PROVE  IInv'
<1> DEFINE entry == Entry(host, port)
           I == {i \in 1 .. Len(ideal) : ideal[i] = entry}
           k == IF I # {} THEN Min(I) ELSE 0
           gone == find(entry) \cap Nodes
<1>1. PICK n \in find(entry) :
         CASE n \in {CRASH, HANG} -> Ends(n)
           [] n = NULL -> UNCHANGED cacheVars
           [] OTHER -> del(entry)
  BY EntryType DEF RemoveAuthInfo, remove_auth_info
<1>2. process = "running" /\ used' = used /\ reordered' = (reordered \/ gone \ {creds} # {})
  BY EntryType DEF RemoveAuthInfo, lookup_auth_info
<1>3. Remembers(IF k = 0 THEN ideal ELSE RemoveAt(ideal, k))
  BY DEF RemoveAuthInfo, SelectInSeq
<1>4. HeapOK /\ used \in BOOLEAN /\ reordered \in BOOLEAN /\ EndsOK /\ ideal \in Seq(Credentials)
  BY DEF IInv, Typed
<1>5. Len(ideal) \in Nat
  BY <1>4, LenProperties
<1>6. I # {} => k \in I /\ \A j \in I : k <= j
  <2>1. I \in SUBSET Nat
    BY <1>5
  <2> HIDE DEF I
  <2> QED
    BY <2>1, Least
<1>7. k # 0 => k \in 1 .. Len(ideal)
  BY <1>6
<1>8. k = 0 => \A i \in 1 .. Len(ideal) : ideal[i] # entry
  BY <1>5, <1>6
<1>9. 1 \in 1 .. Len(ideal) /\ ideal[1] = entry => k = 1
  <2> SUFFICES ASSUME 1 \in 1 .. Len(ideal), ideal[1] = entry PROVE k = 1
    OBVIOUS
  <2>1. 1 \in I
    OBVIOUS
  <2>2. k \in I /\ k <= 1
    BY <1>6, <2>1
  <2>3. k \in 1 .. Len(ideal)
    BY <2>2
  <2> HIDE DEF k
  <2> QED
    BY <1>5, <2>2, <2>3
<1> HIDE DEF k, I
<1>10. ideal' \in Seq(Credentials)
       /\ (~Disturbed' => ideal' = IF k = 0 THEN ideal ELSE RemoveAt(ideal, k))
  <2>1. <<>> \in Seq(Credentials)
    BY EmptySeq
  <2>2. k # 0 => RemoveAt(ideal, k) \in Seq(Credentials)
    BY <1>4, <1>7, Removed
  <2> QED
    BY <1>3, <1>4, <2>1, <2>2 DEF Remembers
<1>11. reordered' \in BOOLEAN /\ (reordered => reordered')
  BY <1>2, <1>4
\* No entry of the list, no entry that is cached.
<1>12. ASSUME ~used, NEW c \in Seq(Nodes), IsChain(c), Holds(c),
              \A i \in 1 .. Len(List) : ~Is(List[i], entry)
       PROVE  k = 0
  <2>1. List = c
    BY <1>12, ChainList
  <2>2. \A i \in 1 .. Len(ideal) : ideal[i] # entry
    BY <1>12, <2>1 DEF Holds, Is
  <2> QED
    BY <1>7, <2>2 DEF k, I
<1> HIDE DEF entry, gone
<1>13. CASE n \in {CRASH, HANG}
  <2>1. Ends(n)
    <3>1. n # NULL
      BY <1>13 DEF CRASH, HANG, NULL
    <3> QED
      BY <1>1, <1>13, <3>1
  <2>2. UNCHANGED <<creds, heap>>
    BY <2>1 DEF Ends
  <2>3. /\ process' \in {"running", "crashed", "hung"}
        /\ process' = "hung" => reordered
        /\ process' = "crashed" => used
    BY <1>13, <2>1, Ending
  <2>4. HeapOK' /\ \A m \in Nodes : Freed(m)' => used'
    BY <1>2, <1>4, <2>2 DEF HeapOK, EndsOK, Freed
  <2>5. reordered \/ used
    BY <2>1, <2>3 DEF Ends
  <2>6. ChainOK'
    <3> SUFFICES ASSUME ~reordered' PROVE \E c \in Seq(Nodes) : IsChain(c)' /\ (~used' => Holds(c)')
      BY DEF ChainOK
    <3>1. PICK c \in Seq(Nodes) : IsChain(c)
      BY <1>11 DEF IInv, ChainOK
    <3>2. IsChain(c)'
      BY <2>2, <3>1 DEF IsChain
    <3>3. used'
      BY <1>2, <1>11, <2>5
    <3> QED
      BY <3>2, <3>3
  <2> QED
    BY <1>2, <1>4, <1>10, <1>11, <2>3, <2>4, <2>6, EndsStep
<1>14. CASE n = NULL /\ \A i \in 1 .. Len(List) : ~Is(List[i], entry)
  <2>1. n \notin {CRASH, HANG}
    BY <1>14 DEF CRASH, HANG, NULL
  <2>2. UNCHANGED cacheVars
    BY <1>1, <1>14, <2>1
  <2>3. HeapOK' /\ process' = "running" /\ \A m \in Nodes : Freed(m)' => used'
    BY <1>2, <1>4, <2>2 DEF HeapOK, EndsOK, Freed, cacheVars
  <2>4. ChainOK'
    <3> SUFFICES ASSUME ~reordered' PROVE \E c \in Seq(Nodes) : IsChain(c)' /\ (~used' => Holds(c)')
      BY DEF ChainOK
    <3>1. PICK c \in Seq(Nodes) : IsChain(c) /\ (~used => Holds(c))
      BY <1>11 DEF IInv, ChainOK
    <3>2. IsChain(c)'
      BY <2>2, <3>1 DEF IsChain, cacheVars
    <3>3. ASSUME ~used' PROVE Holds(c)'
      <4>1. k = 0 /\ Holds(c)
        BY <1>2, <1>12, <1>14, <3>1, <3>3
      <4>2. ideal' = ideal
        BY <1>10, <3>3, <4>1 DEF Disturbed
      <4> QED
        BY <2>2, <4>1, <4>2 DEF Holds, cacheVars
    <3> QED
      BY <3>2, <3>3
  <2> QED
    BY <1>2, <1>4, <1>10, <1>11, <2>3, <2>4, EndsStep
<1>15. ASSUME n \in Nodes, n \notin {CRASH, HANG, NULL}, NEW i \in 1 .. Len(List), n = List[i],
              Is(n, entry), n \in gone
       PROVE  IInv'
  <2>1. del(entry)
    BY <1>1, <1>15
  <2>2. creds # NULL
    <3> SUFFICES ASSUME creds = NULL PROVE FALSE
      OBVIOUS
    <3>1. <<>> \in Seq(Nodes) /\ Len(<<>>) = 0
      BY EmptySeq
    <3>2. IsChain(<<>>)
      BY <3>1 DEF IsChain
    <3>3. List = <<>>
      BY <3>1, <3>2, ChainList
    <3> QED
      BY <3>1, <3>3
  <2>3. CASE ~Is(creds, entry)
    <3>1. n # creds
      BY <1>15, <2>3
    <3>2. reordered' = TRUE
      BY <1>2, <1>4, <1>15, <3>1
    <3>3. /\ HeapOK' /\ \A m \in Nodes : Freed(m)' => Freed(m)
          /\ process' \in {"running", "crashed"}
      BY <1>2, <2>1, <2>2, <2>3, RemovedOther
    <3>4. \A m \in Nodes : Freed(m)' => used'
      BY <1>2, <1>4, <3>3 DEF EndsOK
    <3>5. ChainOK'
      BY <3>2 DEF ChainOK
    <3> QED
      BY <1>2, <1>4, <1>10, <1>11, <3>2, <3>3, <3>4, <3>5, EndsStep
  <2>4. CASE Is(creds, entry)
    <3>1. creds' = heap[creds].next /\ UNCHANGED <<heap, process>>
      BY <2>1, <2>4 DEF del
    <3>2. heap[creds].next \in Nodes \cup {NULL}
      BY <1>4, <2>2, NodeFields DEF HeapOK
    <3>3. HeapOK' /\ \A m \in Nodes : Freed(m)' => used'
      BY <1>2, <1>4, <2>2, <3>1, <3>2 DEF HeapOK, EndsOK, Freed
    <3>4. ChainOK'
      <4> SUFFICES ASSUME ~reordered' PROVE \E d \in Seq(Nodes) : IsChain(d)' /\ (~used' => Holds(d)')
        BY DEF ChainOK
      <4>1. PICK c \in Seq(Nodes) : IsChain(c) /\ (~used => Holds(c))
        BY <1>11 DEF IInv, ChainOK
      <4> DEFINE d == Tail(c)
      <4>2. c # <<>> /\ d \in Seq(Nodes) /\ IsChain(d)'
            /\ Len(d) = Len(c) - 1 /\ \A j \in 1 .. Len(c) - 1 : d[j] = c[j + 1]
        BY <2>2, <3>1, <4>1, ChainHeadOut
      <4>3. Len(c) \in Nat \ {0} /\ creds = c[1]
        BY <4>1, <4>2, LenProperties, EmptySeq DEF IsChain
      <4> HIDE DEF d
      <4>4. ASSUME ~used' PROVE Holds(d)'
        <5>1. Holds(c)
          BY <1>2, <4>1, <4>4
        <5>2. 1 \in 1 .. Len(ideal) /\ 1 \in 1 .. Len(c) /\ Len(ideal) = Len(c)
          BY <4>3, <5>1 DEF Holds
        <5>3. ideal[1] = entry
          BY <2>4, <4>3, <5>1, <5>2 DEF Holds, Is
        <5>4. k = 1
          BY <1>9, <5>2, <5>3
        <5>5. ideal' = RemoveAt(ideal, k)
          BY <1>10, <4>4, <5>4 DEF Disturbed
        <5>6. Len(ideal') = Len(ideal) - 1 /\ \A j \in 1 .. Len(ideal) - 1 : ideal'[j] = ideal[j + 1]
          BY <1>4, <5>2, <5>4, <5>5, Removed
        <5>7. ASSUME NEW j \in 1 .. Len(d) PROVE heap'[d[j]].entry = ideal'[j]
          <6>1. j \in 1 .. Len(c) - 1 /\ j + 1 \in 1 .. Len(c)
            BY <4>2, <4>3
          <6>2. heap[c[j + 1]].entry = ideal[j + 1]
            BY <5>1, <6>1 DEF Holds
          <6> QED
            BY <3>1, <4>2, <5>2, <5>6, <6>1, <6>2
        <5> QED
          BY <4>2, <5>2, <5>6, <5>7 DEF Holds
      <4> QED
        BY <4>2, <4>4
    <3> QED
      BY <1>2, <1>4, <1>10, <1>11, <3>1, <3>3, <3>4, EndsStep
  <2> QED
    BY <2>3, <2>4
<1>16. \/ n \in {CRASH, HANG}
       \/ n = NULL /\ \A i \in 1 .. Len(List) : ~Is(List[i], entry)
       \/ /\ n \in Nodes /\ n \notin {CRASH, HANG, NULL}
          /\ \E i \in 1 .. Len(List) : n = List[i]
          /\ Is(n, entry) /\ n \in gone
  BY <1>4, FindResult DEF gone
<1> QED
  BY <1>13, <1>14, <1>15, <1>16


-----------------------------------------------------------------------------
(* The theorems. *)

LEMMA InvStep == IInv /\ [Next]_vars => IInv'
<1> SUFFICES ASSUME IInv, [Next]_vars PROVE IInv'
  OBVIOUS
<1>1. ASSUME NEW host \in Hosts, NEW port \in Ports,
             \/ CacheAuthInfo(host, port) \/ LookupAuthInfo(host, port)
             \/ RemoveAuthInfo(host, port) \/ Async_Connection(host, port)
             \/ \E reply \in BOOLEAN :
                   \/ IPPAuthConnection(host, port, reply)
                   \/ \E error \in BOOLEAN : PK1Connection(host, port, reply, error)
      PROVE  IInv'
  <2>1. CASE CacheAuthInfo(host, port)
    BY <2>1, CacheStep
  <2>2. CASE LookupAuthInfo(host, port)
    BY <2>2, LookupStep
  <2>3. CASE RemoveAuthInfo(host, port)
    BY <2>3, RemoveStep
  <2>4. CASE Async_Connection(host, port)
    BY <2>4, ConnectionStep DEF Async_Connection
  <2>5. CASE \E reply \in BOOLEAN : IPPAuthConnection(host, port, reply)
    BY <2>5, ConnectionStep DEF IPPAuthConnection
  <2>6. CASE \E reply, error \in BOOLEAN : PK1Connection(host, port, reply, error)
    BY <2>6, ConnectionStep DEF PK1Connection
  <2> QED
    BY Zenon, <1>1, <2>1, <2>2, <2>3, <2>4, <2>5, <2>6
<1>2. ASSUME NEW answer, getURI(answer) \/ getDevices(answer) PROVE IInv'
  BY <1>2, QueryStep
<1>3. CASE UNCHANGED vars
  BY <1>3 DEF vars, cacheVars, IInv, HeapOK, Typed, EndsOK, ChainOK, Freed, Disturbed,
              IsChain, Holds
<1> QED
  BY Zenon, <1>1, <1>2, <1>3 DEF Next

LEMMA Invariant == Spec => []IInv
BY InvInit, InvStep, PTL DEF Spec

\* The list is made of nodes that were allocated, however often memory was freed and
\* used again, and what was never allocated has not been written.
THEOREM TypeCorrect == Spec => []TypeOK
<1>1. ASSUME IInv PROVE TypeOK
  <2>1. HeapOK /\ Typed
    BY <1>1 DEF IInv
  <2>2. ASSUME NEW n \in ToSet(List) PROVE n \in Nodes /\ heap[n].state # "unused"
    <3>1. List \in Seq(Nodes) /\ \A i \in 1 .. Len(List) : heap[List[i]].state # "unused"
      BY <2>1, ListNodes
    <3>2. PICK i \in 1 .. Len(List) : n = List[i]
      BY <2>2, <3>1, LenProperties DEF ToSet
    <3> QED
      BY <3>1, <3>2, ElementOfSeq
  <2>3. \A n \in Nodes : heap[n].state \in {"unused", "live", "freed"} /\ heap[n].next \in Nodes \cup {NULL}
    BY <2>1, NodeFields DEF HeapOK
  <2> QED
    BY <2>1, <2>2, <2>3 DEF TypeOK, HeapOK, Typed
<1> QED
  BY <1>1, Invariant, PTL

\* Until a connection has used credentials, or an entry behind the head was removed,
\* the list is what was cached and not removed, and a lookup finds what there is.
THEOREM CompleteCorrect == Spec => []CacheIsComplete
<1>1. ASSUME IInv, ~Disturbed PROVE CacheIsComplete
  <2>1. HeapOK /\ Typed /\ EndsOK /\ ~used /\ ~reordered
    BY <1>1 DEF IInv, Disturbed
  <2>2. PICK c \in Seq(Nodes) : IsChain(c) /\ Holds(c)
    BY <1>1, <2>1 DEF IInv, ChainOK
  <2>3. List = c /\ ~Cyclic
    BY <2>2, ChainList
  <2>4. Len(c) \in Nat /\ DOMAIN c = 1 .. Len(c) /\ Len(ideal) = Len(c)
        /\ ideal \in [1 .. Len(c) -> Credentials]
    BY <2>1, <2>2, LenProperties DEF Typed, Holds
  <2>5. Entries = ideal
    <3>1. Entries = [i \in 1 .. Len(c) |-> heap[c[i]].entry]
      BY <2>3, <2>4 DEF Entries
    <3>2. \A i \in 1 .. Len(c) : heap[c[i]].entry = ideal[i]
      BY <2>2 DEF Holds
    <3>3. ideal = [i \in 1 .. Len(c) |-> ideal[i]]
      BY <2>4
    <3> QED
      BY <3>1, <3>2, <3>3
  <2>6. ASSUME NEW host \in Hosts, NEW port \in Ports, NEW n \in lookup_auth_info(host, port)
        PROVE  IF n = NULL THEN Entry(host, port) \notin ToSet(ideal)
               ELSE heap[n].entry = Entry(host, port)
    <3> DEFINE entry == Entry(host, port)
    <3>1. n \in find(entry)
      BY EntryType DEF lookup_auth_info
    <3> HIDE DEF entry
    <3>2. \/ n = NULL /\ \A i \in 1 .. Len(List) : ~Is(List[i], entry)
          \/ n # NULL /\ Is(n, entry)
      <4>1. \A m \in Nodes : ~Freed(m)
        BY <2>1 DEF EndsOK
      <4> QED
        BY <2>1, <2>3, <3>1, <4>1, FindResult
    <3>3. ASSUME \A i \in 1 .. Len(List) : ~Is(List[i], entry) PROVE entry \notin ToSet(ideal)
      <4>1. \A i \in 1 .. Len(c) : ideal[i] # entry
        BY <2>2, <2>3, <3>3 DEF Holds, Is
      <4> QED
        BY <2>4, <4>1 DEF ToSet
    <3> QED
      BY <3>2, <3>3 DEF Is, entry
  <2> QED
    BY <2>3, <2>5, <2>6 DEF CacheIsComplete
<1>2. IInv => CacheIsComplete
  BY <1>1 DEF CacheIsComplete
<1> QED
  BY <1>2, Invariant, PTL

\* Freed memory is in the list only after a connection used credentials, the list is
\* endless only after an entry behind the head was removed, and without either the
\* process lives, unless getURI ends it.
THEOREM EndsCorrect == Spec => []EndsOnlyIfDisturbed
<1>1. ASSUME IInv PROVE EndsOnlyIfDisturbed
  <2>1. HeapOK /\ EndsOK /\ reordered \in BOOLEAN /\ used \in BOOLEAN
    BY <1>1 DEF IInv, Typed
  <2>2. ASSUME NEW n \in ToSet(List), Freed(n) PROVE used
    <3>1. List \in Seq(Nodes)
      BY <2>1, ListNodes
    <3>2. n \in Nodes
      BY <3>1, ElementOfSeq, LenProperties DEF ToSet
    <3> QED
      BY <2>1, <2>2, <3>2 DEF EndsOK
  <2>3. Cyclic => reordered
    <3> SUFFICES ASSUME Cyclic, ~reordered PROVE FALSE
      BY <2>1
    <3>1. PICK c \in Seq(Nodes) : IsChain(c)
      BY <1>1 DEF IInv, ChainOK
    <3> QED
      BY <3>1, ChainList
  <2> QED
    BY <2>1, <2>2, <2>3 DEF EndsOnlyIfDisturbed, EndsOK
<1> QED
  BY <1>1, Invariant, PTL

-----------------------------------------------------------------------------
(* The queries. *)

TableOK(records, key, table) ==
    /\ DOMAIN table = {r[key] : r \in ToSet(records)}
    /\ \A k \in DOMAIN table : \E r \in ToSet(records) : r[key] = k /\ table[k] = r

LEMMA WholeTable ==
    ASSUME NEW attributes, NEW answer, IsAnswer(answer, attributes), NEW key \in attributes,
           WholeRecords(answer)
    PROVE  TableOK(answer.records, key,
                   Collect(answer.records, answer.order, attributes, key))
<1> DEFINE order == answer.order
           records == answer.records
           table == Collect(records, order, attributes, key)
<1>1. /\ order \in Seq(attributes) /\ IsInjective(order) /\ ToSet(order) = attributes
      /\ records \in Seq({records[i] : i \in DOMAIN records})
      /\ \A r \in ToSet(records) : r = [a \in DOMAIN r |-> r[a]]
      /\ \A i \in DOMAIN records : DOMAIN records[i] = attributes
  BY DEF IsAnswer, WholeRecords
<1> HIDE DEF order, records
<1>2. EachOnce(order)
  <2>1. Len(order) \in Nat /\ DOMAIN order = 1 .. Len(order)
    BY <1>1, LenProperties
  <2>2. \A i, j \in DOMAIN order : order[i] = order[j] => i = j
    BY <1>1 DEF IsInjective
  <2>3. order # <<>>
    BY <1>1 DEF ToSet
  <2>4. Len(order) > 0
    BY <1>1, <2>1, <2>3 DEF ToSet
  <2> QED
    BY <2>1, <2>2, <2>4 DEF EachOnce
<1>3. Len(records) \in Nat /\ DOMAIN records = 1 .. Len(records)
  BY <1>1, LenProperties
<1>4. LET whole == Collect(records, order, ToSet(order), key)
          values(i) == [a \in ToSet(order) |-> records[i][a]]
      IN  /\ \A k \in DOMAIN whole :
                \E i \in DOMAIN records : k = records[i][key] /\ whole[k] = values(i)
          /\ \A i \in DOMAIN records : records[i][key] \in DOMAIN whole
  BY <1>1, <1>2, <1>3, CollectComplete
<1>5. \A i \in DOMAIN records : [a \in attributes |-> records[i][a]] = records[i]
  <2>1. \A i \in DOMAIN records : records[i] \in ToSet(records)
    BY DEF ToSet
  <2> QED
    BY <1>1, <2>1
<1>6. /\ \A k \in DOMAIN table :
            \E i \in DOMAIN records : k = records[i][key] /\ table[k] = records[i]
      /\ \A i \in DOMAIN records : records[i][key] \in DOMAIN table
  BY <1>1, <1>4, <1>5
<1> HIDE DEF table
<1>7. \A r : r \in ToSet(records) <=> \E i \in DOMAIN records : r = records[i]
  BY DEF ToSet
<1>8. TableOK(records, key, table)
  BY <1>6, <1>7 DEF TableOK
<1> QED
  BY <1>8 DEF records, table, order

\* When CUPS answers with complete records, whatever they are and in whichever
\* order their attributes come, the table made of them has each under its key
\* (getURI and getDevices, asyncipp.c:19, 242), whatever was called before.
THEOREM TablesCorrect == Spec => []TablesAreRecords
<1>1. Init => TablesAreRecords
  BY DEF Init, NoCall, TablesAreRecords
<1>2. TablesAreRecords /\ [Next]_vars => TablesAreRecords'
  <2> SUFFICES ASSUME TablesAreRecords, [Next]_vars PROVE TablesAreRecords'
    OBVIOUS
  <2>1. ASSUME last'.call \notin {"getURI", "getDevices"} PROVE TablesAreRecords'
    BY <2>1 DEF TablesAreRecords
  <2>2. ASSUME last'.failed PROVE TablesAreRecords'
    BY Zenon, <2>2 DEF TablesAreRecords
  <2>3. ASSUME NEW host, NEW port, NEW error, NEW told, IPPConnection(host, port, error, told)
        PROVE  TablesAreRecords'
    <3>1. last'.call \in {"none", "connection"}
      BY <2>3 DEF IPPConnection, NoCall
    <3> QED
      BY <2>1, <3>1
  <2>4. ASSUME NEW host \in Hosts, NEW port \in Ports,
               \/ CacheAuthInfo(host, port) \/ LookupAuthInfo(host, port)
               \/ RemoveAuthInfo(host, port)
        PROVE  TablesAreRecords'
    <3>1. last' = NoCall
      BY <2>4 DEF CacheAuthInfo, LookupAuthInfo, RemoveAuthInfo
    <3> QED
      BY <2>1, <3>1 DEF NoCall
  <2>5. ASSUME NEW host, NEW port,
               \/ Async_Connection(host, port)
               \/ \E reply \in BOOLEAN : IPPAuthConnection(host, port, reply)
               \/ \E reply \in BOOLEAN, error \in BOOLEAN :
                      PK1Connection(host, port, reply, error)
        PROVE  TablesAreRecords'
    BY <2>3, <2>5 DEF Async_Connection, IPPAuthConnection, PK1Connection
  <2>6. ASSUME NEW answer \in PrinterAnswers, getURI(answer) PROVE TablesAreRecords'
    <3> DEFINE table == Collect(answer.records, answer.order, PrinterAttributes, "printer-name")
    <3>1. \/ last' = Failed("getURI")
          \/ last' = Gives("getURI", answer, <<>>)
          \/ last' = Gives("getURI", answer, table)
      BY <2>6 DEF getURI
    <3>2. WholeRecords(answer) => TableOK(answer.records, "printer-name", table)
      BY WholeTable, AnswersAssumption DEF PrinterAttributes
    <3> HIDE DEF table
    <3>3. CASE last' = Failed("getURI")
      BY <2>2, <3>3 DEF Failed
    <3>4. CASE last' = Gives("getURI", answer, <<>>)
      BY <3>4 DEF Gives, TablesAreRecords
    <3>5. CASE last' = Gives("getURI", answer, table)
      BY <3>2, <3>5 DEF Gives, TablesAreRecords, TableOK
    <3> QED
      BY <3>1, <3>3, <3>4, <3>5
  <2>7. ASSUME NEW answer \in DeviceAnswers, getDevices(answer) PROVE TablesAreRecords'
    <3> DEFINE table == Collect(answer.records, answer.order, DeviceAttributes, "device-uri")
    <3>1. last' = Failed("getDevices") \/ last' = Gives("getDevices", answer, table)
      BY <2>7 DEF getDevices
    <3>2. WholeRecords(answer) => TableOK(answer.records, "device-uri", table)
      BY WholeTable, AnswersAssumption DEF DeviceAttributes
    <3> HIDE DEF table
    <3>3. CASE last' = Failed("getDevices")
      BY <2>2, <3>3 DEF Failed
    <3>4. CASE last' = Gives("getDevices", answer, table)
      BY <3>2, <3>4 DEF Gives, TablesAreRecords, TableOK
    <3> QED
      BY <3>1, <3>3, <3>4
  <2>8. CASE UNCHANGED vars
    BY <2>8 DEF vars, TablesAreRecords
  <2> QED
    BY Zenon, <2>4, <2>5, <2>6, <2>7, <2>8 DEF Next
<1> QED
  BY <1>1, <1>2, PTL DEF Spec

-----------------------------------------------------------------------------
(* What can be found in a list. *)

\* What can be found are the entries that are not garbage, each once, in order.
LEMMA FoundOf ==
    ASSUME NEW s, Len(s) \in Nat
    PROVE  \E n \in Nat : \E f \in Store!Increasing(n, Len(s)) :
              /\ Found(s) = [i \in 1 .. n |-> s[f[i]]]
              /\ \A k \in 1 .. Len(s) : s[k] # Garbage <=> \E i \in 1 .. n : f[i] = k
<1> DEFINE Step(t, k) == IF s[k] = Garbage THEN t ELSE Append(t, s[k])
           Steps(f, n) == f = [k \in 0 .. n |-> IF k = 0 THEN <<>> ELSE Step(f[k - 1], k)]
           T == {n \in Nat : \E f : Steps(f, n)}
           l == Len(s)
           found == CHOOSE f : Steps(f, l)
           V == {s[k] : k \in 1 .. l}
<1>1. Found(s) = found[l]
  BY DEF Found
<1> HIDE DEF Step
<1>2. 0 \in T
  <2>1. Steps([k \in 0 .. 0 |-> <<>>], 0)
    OBVIOUS
  <2> HIDE DEF Steps
  <2> QED
    BY <2>1
<1>3. ASSUME NEW n \in Nat, n \in T PROVE n + 1 \in T
  <2>1. PICK f : Steps(f, n)
    BY <1>3
  <2> DEFINE g == [k \in 0 .. n + 1 |-> IF k <= n THEN f[k] ELSE Step(f[n], k)]
  <2>2. ASSUME NEW k \in 0 .. n + 1 PROVE g[k] = IF k = 0 THEN <<>> ELSE Step(g[k - 1], k)
    <3>1. CASE k = 0
      BY <2>1, <3>1
    <3>2. CASE k # 0 /\ k <= n
      <4>1. f[k] = Step(f[k - 1], k)
        BY <2>1, <3>2
      <4>2. g[k] = f[k] /\ g[k - 1] = f[k - 1]
        BY <3>2
      <4> QED
        BY <3>2, <4>1, <4>2
    <3>3. CASE k = n + 1
      <4>1. g[k] = Step(f[n], k) /\ g[k - 1] = f[n]
        BY <3>3
      <4> QED
        BY <3>3, <4>1
    <3> QED
      BY <3>1, <3>2, <3>3
  <2>3. g = [k \in 0 .. n + 1 |-> g[k]]
    OBVIOUS
  <2> HIDE DEF g
  <2>4. Steps(g, n + 1)
    BY <2>2, <2>3
  <2> HIDE DEF Steps
  <2> QED
    BY <2>4
<1>4. l \in T
  <2> HIDE DEF T, l
  <2>1. l \in Nat
    BY DEF l
  <2> QED
    BY <1>2, <1>3, <2>1, Induction
<1>5. Steps(found, l)
  <2> HIDE DEF Steps, l
  <2> QED
    BY <1>4
<1> HIDE DEF found
<1>6. found[0] = <<>> /\ \A k \in 1 .. l : found[k] = Step(found[k - 1], k)
  BY <1>5
<1> HIDE DEF V
<1> DEFINE OK(k) == \E n \in Nat : \E f \in Store!Increasing(n, k) :
                        /\ found[k] = [i \in 1 .. n |-> s[f[i]]]
                        /\ \A j \in 1 .. k : s[j] # Garbage <=> \E i \in 1 .. n : f[i] = j
           O == {k \in Nat : k <= l => OK(k)}
<1>7. 0 \in O
  <2>1. <<>> \in Store!Increasing(0, 0) /\ found[0] = [i \in 1 .. 0 |-> s[<<>>[i]]]
    BY <1>6 DEF Store!Increasing
  <2>2. OK(0)
    BY <2>1
  <2> HIDE DEF OK
  <2> QED
    BY <2>2
<1>8. ASSUME NEW k \in Nat, k \in O PROVE k + 1 \in O
  <2> SUFFICES ASSUME k + 1 <= l PROVE OK(k + 1)
    <3> HIDE DEF OK
    <3> QED
      OBVIOUS
  <2>1. k <= l /\ k + 1 \in 1 .. l /\ (k + 1) - 1 = k
    OBVIOUS
  <2>2. PICK n \in Nat : \E f \in Store!Increasing(n, k) :
            /\ found[k] = [i \in 1 .. n |-> s[f[i]]]
            /\ \A j \in 1 .. k : s[j] # Garbage <=> \E i \in 1 .. n : f[i] = j
    BY <1>8, <2>1
  <2>3. PICK f \in Store!Increasing(n, k) :
            /\ found[k] = [i \in 1 .. n |-> s[f[i]]]
            /\ \A j \in 1 .. k : s[j] # Garbage <=> \E i \in 1 .. n : f[i] = j
    BY <2>2
  <2>4. f \in [1 .. n -> 1 .. k] /\ \A i, j \in 1 .. n : i < j => f[i] < f[j]
    BY DEF Store!Increasing
  <2>5. found[k + 1] = Step(found[k], k + 1)
    BY <1>6, <2>1
  <2>6. CASE s[k + 1] = Garbage
    <3>1. f \in Store!Increasing(n, k + 1)
      BY <2>4 DEF Store!Increasing
    <3>2. found[k + 1] = found[k]
      BY <2>5, <2>6 DEF Step
    <3>3. \A j \in 1 .. k + 1 : s[j] # Garbage <=> \E i \in 1 .. n : f[i] = j
      BY <2>3, <2>4, <2>6
    <3> QED
      BY <2>3, <3>1, <3>2, <3>3
  <2>7. CASE s[k + 1] # Garbage
    <3> DEFINE g == [i \in 1 .. n + 1 |-> IF i = n + 1 THEN k + 1 ELSE f[i]]
               t == [i \in 1 .. n |-> s[f[i]]]
               d == Append(t, s[k + 1])
    <3>1. g \in [1 .. n + 1 -> 1 .. k + 1] /\ \A i, j \in 1 .. n + 1 : i < j => g[i] < g[j]
      BY <2>4
    <3>2. t \in Seq(V) /\ s[k + 1] \in V /\ Len(t) = n
      <4>1. \A i \in 1 .. n : f[i] \in 1 .. l
        BY <2>1, <2>4
      <4>2. \A i \in 1 .. n : s[f[i]] \in V
        BY <4>1 DEF V
      <4>3. s[k + 1] \in V
        BY <2>1 DEF V
      <4> QED
        BY <4>2, <4>3
    <3>3. \A i \in 1 .. n : t[i] = s[f[i]]
      OBVIOUS
    <3> HIDE DEF t
    <3>4. d \in Seq(V) /\ Len(d) = n + 1 /\ d[n + 1] = s[k + 1] /\ \A i \in 1 .. n : d[i] = t[i]
      BY <3>2, AppendProperties
    <3> HIDE DEF d
    <3>5. d = [i \in 1 .. n + 1 |-> d[i]]
      BY <3>4
    <3>6. \A i \in 1 .. n + 1 : d[i] = s[g[i]]
      BY <3>3, <3>4
    <3>7. \A j \in 1 .. k + 1 : s[j] # Garbage <=> \E i \in 1 .. n + 1 : g[i] = j
      <4> SUFFICES ASSUME NEW j \in 1 .. k + 1
                   PROVE  s[j] # Garbage <=> \E i \in 1 .. n + 1 : g[i] = j
        OBVIOUS
      <4>1. CASE j = k + 1
        <5>1. n + 1 \in 1 .. n + 1 /\ g[n + 1] = k + 1
          OBVIOUS
        <5> QED
          BY <2>7, <4>1, <5>1
      <4>2. CASE j \in 1 .. k
        <5>1. (\E i \in 1 .. n : f[i] = j) <=> (\E i \in 1 .. n + 1 : g[i] = j)
          <6>1. \A i \in 1 .. n : i \in 1 .. n + 1 /\ g[i] = f[i]
            OBVIOUS
          <6>2. \A i \in 1 .. n + 1 : g[i] = j => i \in 1 .. n
            BY <4>2
          <6> HIDE DEF g
          <6> QED
            BY <6>1, <6>2
        <5> QED
          BY <2>3, <4>2, <5>1
      <4> QED
        BY <4>1, <4>2
    <3> HIDE DEF g
    <3>8. g \in Store!Increasing(n + 1, k + 1)
      BY <3>1 DEF Store!Increasing
    <3>9. found[k + 1] = d
      BY <2>3, <2>5, <2>7 DEF Step, d, t
    <3>10. found[k + 1] = [i \in 1 .. n + 1 |-> s[g[i]]]
      BY <3>5, <3>6, <3>9
    <3> QED
      BY <3>7, <3>8, <3>10
  <2> QED
    BY <2>6, <2>7
<1>9. l \in O
  <2> HIDE DEF O, l
  <2>1. l \in Nat
    BY DEF l
  <2> QED
    BY <1>7, <1>8, <2>1, Induction
<1>10. OK(l)
  <2> HIDE DEF OK
  <2> QED
    BY <1>9
<1> QED
  BY <1>1, <1>10

\* Entries of a list, in its order, are what is left of what could be found.
LEMMA RestOf ==
    ASSUME NEW s, Len(s) \in Nat, NEW k \in Nat, NEW e \in Store!Increasing(k, Len(s)),
           \A i \in 1 .. k : s[e[i]] # Garbage
    PROVE  [i \in 1 .. k |-> s[e[i]]] \in Store!Rests(Found(s))
<1>1. PICK n \in Nat : \E f \in Store!Increasing(n, Len(s)) :
          /\ Found(s) = [i \in 1 .. n |-> s[f[i]]]
          /\ \A j \in 1 .. Len(s) : s[j] # Garbage <=> \E i \in 1 .. n : f[i] = j
  BY FoundOf
<1>2. PICK f \in Store!Increasing(n, Len(s)) :
          /\ Found(s) = [i \in 1 .. n |-> s[f[i]]]
          /\ \A j \in 1 .. Len(s) : s[j] # Garbage <=> \E i \in 1 .. n : f[i] = j
  BY <1>1
<1>3. /\ f \in [1 .. n -> 1 .. Len(s)] /\ \A i, j \in 1 .. n : i < j => f[i] < f[j]
      /\ e \in [1 .. k -> 1 .. Len(s)] /\ \A i, j \in 1 .. k : i < j => e[i] < e[j]
  BY DEF Store!Increasing
<1> DEFINE h == [i \in 1 .. k |-> CHOOSE j \in 1 .. n : f[j] = e[i]]
<1>4. \A i \in 1 .. k : h[i] \in 1 .. n /\ f[h[i]] = e[i]
  <2> SUFFICES ASSUME NEW i \in 1 .. k PROVE h[i] \in 1 .. n /\ f[h[i]] = e[i]
    OBVIOUS
  <2>1. e[i] \in 1 .. Len(s) /\ s[e[i]] # Garbage
    BY <1>3
  <2>2. \E j \in 1 .. n : f[j] = e[i]
    BY <1>2, <2>1
  <2> QED
    BY <2>2
<1>5. h \in [1 .. k -> 1 .. n]
  BY <1>4
<1> HIDE DEF h
<1>6. ASSUME NEW i \in 1 .. k, NEW j \in 1 .. k, i < j PROVE h[i] < h[j]
  <2>1. f[h[i]] < f[h[j]] /\ h[i] \in 1 .. n /\ h[j] \in 1 .. n
    BY <1>3, <1>4, <1>6
  <2>2. f[h[i]] \in Int /\ f[h[j]] \in Int
    BY <1>3, <2>1
  <2>3. h[j] < h[i] => f[h[j]] < f[h[i]]
    BY <1>3, <2>1
  <2>4. h[j] # h[i]
    BY <2>1, <2>2
  <2> QED
    BY <2>1, <2>2, <2>3, <2>4
<1>7. h \in Store!Increasing(k, n)
  BY <1>5, <1>6 DEF Store!Increasing
<1>8. k \in 0 .. n
  <2>1. h \in Injection(1 .. k, 1 .. n)
    <3>1. \A i, j \in 1 .. k : h[i] = h[j] => i = j
      <4> SUFFICES ASSUME NEW i \in 1 .. k, NEW j \in 1 .. k, h[i] = h[j] PROVE i = j
        OBVIOUS
      <4>1. h[i] \in Int /\ ~(h[i] < h[j]) /\ ~(h[j] < h[i])
        BY <1>4
      <4>2. ~(i < j) /\ ~(j < i)
        BY <1>6, <4>1
      <4> QED
        BY <4>2
    <3> QED
      BY <1>5, <3>1 DEF Injection, IsInjective
  <2>2. \A m \in Nat : IsFiniteSet(1 .. m) /\ Cardinality(1 .. m) = m
    <3> SUFFICES ASSUME NEW m \in Nat PROVE IsFiniteSet(1 .. m) /\ Cardinality(1 .. m) = m
      OBVIOUS
    <3>1. 1 \in Int /\ m \in Int /\ (1 > m => m = 0) /\ m - 1 + 1 = m
      OBVIOUS
    <3> QED
      BY <3>1, FS_Interval
  <2>3. Cardinality(1 .. k) <= Cardinality(1 .. n)
    BY <2>1, <2>2, FS_Injection
  <2> QED
    BY <2>2, <2>3
<1>9. Len(Found(s)) = n /\ \A i \in 1 .. n : Found(s)[i] = s[f[i]]
  <2> DEFINE t == [i \in 1 .. n |-> s[f[i]]]
             V == {s[j] : j \in 1 .. Len(s)}
  <2>1. \A i \in 1 .. n : s[f[i]] \in V
    BY <1>3
  <2> HIDE DEF V
  <2>2. t \in Seq(V) /\ Len(t) = n
    BY <2>1
  <2> QED
    BY <1>2, <2>2
<1>10. [i \in 1 .. k |-> s[e[i]]] = [i \in 1 .. k |-> Found(s)[h[i]]]
  BY <1>4, <1>9
<1> QED
  BY <1>7, <1>8, <1>9, <1>10 DEF Store!Rests

\* What is left of a list when some of its entries are gone, or are garbage.
LEMMA KeptOf ==
    ASSUME NEW s, Len(s) \in Nat, NEW t, Len(t) \in Nat, NEW k \in 0 .. 1,
           \A j \in 1 .. Len(t) : t[j] # Garbage => j + k \in 1 .. Len(s) /\ s[j + k] = t[j]
    PROVE  Found(t) \in Store!Rests(Found(s))
<1>1. PICK n \in Nat : \E f \in Store!Increasing(n, Len(t)) :
          /\ Found(t) = [i \in 1 .. n |-> t[f[i]]]
          /\ \A j \in 1 .. Len(t) : t[j] # Garbage <=> \E i \in 1 .. n : f[i] = j
  BY FoundOf
<1>2. PICK f \in Store!Increasing(n, Len(t)) :
          /\ Found(t) = [i \in 1 .. n |-> t[f[i]]]
          /\ \A j \in 1 .. Len(t) : t[j] # Garbage <=> \E i \in 1 .. n : f[i] = j
  BY <1>1
<1>3. f \in [1 .. n -> 1 .. Len(t)] /\ \A i, j \in 1 .. n : i < j => f[i] < f[j]
  BY DEF Store!Increasing
<1> DEFINE e == [i \in 1 .. n |-> f[i] + k]
<1>4. \A i \in 1 .. n : f[i] \in 1 .. Len(t) /\ t[f[i]] # Garbage
  BY <1>2, <1>3
<1>5. \A i \in 1 .. n : e[i] = f[i] + k /\ e[i] \in 1 .. Len(s) /\ s[e[i]] = t[f[i]]
  BY <1>4
<1>6. e \in [1 .. n -> 1 .. Len(s)]
  BY <1>5
<1> HIDE DEF e
<1>7. \A i, j \in 1 .. n : i < j => e[i] < e[j]
  BY <1>3, <1>4, <1>5
<1>8. e \in Store!Increasing(n, Len(s))
  BY <1>6, <1>7 DEF Store!Increasing
<1>9. [i \in 1 .. n |-> s[e[i]]] \in Store!Rests(Found(s))
  <2>1. \A i \in 1 .. n : s[e[i]] # Garbage
    BY <1>4, <1>5
  <2> QED
    BY <1>8, <2>1, RestOf
<1>10. Found(t) = [i \in 1 .. n |-> s[e[i]]]
  BY <1>2, <1>5
<1> QED
  BY <1>9, <1>10

\* The same when an entry was put behind what is left.
LEMMA CachedOf ==
    ASSUME NEW s, Len(s) \in Nat, NEW t, Len(t) \in Nat \ {0}, NEW k \in 0 .. 1,
           t[Len(t)] # Garbage,
           \A j \in 1 .. Len(t) - 1 :
              t[j] # Garbage => j + k \in 1 .. Len(s) /\ s[j + k] = t[j]
    PROVE  \E rest \in Store!Rests(Found(s)) : Found(t) = Append(rest, t[Len(t)])
<1>1. PICK n \in Nat : \E f \in Store!Increasing(n, Len(t)) :
          /\ Found(t) = [i \in 1 .. n |-> t[f[i]]]
          /\ \A j \in 1 .. Len(t) : t[j] # Garbage <=> \E i \in 1 .. n : f[i] = j
  BY FoundOf
<1>2. PICK f \in Store!Increasing(n, Len(t)) :
          /\ Found(t) = [i \in 1 .. n |-> t[f[i]]]
          /\ \A j \in 1 .. Len(t) : t[j] # Garbage <=> \E i \in 1 .. n : f[i] = j
  BY <1>1
<1>3. f \in [1 .. n -> 1 .. Len(t)] /\ \A i, j \in 1 .. n : i < j => f[i] < f[j]
  BY DEF Store!Increasing
<1>4. n # 0 /\ f[n] = Len(t)
  <2>1. PICK i \in 1 .. n : f[i] = Len(t)
    BY <1>2
  <2>2. n \in 1 .. n /\ f[n] \in 1 .. Len(t)
    BY <1>3
  <2>3. i # n => f[i] < f[n]
    BY <1>3, <2>2
  <2> QED
    BY <2>1, <2>2, <2>3
<1> DEFINE l == n - 1
           e == [i \in 1 .. l |-> f[i] + k]
           rest == [i \in 1 .. l |-> s[e[i]]]
           V == {t[j] : j \in 1 .. Len(t)}
<1>5. l \in Nat /\ l + 1 = n /\ \A i \in 1 .. l : i \in 1 .. n /\ i < n
  BY <1>4
<1> HIDE DEF l
<1>6. \A i \in 1 .. l : f[i] \in 1 .. Len(t) - 1 /\ t[f[i]] # Garbage
  <2> SUFFICES ASSUME NEW i \in 1 .. l PROVE f[i] \in 1 .. Len(t) - 1 /\ t[f[i]] # Garbage
    OBVIOUS
  <2>1. i \in 1 .. n /\ n \in 1 .. n /\ i < n
    BY <1>4, <1>5
  <2>2. f[i] < Len(t) /\ f[i] \in 1 .. Len(t)
    BY <1>3, <1>4, <2>1
  <2>3. t[f[i]] # Garbage
    BY <1>2, <2>1, <2>2
  <2> QED
    BY <2>2, <2>3
<1>7. \A i \in 1 .. l : e[i] = f[i] + k /\ e[i] \in 1 .. Len(s) /\ s[e[i]] = t[f[i]]
  BY <1>6
<1>8. e \in [1 .. l -> 1 .. Len(s)]
  BY <1>7
<1> HIDE DEF e
<1>9. \A i, j \in 1 .. l : i < j => e[i] < e[j]
  BY <1>3, <1>5, <1>6, <1>7
<1>10. e \in Store!Increasing(l, Len(s))
  BY <1>8, <1>9 DEF Store!Increasing
<1>11. rest \in Store!Rests(Found(s))
  <2>1. \A i \in 1 .. l : s[e[i]] # Garbage
    BY <1>6, <1>7
  <2> QED
    BY <1>5, <1>10, <2>1, RestOf
<1>12. Found(t) = Append(rest, t[Len(t)])
  <2> DEFINE d == Append(rest, t[Len(t)])
  <2>1. \A i \in 1 .. l : s[e[i]] \in V
    BY <1>6, <1>7
  <2>2. t[Len(t)] \in V
    OBVIOUS
  <2> HIDE DEF V
  <2>3. rest \in Seq(V) /\ Len(rest) = l
    BY <1>5, <2>1
  <2>4. \A i \in 1 .. l : rest[i] = s[e[i]]
    OBVIOUS
  <2> HIDE DEF rest
  <2>5. d \in Seq(V) /\ Len(d) = l + 1 /\ d[l + 1] = t[Len(t)] /\ \A i \in 1 .. l : d[i] = rest[i]
    BY <2>2, <2>3, AppendProperties
  <2> HIDE DEF d
  <2>6. d = [i \in 1 .. n |-> d[i]]
    BY <1>5, <2>5
  <2>7. \A i \in 1 .. n : d[i] = t[f[i]]
    <3> SUFFICES ASSUME NEW i \in 1 .. n PROVE d[i] = t[f[i]]
      OBVIOUS
    <3>1. i = n \/ i \in 1 .. l
      BY <1>5
    <3>2. CASE i = n
      BY <1>4, <1>5, <2>5, <3>2
    <3>3. CASE i \in 1 .. l
      BY <1>7, <2>4, <2>5, <3>3
    <3> QED
      BY <3>1, <3>2, <3>3
  <2> QED
    BY <1>2, <2>6, <2>7 DEF d
<1> QED
  BY <1>11, <1>12

\* The entries of a list, before and after a step.
LEMMA WalkEntries ==
    \A c \in Seq(Nodes) : IsWalk(c) =>
        Len(Entries) = Len(c) /\ \A i \in 1 .. Len(c) : Entries[i] = heap[c[i]].entry
<1> SUFFICES ASSUME NEW c \in Seq(Nodes), IsWalk(c)
             PROVE  Len(Entries) = Len(c) /\ \A i \in 1 .. Len(c) : Entries[i] = heap[c[i]].entry
  OBVIOUS
<1> DEFINE V == {heap[c[i]].entry : i \in 1 .. Len(c)}
<1>1. Len(c) \in Nat /\ DOMAIN c = 1 .. Len(c)
  BY LenProperties
<1>2. Entries = [i \in 1 .. Len(c) |-> heap[c[i]].entry]
  BY <1>1, WalkList DEF Entries
<1>3. \A i \in 1 .. Len(c) : heap[c[i]].entry \in V
  OBVIOUS
<1> HIDE DEF V
<1>4. Entries \in Seq(V) /\ Len(Entries) = Len(c)
  BY <1>1, <1>2, <1>3
<1> QED
  BY <1>2, <1>4

LEMMA WalkEntriesNext ==
    (\A c \in Seq(Nodes) : IsWalk(c) =>
        Len(Entries) = Len(c) /\ \A i \in 1 .. Len(c) : Entries[i] = heap[c[i]].entry)'
BY WalkEntries, PTL

\* A step after which the list has entries that it had before, but for the first
\* if k is 1, loses entries; one after which it has another behind them caches it.
Keeps(c, d, l, k) ==
    \A j \in 1 .. l : heap'[d[j]].entry # Garbage =>
        j + k \in 1 .. Len(c) /\ heap[c[j + k]].entry = heap'[d[j]].entry

LEMMA Loses ==
    ASSUME NEW c \in Seq(Nodes), IsWalk(c), NEW d \in Seq(Nodes), IsWalk(d)', NEW k \in 0 .. 1,
           Keeps(c, d, Len(d), k)
    PROVE  Store!StoreNext
<1>1. Len(c) \in Nat /\ Len(d) \in Nat
  BY LenProperties
<1>2. Len(Entries) = Len(c) /\ \A i \in 1 .. Len(c) : Entries[i] = heap[c[i]].entry
  BY WalkEntries
<1>3. Len(Entries') = Len(d) /\ \A i \in 1 .. Len(d) : Entries'[i] = heap'[d[i]].entry
  BY WalkEntriesNext
<1> DEFINE s == Entries
           t == Entries'
<1>4. /\ Len(s) \in Nat /\ Len(t) \in Nat
      /\ \A j \in 1 .. Len(t) : t[j] # Garbage => j + k \in 1 .. Len(s) /\ s[j + k] = t[j]
  BY <1>1, <1>2, <1>3 DEF Keeps
<1> HIDE DEF s, t
<1>5. Found(t) \in Store!Rests(Found(s))
  BY <1>4, KeptOf
<1>6. Found(Entries)' = Found(t) /\ Found(Entries) = Found(s)
  BY DEF s, t, Found
<1> QED
  BY <1>5, <1>6 DEF Store!StoreNext, Store!Lose

LEMMA Caches ==
    ASSUME NEW c \in Seq(Nodes), IsWalk(c), NEW d \in Seq(Nodes), IsWalk(d)', NEW k \in 0 .. 1,
           Len(d) # 0, heap'[d[Len(d)]].entry \in Credentials, Keeps(c, d, Len(d) - 1, k)
    PROVE  Store!StoreNext
<1>1. Len(c) \in Nat /\ Len(d) \in Nat
  BY LenProperties
<1>2. Len(Entries) = Len(c) /\ \A i \in 1 .. Len(c) : Entries[i] = heap[c[i]].entry
  BY WalkEntries
<1>3. Len(Entries') = Len(d) /\ \A i \in 1 .. Len(d) : Entries'[i] = heap'[d[i]].entry
  BY WalkEntriesNext
<1> DEFINE s == Entries
           t == Entries'
<1>4. /\ Len(s) \in Nat /\ Len(t) \in Nat \ {0}
      /\ t[Len(t)] \in Credentials /\ t[Len(t)] # Garbage
      /\ \A j \in 1 .. Len(t) - 1 : t[j] # Garbage => j + k \in 1 .. Len(s) /\ s[j + k] = t[j]
  BY <1>1, <1>2, <1>3, NotGarbage DEF Keeps
<1> HIDE DEF s, t
<1>5. \E rest \in Store!Rests(Found(s)) : Found(t) = Append(rest, t[Len(t)])
  BY <1>4, CachedOf
<1>6. Found(Entries)' = Found(t) /\ Found(Entries) = Found(s)
  BY DEF s, t, Found
<1> QED
  BY <1>4, <1>5, <1>6 DEF Store!StoreNext, Store!Cache

-----------------------------------------------------------------------------
(* The store of credentials. *)

\* A step that leaves the list alone, and what the others do to what can be found.
LEMMA StoreKept ==
    ASSUME UNCHANGED <<creds, heap>>
    PROVE  UNCHANGED Found(Entries)
BY DEF Found, Entries, List, Reached, After

LEMMA StoreFreed ==
    ASSUME HeapOK, NEW n \in Nodes, heap[n].state # "unused", free(n), UNCHANGED creds
    PROVE  Store!StoreNext
<1>1. PICK c \in Seq(Nodes) : IsWalk(c)
  BY ListNodes, ListWalk
<1>2. Len(c) \in Nat /\ \A i \in 1 .. Len(c) : c[i] \in Nodes
  BY LenProperties, ElementOfSeq
<1>3. /\ \A m \in Nodes : heap'[m].next = heap[m].next
      /\ \A m \in Nodes : heap'[m].entry # Garbage => heap'[m].entry = heap[m].entry
  BY Freeing
<1>4. IsWalk(c)'
  <2>1. \A i \in 1 .. Len(c) : heap'[c[i]].next = heap[c[i]].next
    BY <1>2, <1>3
  <2> QED
    BY <1>1, <2>1 DEF IsWalk
<1>5. Keeps(c, c, Len(c), 0)
  BY <1>2, <1>3 DEF Keeps
<1> QED
  BY <1>1, <1>4, <1>5, Loses

LEMMA StoreInserted ==
    ASSUME HeapOK, ~Cyclic, NEW n \in Nodes, NEW entry \in Credentials, Inserted(n, entry)
    PROVE  Store!StoreNext
<1>1. PICK c \in Seq(Nodes) : IsWalk(c)
  BY ListNodes, ListWalk
<1>2. Len(c) \in Nat /\ \A i \in 1 .. Len(c) : c[i] \in Nodes
  BY LenProperties, ElementOfSeq
<1>3. IsChain(c)
  <2>1. \A i \in 1 .. Len(c) : i = Len(c) => heap[c[i]].next = NULL
    <3> SUFFICES ASSUME NEW i \in 1 .. Len(c), i = Len(c) PROVE heap[c[i]].next = NULL
      OBVIOUS
    <3>1. c # <<>>
      BY <1>2, EmptySeq
    <3> QED
      BY <1>1, <3>1, WalkList
  <2> QED
    BY <1>1, <2>1 DEF IsWalk, IsChain
<1>4. PICK d \in Seq(Nodes) :
         /\ IsChain(d)'
         /\ Len(d) \in 1 .. Len(c) + 1 /\ d[Len(d)] = n
         /\ \A i \in 1 .. Len(d) - 1 : d[i] = c[i] /\ c[i] # n
  BY <1>3, ChainInserted
<1>5. IsWalk(d)'
  BY <1>4 DEF IsChain, IsWalk
<1>6. Len(d) # 0 /\ heap'[d[Len(d)]].entry \in Credentials
  BY <1>4 DEF Inserted
<1>7. Keeps(c, d, Len(d) - 1, 0)
  <2> SUFFICES ASSUME NEW j \in 1 .. Len(d) - 1
               PROVE  j + 0 \in 1 .. Len(c) /\ heap[c[j + 0]].entry = heap'[d[j]].entry
    BY DEF Keeps
  <2>1. j \in 1 .. Len(c) /\ j + 0 = j
    BY <1>2, <1>4
  <2>2. d[j] = c[j] /\ c[j] # n /\ c[j] \in Nodes
    BY <1>2, <1>4, <2>1
  <2>3. heap'[c[j]].entry = heap[c[j]].entry
    BY <2>2 DEF Inserted
  <2> QED
    BY <2>1, <2>2, <2>3
<1> QED
  BY <1>1, <1>5, <1>6, <1>7, Caches

\* Some node in the list, but not the head, is the last when it is followed by what
\* the head is followed by; and a node that is not in the list is of no matter.
LEMMA StoreRelinked ==
    ASSUME HeapOK, creds # NULL, NEW p \in {m \in Nodes : heap[m].state # "unused"},
           heap' = [heap EXCEPT ![p].next = heap[creds].next], UNCHANGED creds
    PROVE  Store!StoreNext
<1>1. PICK c \in Seq(Nodes) : IsWalk(c)
  BY ListNodes, ListWalk
<1>2. Len(c) \in Nat /\ \A i \in 1 .. Len(c) : c[i] \in Nodes
  BY LenProperties, ElementOfSeq
<1>3. c # <<>> /\ creds = c[1] /\ Len(c) # 0
  BY <1>1, EmptySeq DEF IsWalk
<1>4. \A m \in Nodes : /\ m # p => heap'[m] = heap[m]
                       /\ heap'[m].entry = heap[m].entry
                       /\ heap'[m].next = IF m = p THEN heap[creds].next ELSE heap[m].next
  BY Relinked
<1>5. CASE \A i \in 1 .. Len(c) : c[i] # p \/ i = 1
  <2>1. \A i \in 1 .. Len(c) : heap'[c[i]].next = heap[c[i]].next
    BY <1>2, <1>3, <1>4, <1>5
  <2>2. IsWalk(c)'
    BY <1>1, <2>1 DEF IsWalk
  <2>3. Keeps(c, c, Len(c), 0)
    BY <1>2, <1>4 DEF Keeps
  <2> QED
    BY <1>1, <2>2, <2>3, Loses
<1>6. ASSUME NEW k \in 1 .. Len(c), c[k] = p, k # 1 PROVE Store!StoreNext
  <2> DEFINE d == SubSeq(c, 1, k)
  <2>1. d \in Seq(Nodes) /\ Len(d) = k /\ \A i \in 1 .. k : d[i] = c[i]
    <3>1. k \in Nat \ {0} /\ \A i \in 1 .. k : c[i] \in Nodes
      BY <1>2
    <3> QED
      BY <3>1, Prefix
  <2> HIDE DEF d
  <2>2. \A i, j \in 1 .. Len(c) : c[i] = c[j] => i = j
    BY <1>1 DEF IsWalk
  <2>3. \A i \in 1 .. k : i \in 1 .. Len(c)
    BY <1>2
  <2>4. 1 \in 1 .. k /\ 2 \in 1 .. k /\ 1 # Len(c) /\ 1 + 1 = 2
    BY <1>2, <1>6
  <2>5. heap[creds].next = d[2]
    BY <1>1, <1>3, <2>1, <2>3, <2>4 DEF IsWalk
  <2>6. \A i, j \in 1 .. Len(d) : d[i] = d[j] => i = j
    BY <2>1, <2>2, <2>3
  <2>7. creds' = IF d = <<>> THEN NULL ELSE d[1]
    <3>1. d # <<>>
      BY <2>1, EmptySeq
    <3> QED
      BY <1>3, <2>1, <2>4, <3>1
  <2>8. ASSUME NEW i \in 1 .. Len(d)
        PROVE  IF i = Len(d) THEN heap'[d[i]].next \in {NULL} \cup {d[j] : j \in 1 .. Len(d)}
               ELSE heap'[d[i]].next = d[i + 1]
    <3>1. i \in 1 .. k /\ i \in 1 .. Len(c) /\ d[i] = c[i] /\ c[i] \in Nodes
      BY <1>2, <2>1, <2>3
    <3>2. CASE i = k
      <4>1. heap'[d[i]].next = d[2]
        BY <1>4, <1>6, <2>5, <3>1, <3>2
      <4> QED
        BY <2>1, <2>4, <3>2, <4>1
    <3>3. CASE i # k
      <4>1. c[i] # p /\ i + 1 \in 1 .. k /\ i # Len(c)
        BY <1>2, <1>6, <2>2, <3>1, <3>3
      <4>2. heap'[c[i]].next = c[i + 1]
        BY <1>1, <1>4, <3>1, <4>1 DEF IsWalk
      <4> QED
        BY <2>1, <3>1, <3>3, <4>1, <4>2
    <3> QED
      BY <3>2, <3>3
  <2>9. IsWalk(d)'
    BY <2>6, <2>7, <2>8 DEF IsWalk
  <2>10. Keeps(c, d, Len(d), 0)
    <3> SUFFICES ASSUME NEW j \in 1 .. k
                 PROVE  j + 0 \in 1 .. Len(c) /\ heap[c[j + 0]].entry = heap'[d[j]].entry
      BY <2>1 DEF Keeps
    <3>1. j \in 1 .. Len(c) /\ j + 0 = j /\ d[j] = c[j] /\ c[j] \in Nodes
      BY <1>2, <2>1, <2>3
    <3> QED
      BY <1>4, <3>1
  <2> QED
    BY <1>1, <2>1, <2>9, <2>10, Loses
<1> QED
  BY <1>5, <1>6

\* The list without its head; when the list came back to the head, that is now the
\* last, as if it had been cached again.
LEMMA StoreHeadOut ==
    ASSUME HeapOK, creds # NULL, heap[creds].entry \in Credentials,
           creds' = heap[creds].next, UNCHANGED heap
    PROVE  Store!StoreNext
<1>1. PICK c \in Seq(Nodes) : IsWalk(c)
  BY ListNodes, ListWalk
<1> DEFINE m == Len(c)
<1>2. m \in Nat \ {0} /\ \A i \in 1 .. m : c[i] \in Nodes /\ c[i] # NULL
  <2>1. c # <<>>
    BY <1>1 DEF IsWalk
  <2> QED
    BY <2>1, LenProperties, ElementOfSeq, EmptySeq DEF Nodes, NULL
<1>3. creds = c[1]
  BY <1>1 DEF IsWalk
<1>4. \A i, j \in 1 .. m : c[i] = c[j] => i = j
  BY <1>1 DEF IsWalk
<1>5. \A i \in 1 .. m : IF i = m THEN heap[c[i]].next \in {NULL} \cup {c[j] : j \in 1 .. m}
                        ELSE heap[c[i]].next = c[i + 1]
  BY <1>1 DEF IsWalk
<1> DEFINE back == heap[c[m]].next = c[1]
<1> HIDE DEF m, back
<1>6. PICK l \in Nat : l <= m /\ m - 1 <= l /\ (back <=> l = m)
  <2>1. CASE back
    BY <1>2, <2>1
  <2>2. CASE ~back
    <3>1. m - 1 \in Nat /\ m - 1 <= m /\ m - 1 <= m - 1 /\ m - 1 # m
      BY <1>2
    <3> QED
      BY <2>2, <3>1
  <2> QED
    BY <2>1, <2>2
<1>7. PICK d \in Seq(Nodes) :
         /\ Len(d) = l
         /\ \A i \in 1 .. l : IF i < m THEN i + 1 \in 1 .. m /\ d[i] = c[i + 1]
                              ELSE i = m /\ l = m /\ d[i] = c[1]
  <2> DEFINE e == [i \in 1 .. l |-> IF i < m THEN c[i + 1] ELSE c[1]]
  <2>1. \A i \in 1 .. l : IF i < m THEN i + 1 \in 1 .. m /\ e[i] = c[i + 1]
                          ELSE i = m /\ l = m /\ e[i] = c[1]
    BY <1>2, <1>6
  <2>2. \A i \in 1 .. l : (IF i < m THEN c[i + 1] ELSE c[1]) \in Nodes
    BY <1>2, <1>6
  <2>3. e \in Seq(Nodes) /\ Len(e) = l
    BY <2>2
  <2> HIDE DEF e
  <2> QED
    BY <2>1, <2>3
<1>8. d \in Seq(Nodes) /\ Len(d) = l
  BY <1>7
<1>9. \A i, j \in 1 .. l : d[i] = d[j] => i = j
  <2> SUFFICES ASSUME NEW i \in 1 .. l, NEW j \in 1 .. l, d[i] = d[j] PROVE i = j
    OBVIOUS
  <2>1. 1 \in 1 .. m /\ i \in Nat \ {0} /\ j \in Nat \ {0}
    BY <1>2, <1>6
  <2>2. CASE i < m /\ j < m
    <3>1. i + 1 = j + 1
      BY <1>4, <1>7, <2>2
    <3> QED
      BY <2>1, <3>1
  <2>3. CASE i < m /\ ~(j < m)
    <3>1. c[i + 1] = c[1] /\ i + 1 \in 1 .. m
      BY <1>7, <2>3
    <3>2. i + 1 = 1
      BY <1>4, <2>1, <3>1
    <3> QED
      BY <2>1, <3>2
  <2>4. CASE ~(i < m) /\ j < m
    <3>1. c[j + 1] = c[1] /\ j + 1 \in 1 .. m
      BY <1>7, <2>4
    <3>2. j + 1 = 1
      BY <1>4, <2>1, <3>1
    <3> QED
      BY <2>1, <3>2
  <2>5. CASE ~(i < m) /\ ~(j < m)
    BY <1>7, <2>5
  <2> QED
    BY <2>2, <2>3, <2>4, <2>5
\* What follows the last of c, but for the head, is in d.
<1>10. ASSUME ~back PROVE heap[c[m]].next \in {NULL} \cup {d[j] : j \in 1 .. l}
  <2>1. m \in 1 .. m /\ l = m - 1
    BY <1>2, <1>6, <1>10
  <2>2. heap[c[m]].next \in {NULL} \cup {c[j] : j \in 1 .. m}
    BY <1>5, <2>1
  <2>3. ASSUME NEW j \in 1 .. m, heap[c[m]].next = c[j] PROVE c[j] \in {d[i] : i \in 1 .. l}
    <3>1. j # 1
      BY <1>10, <2>3 DEF back
    <3>2. j - 1 \in 1 .. l /\ j - 1 < m /\ (j - 1) + 1 = j
      BY <1>2, <2>1, <3>1
    <3>3. d[j - 1] = c[j]
      BY <1>7, <3>2
    <3> QED
      BY <3>2, <3>3
  <2> QED
    BY <2>2, <2>3
<1>11. creds' = IF d = <<>> THEN NULL ELSE d[1]
  <2>1. d = <<>> <=> l = 0
    BY <1>8, EmptySeq
  <2>2. creds' = heap[c[1]].next /\ 1 \in 1 .. m
    BY <1>2, <1>3
  <2>3. CASE m = 1
    <3>1. CASE back
      <4>1. 1 \in 1 .. l /\ d[1] = c[1]
        BY <1>6, <1>7, <2>3, <3>1
      <4> QED
        BY <2>1, <2>2, <2>3, <3>1, <4>1 DEF back
    <3>2. CASE ~back
      <4>1. l = 0 /\ {d[j] : j \in 1 .. l} = {}
        BY <1>6, <2>3, <3>2
      <4> QED
        BY <1>10, <2>1, <2>2, <2>3, <3>2, <4>1
    <3> QED
      BY <3>1, <3>2
  <2>4. CASE m # 1
    <3>1. 1 \in 1 .. l /\ 1 < m /\ l # 0
      BY <1>2, <1>6, <2>4
    <3>2. d[1] = c[1 + 1]
      BY <1>7, <3>1
    <3>3. heap[c[1]].next = c[1 + 1]
      BY <1>5, <2>2, <2>4
    <3> QED
      BY <2>1, <2>2, <3>1, <3>2, <3>3
  <2> QED
    BY <2>3, <2>4
<1>12. ASSUME NEW i \in 1 .. l
       PROVE  IF i = l THEN heap'[d[i]].next \in {NULL} \cup {d[j] : j \in 1 .. l}
              ELSE heap'[d[i]].next = d[i + 1]
  <2>1. 1 \in 1 .. m /\ i \in Nat /\ 1 \in 1 .. l
    BY <1>2, <1>6
  <2>2. CASE i + 1 < m
    <3>1. i < m /\ i + 1 \in 1 .. l /\ i + 1 \in 1 .. m /\ i # l /\ i + 1 # m
      BY <1>2, <1>6, <2>1, <2>2
    <3>2. d[i] = c[i + 1] /\ d[i + 1] = c[(i + 1) + 1]
      BY <1>7, <2>2, <3>1
    <3>3. heap[c[i + 1]].next = c[(i + 1) + 1]
      BY <1>5, <3>1
    <3> QED
      BY <3>1, <3>2, <3>3
  <2>3. CASE i + 1 = m
    <3>1. i < m
      BY <2>1, <2>3
    <3>2. d[i] = c[m]
      BY <1>7, <2>3, <3>1
    <3>3. CASE back
      <4>1. i # l /\ m \in 1 .. l /\ ~(m < m)
        BY <1>2, <1>6, <2>1, <2>3, <3>3
      <4>2. d[m] = c[1]
        BY <1>7, <4>1
      <4> QED
        BY <2>3, <3>2, <3>3, <4>1, <4>2 DEF back
    <3>4. CASE ~back
      <4>1. i = l
        BY <1>2, <1>6, <2>1, <2>3, <3>4
      <4> QED
        BY <1>10, <3>2, <3>4, <4>1
    <3> QED
      BY <3>3, <3>4
  <2>4. CASE i = m
    <3>1. ~(i < m) /\ l = m
      BY <1>2, <1>6, <2>4
    <3>2. d[i] = c[1] /\ back
      BY <1>6, <1>7, <3>1
    <3>3. heap[c[1]].next = creds' /\ creds' = d[1]
      <4>1. d # <<>>
        BY <1>8, <2>1, EmptySeq
      <4> QED
        BY <1>3, <1>11, <4>1
    <3> QED
      BY <2>1, <2>4, <3>1, <3>2, <3>3
  <2>5. i + 1 < m \/ i + 1 = m \/ i = m
    BY <1>2, <1>6, <2>1
  <2> QED
    BY <2>2, <2>3, <2>4, <2>5
<1>13. IsWalk(d)'
  BY <1>8, <1>9, <1>11, <1>12 DEF IsWalk
<1>14. ASSUME NEW j \in 1 .. l, j < m
       PROVE  j + 1 \in 1 .. Len(c) /\ heap[c[j + 1]].entry = heap'[d[j]].entry
  BY <1>7, <1>14 DEF m
<1>15. CASE back
  <2>1. l = m /\ m \in 1 .. l /\ ~(m < m)
    BY <1>2, <1>6, <1>15
  <2>2. d[l] = c[1]
    BY <1>7, <2>1
  <2>3. heap'[d[Len(d)]].entry \in Credentials /\ Len(d) # 0
    BY <1>3, <1>8, <2>1, <2>2
  <2>4. Keeps(c, d, Len(d) - 1, 1)
    <3>1. \A j \in 1 .. Len(d) - 1 : j \in 1 .. l /\ j < m
      BY <1>2, <1>8, <2>1
    <3> QED
      BY <1>14, <3>1 DEF Keeps
  <2> QED
    BY <1>1, <1>8, <1>13, <2>3, <2>4, Caches
<1>16. CASE ~back
  <2>1. \A j \in 1 .. Len(d) : j \in 1 .. l /\ j < m
    BY <1>2, <1>6, <1>8, <1>16
  <2>2. Keeps(c, d, Len(d), 1)
    BY <1>14, <2>1 DEF Keeps
  <2> QED
    BY <1>1, <1>8, <1>13, <2>2, Loses
<1> QED
  BY <1>15, <1>16

LEMMA StoreConnection ==
    ASSUME IInv, NEW host \in Hosts, NEW port \in Ports, NEW error, NEW told,
           IPPConnection(host, port, error, told)
    PROVE  [Store!StoreNext]_(Found(Entries))
<1> DEFINE entry == [host |-> host, port |-> Port(port)]
<1>1. PICK n \in find(entry), connected \in BOOLEAN :
         IF n \in {CRASH, HANG}
         THEN Ends(n) /\ last' = NoCall /\ UNCHANGED <<ideal, used>>
         ELSE /\ last' = [call |-> "connection", connected |-> connected,
                          error |-> error, told |-> told[connected]]
              /\ used' = (used \/ n # NULL)
              /\ IF n = NULL THEN UNCHANGED heap ELSE free(n)
              /\ Remembers(ideal)
              /\ UNCHANGED <<creds, process>>
  BY DEF IPPConnection, lookup_auth_info
<1> HIDE DEF entry
<1>2. HeapOK
  BY DEF IInv
<1>3. CASE n \in {CRASH, HANG}
  <2>1. Ends(n)
    BY Zenon, <1>1, <1>3
  <2>2. UNCHANGED <<creds, heap>>
    BY <2>1 DEF Ends
  <2> QED
    BY <2>2, StoreKept
<1>4. CASE n = NULL
  <2>1. n \notin {CRASH, HANG}
    BY <1>4 DEF CRASH, HANG, NULL
  <2>2. UNCHANGED <<creds, heap>>
    BY Zenon, <1>1, <1>4, <2>1
  <2> QED
    BY <2>2, StoreKept
<1>5. CASE n \in Nodes /\ n \notin {CRASH, HANG, NULL} /\ heap[n].state # "unused"
  <2>1. free(n) /\ UNCHANGED creds
    BY Zenon, <1>1, <1>5
  <2> QED
    BY <1>2, <1>5, <2>1, StoreFreed
<1> QED
  BY <1>2, <1>3, <1>4, <1>5, FindResult

LEMMA StoreCached ==
    ASSUME IInv, NEW host \in Hosts, NEW port \in Ports, CacheAuthInfo(host, port)
    PROVE  [Store!StoreNext]_(Found(Entries))
<1> DEFINE entry == Entry(host, port)
<1>1. entry \in Credentials /\ insert(entry) /\ HeapOK
  BY EntryType DEF CacheAuthInfo, cache_auth_info, IInv
<1> HIDE DEF entry
<1>2. CASE Cyclic /\ Ends(HANG)
  <2>1. UNCHANGED <<creds, heap>>
    BY <1>2 DEF Ends
  <2> QED
    BY <2>1, StoreKept
<1>3. CASE ~Cyclic
  <2>1. PICK n \in Allocatable : Inserted(n, entry)
    BY <1>1, <1>3, Inserting
  <2>2. n \in Nodes
    BY <1>1, AllocatableNodes
  <2> QED
    BY <1>1, <1>3, <2>1, <2>2, StoreInserted
<1> QED
  BY <1>1, <1>2, <1>3 DEF insert

LEMMA StoreRemoved ==
    ASSUME IInv, NEW host \in Hosts, NEW port \in Ports, RemoveAuthInfo(host, port)
    PROVE  [Store!StoreNext]_(Found(Entries))
<1> DEFINE entry == Entry(host, port)
<1>1. PICK n \in find(entry) :
         CASE n \in {CRASH, HANG} -> Ends(n)
           [] n = NULL -> UNCHANGED cacheVars
           [] OTHER -> del(entry)
  BY EntryType DEF RemoveAuthInfo, remove_auth_info
<1>2. HeapOK /\ entry \in Credentials
  BY EntryType DEF IInv
<1> HIDE DEF entry
<1>3. CASE n \in {CRASH, HANG, NULL}
  <2>1. CRASH # NULL /\ HANG # NULL
    BY DEF CRASH, HANG, NULL
  <2>2. Ends(n) \/ UNCHANGED cacheVars
    BY <1>1, <1>3, <2>1
  <2>3. UNCHANGED <<creds, heap>>
    BY <2>2 DEF Ends, cacheVars
  <2> QED
    BY <2>3, StoreKept
<1>4. ASSUME n \notin {CRASH, HANG, NULL}, \E i \in 1 .. Len(List) : n = List[i]
      PROVE  [Store!StoreNext]_(Found(Entries))
  <2>1. del(entry)
    BY <1>1, <1>4
  <2>2. creds # NULL
    <3> SUFFICES ASSUME creds = NULL PROVE FALSE
      OBVIOUS
    <3>1. <<>> \in Seq(Nodes) /\ Len(<<>>) = 0
      BY EmptySeq
    <3>2. IsWalk(<<>>)
      BY <3>1 DEF IsWalk
    <3>3. List = <<>>
      BY <3>1, <3>2, WalkList
    <3> QED
      BY <1>4, <3>1, <3>3
  <2>3. CASE Is(creds, entry)
    <3>1. creds' = heap[creds].next /\ UNCHANGED heap /\ heap[creds].entry \in Credentials
      BY <1>2, <2>1, <2>3 DEF del, Is
    <3> QED
      BY <1>2, <2>2, <3>1, StoreHeadOut
  <2>4. CASE ~Is(creds, entry)
    <3>1. \/ UNCHANGED <<creds, heap>>
          \/ /\ \E p \in {m \in Nodes : heap[m].state # "unused"} :
                    heap' = [heap EXCEPT ![p].next = heap[creds].next]
             /\ UNCHANGED creds
      BY <2>1, <2>4 DEF del, Ends, cacheVars
    <3>2. CASE UNCHANGED <<creds, heap>>
      BY <3>2, StoreKept
    <3>3. ASSUME NEW p \in {m \in Nodes : heap[m].state # "unused"},
                 heap' = [heap EXCEPT ![p].next = heap[creds].next], UNCHANGED creds
          PROVE  Store!StoreNext
      BY <1>2, <2>2, <3>3, StoreRelinked
    <3> QED
      BY Zenon, <3>1, <3>2, <3>3
  <2> QED
    BY <2>3, <2>4
<1> QED
  BY <1>2, <1>3, <1>4, FindResult

LEMMA StoreStep == IInv /\ [Next]_vars => [Store!StoreNext]_(Found(Entries))
<1> SUFFICES ASSUME IInv, [Next]_vars PROVE [Store!StoreNext]_(Found(Entries))
  OBVIOUS
<1>1. ASSUME NEW host \in Hosts, NEW port \in Ports,
             \/ CacheAuthInfo(host, port) \/ LookupAuthInfo(host, port)
             \/ RemoveAuthInfo(host, port) \/ Async_Connection(host, port)
             \/ \E reply \in BOOLEAN :
                   \/ IPPAuthConnection(host, port, reply)
                   \/ \E error \in BOOLEAN : PK1Connection(host, port, reply, error)
      PROVE  [Store!StoreNext]_(Found(Entries))
  <2>1. CASE CacheAuthInfo(host, port)
    BY <2>1, StoreCached
  <2>2. CASE LookupAuthInfo(host, port)
    <3>1. UNCHANGED <<creds, heap>>
      BY <2>2 DEF LookupAuthInfo, Ends, cacheVars
    <3> QED
      BY <3>1, StoreKept
  <2>3. CASE RemoveAuthInfo(host, port)
    BY <2>3, StoreRemoved
  <2>4. CASE Async_Connection(host, port)
    BY <2>4, StoreConnection DEF Async_Connection
  <2>5. CASE \E reply \in BOOLEAN : IPPAuthConnection(host, port, reply)
    BY <2>5, StoreConnection DEF IPPAuthConnection
  <2>6. CASE \E reply, error \in BOOLEAN : PK1Connection(host, port, reply, error)
    BY <2>6, StoreConnection DEF PK1Connection
  <2> QED
    BY Zenon, <1>1, <2>1, <2>2, <2>3, <2>4, <2>5, <2>6
<1>2. ASSUME NEW answer, getURI(answer) \/ getDevices(answer)
      PROVE  [Store!StoreNext]_(Found(Entries))
  <2>1. UNCHANGED <<creds, heap>>
    BY <1>2 DEF getURI, getDevices, cacheVars
  <2> QED
    BY <2>1, StoreKept
<1>3. CASE UNCHANGED vars
  <2>1. UNCHANGED <<creds, heap>>
    BY <1>3 DEF vars, cacheVars
  <2> QED
    BY <2>1, StoreKept
<1> QED
  BY Zenon, <1>1, <1>2, <1>3 DEF Next

\* The cache, with whatever connections and removals do to its list, implements a
\* store of credentials: each step loses some of what can be found, and at most puts
\* one behind the rest (authinfocache.c:74, asyncipp.c:364).
THEOREM StoreImplemented == Spec => ImplementsCredentialStore
<1>1. Init => Store!StoreInit
  <2> SUFFICES ASSUME Init PROVE Store!StoreInit
    OBVIOUS
  <2>1. <<>> \in Seq(Nodes) /\ Len(<<>>) = 0
    BY EmptySeq
  <2>2. IsWalk(<<>>)
    BY <2>1 DEF Init, CacheInit, IsWalk
  <2>3. Len(Entries) = 0
    BY <2>1, <2>2, WalkEntries
  <2>4. PICK n \in Nat : \E f \in Store!Increasing(n, 0) : Found(Entries) = [i \in 1 .. n |-> Entries[f[i]]]
    BY <2>3, FoundOf
  <2>5. PICK f \in Store!Increasing(n, 0) : Found(Entries) = [i \in 1 .. n |-> Entries[f[i]]]
    BY <2>4
  <2>6. n = 0
    <3>1. \A i \in 1 .. n : f[i] \in 1 .. 0
      BY DEF Store!Increasing
    <3> QED
      BY <3>1
  <2>7. Found(Entries) = <<>>
    BY <2>5, <2>6
  <2> QED
    BY <2>7 DEF Store!StoreInit
<1> QED
  BY <1>1, StoreStep, Invariant, PTL DEF Spec, ImplementsCredentialStore, Store!StoreSpec

=============================================================================
