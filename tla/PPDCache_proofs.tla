--------------------------- MODULE PPDCache_proofs ---------------------------
(***************************************************************************)
(* Proofs about the PPD cache, for any queues, number of requests, changes *)
(* at the server and failing connections.                                  *)
(***************************************************************************)
EXTENDS PPDCache, CommonLemmas, SequenceTheorems

USE MaxRequestsAssumption, MaxVersionAssumption, MaxFailuresAssumption, NamesPersistAssumption

-----------------------------------------------------------------------------
(* The C stack. *)

Frames ==
    [fn : {"ChangePPD", "g_application_run"}, request : Requests]
      \cup [fn : {"fetch_ppd"}, name : Addrs, callback : Requests, check_uptodate : BOOLEAN]
      \cup [fn : {"self_connect"}]
      \cup [fn : {"connected"}, list : Nat, next : Nat \ {0}]

LEMMA FrameTypes ==
    /\ \A r \in Requests : /\ Handler(r) \in Frames /\ Handler(r).fn = "ChangePPD"
                           /\ Window(r) \in Frames /\ Window(r).fn = "g_application_run"
                           /\ Handler(r).request = r
    /\ SelfConnect \in Frames /\ SelfConnect.fn = "self_connect"
    /\ \A l \in Nat, i \in Nat \ {0} :
          LET f == Connected(l, i)
          IN  f \in Frames /\ f.fn = "connected" /\ f.list = l /\ f.next = i
<1>1. \A r \in Requests : /\ Handler(r) \in Frames /\ Handler(r).fn = "ChangePPD"
                          /\ Window(r) \in Frames /\ Window(r).fn = "g_application_run"
                          /\ Handler(r).request = r
  BY DEF Frames, Handler, Window
<1>2. SelfConnect \in Frames /\ SelfConnect.fn = "self_connect"
  BY DEF Frames, SelfConnect
<1>3. \A l \in Nat, i \in Nat \ {0} :
          LET f == Connected(l, i)
          IN  f \in Frames /\ f.fn = "connected" /\ f.list = l /\ f.next = i
  BY DEF Frames, Connected
<1> QED
  BY Zenon, <1>1, <1>2, <1>3

LEMMA FetchFrame ==
    ASSUME NEW a \in Addrs, NEW r \in Requests, NEW check \in BOOLEAN
    PROVE  /\ Fetch(a, r, check) \in Frames
           /\ Fetch(a, r, check).fn = "fetch_ppd"
           /\ Fetch(a, r, check).name = a
           /\ Fetch(a, r, check).callback = r
           /\ Fetch(a, r, check).check_uptodate = check
BY DEF Frames, Fetch

LEMMA FrameFields ==
    ASSUME NEW f \in Frames
    PROVE  /\ f.fn \in {"ChangePPD", "g_application_run", "fetch_ppd", "self_connect", "connected"}
           /\ f.fn = "ChangePPD" => f.request \in Requests
           /\ f.fn = "fetch_ppd" =>
                 f.name \in Addrs /\ f.callback \in Requests /\ f.check_uptodate \in BOOLEAN
           /\ f.fn = "connected" => f.list \in Nat /\ f.next \in Nat \ {0}
BY DEF Frames

\* The stack after a return, a return to another frame, and calls.
LEMMA StackTop ==
    ASSUME stack \in Seq(Frames)
    PROVE  /\ Len(stack) \in Nat /\ (stack = <<>> <=> Len(stack) = 0)
           /\ \A i \in 1 .. Len(stack) : stack[i] \in Frames
           /\ DOMAIN stack = 1 .. Len(stack)
           /\ \A fn : Running(fn) => Len(stack) > 0 /\ Last(stack) = stack[Len(stack)]
           /\ \A fn : Running(fn) <=> Len(stack) > 0 /\ stack[Len(stack)].fn = fn
BY LenProperties, EmptySeq, ElementOfSeq DEF Running, Last

LEMMA StackPopped ==
    ASSUME stack \in Seq(Frames), stack # <<>>, Return
    PROVE  /\ stack' \in Seq(Frames) /\ Len(stack') = Len(stack) - 1
           /\ \A i \in 1 .. Len(stack) - 1 : stack'[i] = stack[i]
BY SubSeqProperties, StackTop DEF Return, Front

LEMMA FrontStack ==
    ASSUME stack \in Seq(Frames), stack # <<>>
    PROVE  /\ Front(stack) \in Seq(Frames) /\ Len(Front(stack)) = Len(stack) - 1
           /\ \A i \in 1 .. Len(stack) - 1 : Front(stack)[i] = stack[i]
BY SubSeqProperties, StackTop DEF Front

LEMMA StackReplaced ==
    ASSUME stack \in Seq(Frames), stack # <<>>, NEW f \in Frames, ReturnTo(f)
    PROVE  /\ stack' \in Seq(Frames) /\ Len(stack') = Len(stack)
           /\ \A i \in 1 .. Len(stack) - 1 : stack'[i] = stack[i]
           /\ stack'[Len(stack)] = f
<1> DEFINE front == Front(stack)
<1>1. /\ front \in Seq(Frames) /\ Len(front) = Len(stack) - 1 /\ Len(stack) \in Nat
      /\ \A i \in 1 .. Len(stack) - 1 : front[i] = stack[i]
  BY FrontStack, StackTop
<1>2. stack' = Append(front, f)
  BY DEF ReturnTo
<1> HIDE DEF front
<1> QED
  BY <1>1, <1>2, AppendProperties

LEMMA TwoPushed ==
    ASSUME NEW s \in Seq(Frames), NEW f \in Frames, NEW g \in Frames
    PROVE  /\ s \o <<f, g>> \in Seq(Frames) /\ Len(s \o <<f, g>>) = Len(s) + 2
           /\ \A i \in 1 .. Len(s) : (s \o <<f, g>>)[i] = s[i]
           /\ (s \o <<f, g>>)[Len(s) + 1] = f
           /\ (s \o <<f, g>>)[Len(s) + 2] = g
<1>1. <<f, g>> \in Seq(Frames) /\ Len(<<f, g>>) = 2
  OBVIOUS
<1> QED
  BY <1>1, ConcatProperties, LenProperties

-----------------------------------------------------------------------------
(* The queue. *)

Entries == [qname : Addrs, method : Requests]

LEMMA ListInserted ==
    ASSUME lists \in Seq(Seq(Entries)), queued \in 0 .. Len(lists),
           NEW a \in Addrs, NEW r \in Requests, insert_list(a, r)
    PROVE  LET entry == [qname |-> a, method |-> r]
               last == Len(lists'[queued'])
           IN  /\ lists' \in Seq(Seq(Entries)) /\ queued' \in 1 .. Len(lists')
               /\ Len(lists') \in Nat /\ Len(lists) <= Len(lists')
               /\ queued # 0 => queued' = queued
               /\ last \in 1 .. last /\ lists'[queued'][last] = entry
               /\ \A l \in 1 .. Len(lists) : \A j \in 1 .. Len(lists[l]) :
                     j \in 1 .. Len(lists'[l]) /\ lists'[l][j] = lists[l][j]
               /\ \A l \in 1 .. Len(lists') : \A j \in 1 .. Len(lists'[l]) :
                     \/ lists'[l][j] = entry
                     \/ /\ l \in 1 .. Len(lists) /\ j \in 1 .. Len(lists[l])
                        /\ lists'[l][j] = lists[l][j]
               /\ lists = <<>> => Len(lists') = 1 /\ Len(lists'[1]) = 1
<1> DEFINE entry == [qname |-> a, method |-> r]
<1>1. entry \in Entries /\ Len(lists) \in Nat /\ (lists = <<>> => Len(lists) = 0)
  BY LenProperties, EmptySeq DEF Entries
<1>2. CASE queued = 0
  <2> DEFINE new == <<entry>>
  <2>1. lists' = Append(lists, new) /\ queued' = Len(lists) + 1
    BY <1>2 DEF insert_list
  <2>2. new \in Seq(Entries) /\ Len(new) = 1 /\ new[1] = entry
    BY <1>1
  <2> HIDE DEF new, entry
  <2>3. /\ lists' \in Seq(Seq(Entries)) /\ Len(lists') = Len(lists) + 1
        /\ \A l \in 1 .. Len(lists) : lists'[l] = lists[l]
        /\ lists'[Len(lists) + 1] = new
    BY <2>1, <2>2, AppendProperties
  <2>4. \A l \in 1 .. Len(lists') : l \in 1 .. Len(lists) \/ l = Len(lists) + 1
    BY <1>1, <2>3
  <2>5. lists'[queued'] = new /\ 1 \in 1 .. Len(new) /\ queued' \in 1 .. Len(lists')
    BY <1>1, <2>1, <2>2, <2>3
  <2>6. \A l \in 1 .. Len(lists) : \A j \in 1 .. Len(lists[l]) :
              j \in 1 .. Len(lists'[l]) /\ lists'[l][j] = lists[l][j]
    BY <2>3
  <2>7. \A j \in 1 .. Len(new) : new[j] = entry
    BY <2>2
  <2>8. \A l \in 1 .. Len(lists') : \A j \in 1 .. Len(lists'[l]) :
            \/ lists'[l][j] = entry
            \/ /\ l \in 1 .. Len(lists) /\ j \in 1 .. Len(lists[l])
               /\ lists'[l][j] = lists[l][j]
    BY <2>3, <2>4, <2>7
  <2>9. Len(lists') \in Nat /\ Len(lists) <= Len(lists')
    BY <1>1, <2>3
  <2>10. lists = <<>> => Len(lists') = 1 /\ Len(lists'[1]) = 1
    BY <1>1, <2>2, <2>3
  <2> QED
    BY <1>2, <2>2, <2>3, <2>5, <2>6, <2>8, <2>9, <2>10 DEF entry
<1>3. CASE queued # 0
  <2> DEFINE old == lists[queued]
             new == Append(old, entry)
  <2>1. lists' = [lists EXCEPT ![queued] = new] /\ queued' = queued /\ queued \in 1 .. Len(lists)
    BY <1>1, <1>3 DEF insert_list
  <2>2. old \in Seq(Entries)
    BY <2>1, ElementOfSeq
  <2>3. Len(old) \in Nat
    BY <2>2, LenProperties
  <2> HIDE DEF old, entry
  <2>4. /\ new \in Seq(Entries) /\ Len(new) = Len(old) + 1
        /\ \A j \in 1 .. Len(old) : new[j] = old[j]
        /\ new[Len(old) + 1] = entry
    BY <1>1, <2>2, AppendProperties
  <2> HIDE DEF new
  <2>5. /\ lists' \in Seq(Seq(Entries)) /\ Len(lists') = Len(lists)
        /\ \A l \in 1 .. Len(lists) : lists'[l] = IF l = queued THEN new ELSE lists[l]
    BY <2>1, <2>4, ExceptSeq
  <2>6. \A j \in 1 .. Len(new) : j \in 1 .. Len(old) \/ j = Len(old) + 1
    BY <2>3, <2>4
  <2>7. lists'[queued'] = new /\ Len(new) \in 1 .. Len(new) /\ lists # <<>>
    BY <1>1, <2>1, <2>3, <2>4, <2>5
  <2>8. \A l \in 1 .. Len(lists) : \A j \in 1 .. Len(lists[l]) :
              j \in 1 .. Len(lists'[l]) /\ lists'[l][j] = lists[l][j]
    BY <2>3, <2>4, <2>5 DEF old
  <2>9. \A l \in 1 .. Len(lists') : \A j \in 1 .. Len(lists'[l]) :
            \/ lists'[l][j] = entry
            \/ /\ l \in 1 .. Len(lists) /\ j \in 1 .. Len(lists[l])
               /\ lists'[l][j] = lists[l][j]
    BY <2>4, <2>5, <2>6 DEF old
  <2> QED
    BY <1>1, <2>1, <2>3, <2>4, <2>5, <2>7, <2>8, <2>9 DEF entry
<1> QED
  BY <1>2, <1>3


-----------------------------------------------------------------------------
(* The kinds of steps. *)

\* What fetch_ppd does at the top of the stack when it does not queue its request.
FetchEnds == Return /\ UNCHANGED <<delivered, shown>>
FetchAgain(f) ==
    ReturnTo(Fetch(f.name, f.callback, FALSE)) /\ UNCHANGED <<delivered, shown>>
CallsBack(f) == \E file : Callback(f.callback, file)

LEMMA FetchKinds ==
    ASSUME CheckUpToDate \/ Download \/ Deliver
    PROVE  /\ Running("fetch_ppd")
           /\ UNCHANGED <<server, mem, live, lists, queued, connecting, cups, ref_data,
                          failures, request>>
           /\ FetchEnds \/ FetchAgain(Last(stack)) \/ CallsBack(Last(stack))
<1>1. ASSUME NEW f, NEW answer, NEW times, NEW time, got_ppd3(f, answer, times, time)
      PROVE  FetchEnds \/ FetchAgain(f) \/ CallsBack(f)
  <2>1. CASE answer = "NOT_MODIFIED"
    BY <1>1, <2>1 DEF got_ppd3, FetchEnds
  <2>2. CASE answer = "OK"
    BY <1>1, <2>2 DEF got_ppd3, FetchAgain
  <2>3. CASE answer # "NOT_MODIFIED" /\ answer # "OK"
    BY <1>1, <2>3 DEF got_ppd3, CallsBack
  <2> QED
    BY <2>1, <2>2, <2>3
<1>2. CASE CheckUpToDate
  BY Zenon, <1>1, <1>2 DEF CheckUpToDate
<1>3. CASE Download
  BY Zenon, <1>1, <1>3 DEF Download
<1>4. CASE Deliver
  BY Zenon, <1>4 DEF Deliver, CallsBack, cacheVars
<1> QED
  BY <1>2, <1>3, <1>4

\* The frames after a step of fetch_ppd: its own is gone, or another is in its place.
LEMMA FetchStack ==
    ASSUME stack \in Seq(Frames), CheckUpToDate \/ Download \/ Deliver
    PROVE  /\ stack' \in Seq(Frames) /\ Len(stack) > 0
           /\ Len(stack') \in {Len(stack) - 1, Len(stack)}
           /\ stack[Len(stack)].fn = "fetch_ppd" /\ Last(stack) = stack[Len(stack)]
           /\ \A i \in 1 .. Len(stack) - 1 : stack'[i] = stack[i]
           /\ Len(stack') = Len(stack) =>
                 LET f == stack[Len(stack)]
                     g == stack'[Len(stack)]
                 IN  \/ g.fn = "g_application_run"
                     \/ /\ g.fn = "fetch_ppd" /\ g.name = f.name /\ g.callback = f.callback
                        /\ g.check_uptodate = FALSE
                        /\ UNCHANGED <<delivered, shown>>
<1> DEFINE f == Last(stack)
<1>1. /\ Running("fetch_ppd")
      /\ FetchEnds \/ FetchAgain(f) \/ CallsBack(f)
  BY FetchKinds
<1>2. /\ Len(stack) \in Nat /\ Len(stack) > 0 /\ stack # <<>>
      /\ f = stack[Len(stack)] /\ f.fn = "fetch_ppd" /\ f \in Frames
      /\ Last(stack) = stack[Len(stack)]
  <2>1. Running("fetch_ppd")
    BY <1>1
  <2> QED
    BY <2>1, StackTop
<1>3. f.name \in Addrs /\ f.callback \in Requests
  BY <1>2, FrameFields
<1> HIDE DEF f
<1>4. CASE FetchEnds
  <2>1. Return
    BY <1>4 DEF FetchEnds
  <2> QED
    BY <1>2, <2>1, StackPopped
<1>5. CASE FetchAgain(f)
  <2> DEFINE g == Fetch(f.name, f.callback, FALSE)
  <2>1. ReturnTo(g) /\ UNCHANGED <<delivered, shown>>
    BY <1>5 DEF FetchAgain
  <2>2. /\ g \in Frames /\ g.fn = "fetch_ppd" /\ g.name = f.name /\ g.callback = f.callback
        /\ g.check_uptodate = FALSE
    BY Zenon, <1>3, FetchFrame
  <2> HIDE DEF g
  <2>3. /\ stack' \in Seq(Frames) /\ Len(stack') = Len(stack)
        /\ \A i \in 1 .. Len(stack) - 1 : stack'[i] = stack[i]
        /\ stack'[Len(stack)] = g
    BY <1>2, <2>1, <2>2, StackReplaced
  <2> QED
    BY <1>2, <2>1, <2>2, <2>3
<1>6. CASE CallsBack(f)
  <2>1. Return \/ ReturnTo(Window(f.callback))
    BY <1>6 DEF CallsBack, Callback
  <2>2. Window(f.callback) \in Frames /\ Window(f.callback).fn = "g_application_run"
    BY <1>3, FrameTypes
  <2>3. CASE Return
    BY <1>2, <2>3, StackPopped
  <2>4. CASE ReturnTo(Window(f.callback))
    <3>1. /\ stack' \in Seq(Frames) /\ Len(stack') = Len(stack)
          /\ \A i \in 1 .. Len(stack) - 1 : stack'[i] = stack[i]
          /\ stack'[Len(stack)] = Window(f.callback)
      BY <1>2, <2>2, <2>4, StackReplaced
    <3> QED
      BY <1>2, <2>2, <3>1
  <2> QED
    BY <2>1, <2>3, <2>4
<1> QED
  BY <1>1, <1>4, <1>5, <1>6

\* The frames after the other steps.
LEMMA CallStack ==
    ASSUME stack \in Seq(Frames), NEW r \in Requests, NEW q \in Queues, NEW a \in Addrs,
           ChangePPD(r, q, a)
    PROVE  LET n == Len(stack)
           IN  /\ n \in Nat /\ stack' \in Seq(Frames) /\ Len(stack') = n + 2
               /\ n > 0 => stack[n].fn = "g_application_run"
               /\ \A i \in 1 .. n : stack'[i] = stack[i]
               /\ stack'[n + 1].fn = "ChangePPD" /\ stack'[n + 1].request = r
               /\ stack'[n + 2].fn = "fetch_ppd" /\ stack'[n + 2].name = a
               /\ stack'[n + 2].callback = r /\ stack'[n + 2].check_uptodate = TRUE
<1>1. /\ stack' = stack \o <<Handler(r), Fetch(a, r, TRUE)>>
      /\ stack = <<>> \/ Running("g_application_run")
  BY DEF ChangePPD
<1> DEFINE f == Handler(r)
           g == Fetch(a, r, TRUE)
<1>2. /\ f \in Frames /\ f.fn = "ChangePPD" /\ f.request = r
      /\ g \in Frames /\ g.fn = "fetch_ppd" /\ g.name = a /\ g.callback = r
      /\ g.check_uptodate = TRUE
  <2>1. f \in Frames /\ f.fn = "ChangePPD" /\ f.request = r
    BY FrameTypes
  <2>2. /\ g \in Frames /\ g.fn = "fetch_ppd" /\ g.name = a /\ g.callback = r
        /\ g.check_uptodate = TRUE
    BY Zenon, FetchFrame
  <2> QED
    BY <2>1, <2>2
<1>3. Len(stack) \in Nat /\ (Len(stack) > 0 => stack[Len(stack)].fn = "g_application_run")
  BY <1>1, StackTop
<1>4. stack' = stack \o <<f, g>>
  BY <1>1
<1> HIDE DEF f, g
<1>5. /\ stack' \in Seq(Frames) /\ Len(stack') = Len(stack) + 2
      /\ \A i \in 1 .. Len(stack) : stack'[i] = stack[i]
      /\ stack'[Len(stack) + 1] = f /\ stack'[Len(stack) + 2] = g
  BY <1>2, <1>4, TwoPushed
<1> QED
  BY <1>2, <1>3, <1>5

LEMMA PoppedStack ==
    ASSUME stack \in Seq(Frames), Complete \/ CloseWindow
    PROVE  LET n == Len(stack)
           IN  /\ n \in Nat /\ n > 0 /\ stack' \in Seq(Frames) /\ Len(stack') = n - 1
               /\ stack[n].fn \in {"ChangePPD", "g_application_run"}
               /\ Complete => stack[n].fn = "ChangePPD" /\ Last(stack) = stack[n]
               /\ \A i \in 1 .. n - 1 : stack'[i] = stack[i]
<1>1. /\ Return
      /\ (Complete /\ Running("ChangePPD")) \/ Running("g_application_run")
  BY DEF Complete, CloseWindow
<1>2. stack # <<>> /\ Len(stack) \in Nat /\ Len(stack) > 0
  BY <1>1, StackTop
<1>3. (Complete => Running("ChangePPD")) /\ (CloseWindow => Running("g_application_run"))
  BY Zenon DEF Complete, CloseWindow
<1> QED
  BY <1>1, <1>2, <1>3, StackTop, StackPopped


LEMMA QueueStack ==
    ASSUME stack \in Seq(Frames), lists \in Seq(Seq(Entries)), queued \in 0 .. Len(lists),
           QueueRequest
    PROVE  LET n == Len(stack)
               f == stack[n]
           IN  /\ n \in Nat /\ n > 0 /\ Last(stack) = f
               /\ f.fn = "fetch_ppd" /\ f.name \in Addrs /\ f.callback \in Requests
               /\ insert_list(f.name, f.callback)
               /\ stack' \in Seq(Frames)
               /\ \A i \in 1 .. n - 1 : stack'[i] = stack[i]
               /\ IF connecting THEN Len(stack') = n - 1 /\ connecting' = connecting
                  ELSE /\ Len(stack') = n /\ stack'[n].fn = "self_connect" /\ connecting' = TRUE
<1>1. /\ Running("fetch_ppd") /\ insert_list(Last(stack).name, Last(stack).callback)
      /\ IF connecting THEN Return /\ UNCHANGED connecting
         ELSE ReturnTo(SelfConnect) /\ connecting' = TRUE
  BY DEF QueueRequest
<1>2. /\ Len(stack) \in Nat /\ Len(stack) > 0 /\ Last(stack) = stack[Len(stack)]
      /\ stack # <<>> /\ stack[Len(stack)].fn = "fetch_ppd" /\ stack[Len(stack)] \in Frames
  <2>1. Running("fetch_ppd")
    BY <1>1
  <2> QED
    BY <2>1, StackTop
<1>3. /\ stack[Len(stack)].name \in Addrs /\ stack[Len(stack)].callback \in Requests
      /\ insert_list(stack[Len(stack)].name, stack[Len(stack)].callback)
  BY <1>1, <1>2, FrameFields
<1>4. CASE connecting
  <2>1. Return /\ connecting' = connecting
    BY <1>1, <1>4
  <2> QED
    BY <1>2, <1>3, <1>4, <2>1, StackPopped
<1>5. CASE ~connecting
  <2>1. ReturnTo(SelfConnect) /\ connecting' = TRUE
    BY Zenon, <1>1, <1>5
  <2>2. SelfConnect \in Frames /\ SelfConnect.fn = "self_connect"
    BY Zenon, FrameTypes
  <2>3. /\ stack' \in Seq(Frames) /\ Len(stack') = Len(stack)
        /\ \A i \in 1 .. Len(stack) - 1 : stack'[i] = stack[i]
        /\ stack'[Len(stack)] = SelfConnect
    BY <1>2, <2>1, <2>2, StackReplaced
  <2>4. stack'[Len(stack)].fn = "self_connect"
    BY <2>2, <2>3
  <2> QED
    BY Zenon, <1>2, <1>3, <1>5, <2>1, <2>3, <2>4
<1> QED
  BY <1>4, <1>5

LEMMA ConnectStack ==
    ASSUME stack \in Seq(Frames), queued \in Nat, NEW ok \in BOOLEAN, self_connect(ok)
    PROVE  LET n == Len(stack)
           IN  /\ n \in Nat /\ n > 0 /\ stack[n].fn = "self_connect"
               /\ stack' \in Seq(Frames) /\ Len(stack') = n
               /\ \A i \in 1 .. n - 1 : stack'[i] = stack[i]
               /\ stack'[n].fn = "connected" /\ stack'[n].list = queued /\ stack'[n].next = 1
<1> DEFINE f == Connected(queued, 1)
<1>1. Running("self_connect") /\ ReturnTo(f)
  BY DEF self_connect
<1>2. f \in Frames /\ f.fn = "connected" /\ f.list = queued /\ f.next = 1
  BY FrameTypes
<1> HIDE DEF f
<1>3. Len(stack) \in Nat /\ Len(stack) > 0 /\ stack # <<>> /\ stack[Len(stack)].fn = "self_connect"
  BY <1>1, StackTop
<1>4. /\ stack' \in Seq(Frames) /\ Len(stack') = Len(stack)
      /\ \A i \in 1 .. Len(stack) - 1 : stack'[i] = stack[i]
      /\ stack'[Len(stack)] = f
  BY <1>1, <1>2, <1>3, StackReplaced
<1> QED
  BY <1>2, <1>3, <1>4

\* Only the innermost frame is one of fetch_ppd or of self_connect; `connecting` says
\* that it is the latter, which has requests to serve.
Control ==
    /\ stack \in Seq(Frames)
    /\ lists \in Seq(Seq(Entries))
    /\ queued \in 0 .. Len(lists)
    /\ \A i \in 1 .. Len(stack) :
          /\ stack[i].fn = "connected" => stack[i].list <= Len(lists)
          /\ stack[i].fn \in {"fetch_ppd", "self_connect"} => i = Len(stack)
    /\ connecting => Running("self_connect")
    /\ Running("self_connect") => queued # 0

LEMMA WalkStack ==
    ASSUME Control, connected
    PROVE  LET n == Len(stack)
               f == stack[n]
               e == lists[f.list][f.next]
           IN  /\ n \in Nat /\ n > 0 /\ Last(stack) = f
               /\ f.fn = "connected" /\ f.list \in 0 .. Len(lists) /\ f.next \in Nat \ {0}
               /\ stack' \in Seq(Frames)
               /\ \A i \in 1 .. n - 1 : stack'[i] = stack[i]
               /\ IF More(f)
                  THEN /\ f.list \in 1 .. Len(lists) /\ f.next \in 1 .. Len(lists[f.list])
                       /\ e.qname \in Addrs /\ e.method \in Requests
                       /\ Len(stack') = n + 1
                       /\ stack'[n].fn = "connected" /\ stack'[n].list = f.list
                       /\ stack'[n].next = f.next + 1
                       /\ stack'[n + 1].fn = "fetch_ppd" /\ stack'[n + 1].name = e.qname
                       /\ stack'[n + 1].callback = e.method
                       /\ stack'[n + 1].check_uptodate = TRUE
                       /\ queued' = queued
                  ELSE Len(stack') = n - 1 /\ queued' = 0
<1> DEFINE n == Len(stack)
           f == stack[n]
           e == lists[f.list][f.next]
<1>1. Running("connected") /\ stack \in Seq(Frames) /\ Len(lists) \in Nat
  BY LenProperties DEF connected, Control
<1>2. /\ n \in Nat /\ n > 0 /\ Last(stack) = f /\ stack # <<>> /\ f.fn = "connected"
      /\ f \in Frames
  BY <1>1, StackTop
<1>3. f.list \in 0 .. Len(lists) /\ f.next \in Nat \ {0}
  BY <1>1, <1>2, FrameFields DEF Control
<1>4. IF More(f)
      THEN /\ stack' = Front(stack) \o <<Connected(f.list, f.next + 1),
                                        Fetch(e.qname, e.method, TRUE)>>
           /\ queued' = queued
      ELSE Return /\ queued' = 0
  BY Zenon, <1>2 DEF connected
<1>5. CASE ~More(f)
  <2>1. Return /\ queued' = 0
    BY <1>4, <1>5
  <2> QED
    BY <1>1, <1>2, <1>3, <1>5, <2>1, StackPopped
<1>6. CASE More(f)
  <2> DEFINE g == Connected(f.list, f.next + 1)
             h == Fetch(e.qname, e.method, TRUE)
             front == Front(stack)
  <2>1. f.list \in 1 .. Len(lists) /\ lists[f.list] \in Seq(Entries)
    BY <1>1, <1>3, <1>6, ElementOfSeq DEF More, Control
  <2>2. f.next \in 1 .. Len(lists[f.list])
    BY <1>3, <1>6, <2>1, LenProperties DEF More
  <2>3. e \in Entries
    BY <2>1, <2>2, ElementOfSeq
  <2>4. e.qname \in Addrs /\ e.method \in Requests
    BY <2>3 DEF Entries
  <2>5. g \in Frames /\ g.fn = "connected" /\ g.list = f.list /\ g.next = f.next + 1
    <3>1. f.list \in Nat /\ f.next + 1 \in Nat \ {0}
      BY <1>1, <1>3
    <3> QED
      BY <3>1, FrameTypes
  <2>6. /\ h \in Frames /\ h.fn = "fetch_ppd" /\ h.name = e.qname /\ h.callback = e.method
        /\ h.check_uptodate = TRUE
    <3> HIDE DEF e
    <3> QED
      BY Zenon, <2>4, FetchFrame
  <2>7. stack' = front \o <<g, h>> /\ queued' = queued
    BY <1>4, <1>6
  <2>8. /\ front \in Seq(Frames) /\ Len(front) = n - 1
        /\ \A i \in 1 .. n - 1 : front[i] = stack[i]
    BY <1>1, <1>2, FrontStack
  <2> HIDE DEF front, g, h
  <2> HIDE DEF n
  <2>9. /\ stack' \in Seq(Frames) /\ Len(stack') = n + 1
        /\ \A i \in 1 .. n - 1 : stack'[i] = stack[i]
        /\ stack'[n] = g /\ stack'[n + 1] = h
    <3>1. n = Len(front) + 1 /\ n + 1 = Len(front) + 2
      BY <1>2, <2>8
    <3>2. /\ stack' \in Seq(Frames) /\ Len(stack') = Len(front) + 2
          /\ \A i \in 1 .. Len(front) : stack'[i] = front[i]
          /\ stack'[Len(front) + 1] = g /\ stack'[Len(front) + 2] = h
      BY <2>5, <2>6, <2>7, <2>8, TwoPushed
    <3> QED
      BY <2>8, <3>1, <3>2
  <2> QED
    <3>1. /\ stack'[n].fn = "connected" /\ stack'[n].list = f.list /\ stack'[n].next = f.next + 1
          /\ stack'[n + 1].fn = "fetch_ppd" /\ stack'[n + 1].name = e.qname
          /\ stack'[n + 1].callback = e.method /\ stack'[n + 1].check_uptodate = TRUE
      BY Zenon, <2>5, <2>6, <2>9
    <3> QED
      BY Zenon, <1>2, <1>3, <1>6, <2>1, <2>2, <2>4, <2>7, <2>9, <3>1 DEF n
<1> QED
  BY <1>5, <1>6

-----------------------------------------------------------------------------
(* No request is left in the queue. *)

LEMMA ControlInit == Init => Control
BY EmptySeq DEF Init, Control, Running

\* Control after a step that keeps the lowest frames.
LEMMA ControlFrom ==
    ASSUME Control, NEW m \in Nat, m <= Len(stack), m <= Len(stack'),
           stack' \in Seq(Frames), lists' \in Seq(Seq(Entries)),
           queued' \in 0 .. Len(lists'), Len(lists) <= Len(lists'),
           \A i \in 1 .. m : stack'[i] = stack[i],
           m < Len(stack) \/ m = Len(stack') \/ ~(stack[m].fn \in {"fetch_ppd", "self_connect"}),
           \A i \in m + 1 .. Len(stack') :
              /\ stack'[i].fn = "connected" => stack'[i].list <= Len(lists')
              /\ stack'[i].fn \in {"fetch_ppd", "self_connect"} => i = Len(stack'),
           connecting' => (Running("self_connect"))',
           (Running("self_connect"))' => queued' # 0
    PROVE  Control'
<1>1. Len(stack) \in Nat /\ Len(stack') \in Nat /\ Len(lists) \in Nat /\ Len(lists') \in Nat
  <2>1. stack \in Seq(Frames) /\ lists \in Seq(Seq(Entries))
    BY DEF Control
  <2> QED
    BY <2>1, LenProperties
<1>2. \A i \in 1 .. Len(stack) : /\ stack[i].fn = "connected" => stack[i].list <= Len(lists)
                                 /\ stack[i] \in Frames
                                 /\ stack[i].fn \in {"fetch_ppd", "self_connect"} => i = Len(stack)
  BY StackTop DEF Control
<1>3. ASSUME NEW i \in 1 .. Len(stack')
      PROVE  /\ stack'[i].fn = "connected" => stack'[i].list <= Len(lists')
             /\ stack'[i].fn \in {"fetch_ppd", "self_connect"} => i = Len(stack')
  <2>1. CASE i \in 1 .. m
    <3>1. stack'[i] = stack[i] /\ i \in 1 .. Len(stack)
      BY <1>1, <2>1
    <3>2. stack'[i].fn = "connected" => stack'[i].list \in Nat /\ stack'[i].list <= Len(lists)
      BY <1>2, <3>1, FrameFields
    <3>3. stack'[i].fn \in {"fetch_ppd", "self_connect"} => i = Len(stack')
      <4>1. stack[i].fn \in {"fetch_ppd", "self_connect"} => i = Len(stack)
        BY <1>2, <3>1
      <4>2. CASE i = Len(stack)
        <5>1. m = Len(stack) /\ i = m
          BY <1>1, <2>1, <4>2
        <5> QED
          BY <3>1, <5>1
      <4> QED
        BY <3>1, <4>1, <4>2
    <3> QED
      BY <1>1, <3>2, <3>3
  <2>2. CASE i \in m + 1 .. Len(stack')
    BY <2>2
  <2> QED
    BY <1>1, <2>1, <2>2
<1> QED
  BY <1>3 DEF Control

\* A step that leaves alone all but the last frame.
LEMMA ControlBelow ==
    ASSUME Control, Len(stack) > 0, stack' \in Seq(Frames), Len(stack') >= Len(stack) - 1,
           lists' \in Seq(Seq(Entries)),
           queued' \in 0 .. Len(lists'), Len(lists) <= Len(lists'),
           \A i \in 1 .. Len(stack) - 1 : stack'[i] = stack[i],
           \A i \in Len(stack) .. Len(stack') :
              /\ stack'[i].fn = "connected" => stack'[i].list <= Len(lists')
              /\ stack'[i].fn \in {"fetch_ppd", "self_connect"} => i = Len(stack'),
           connecting' => (Running("self_connect"))',
           (Running("self_connect"))' => queued' # 0
    PROVE  Control'
<1>1. Len(stack) \in Nat /\ Len(stack') \in Nat
  <2>1. stack \in Seq(Frames)
    BY DEF Control
  <2> QED
    BY <2>1, LenProperties
<1>2. PICK m \in Nat : m + 1 = Len(stack)
  <2>1. Len(stack) - 1 \in Nat /\ (Len(stack) - 1) + 1 = Len(stack)
    BY <1>1
  <2> QED
    BY <2>1
<1>3. m <= Len(stack) /\ m <= Len(stack') /\ m < Len(stack) /\ m = Len(stack) - 1
  BY <1>1, <1>2
<1>4. /\ \A i \in 1 .. m : stack'[i] = stack[i]
      /\ \A i \in m + 1 .. Len(stack') :
            /\ stack'[i].fn = "connected" => stack'[i].list <= Len(lists')
            /\ stack'[i].fn \in {"fetch_ppd", "self_connect"} => i = Len(stack')
  BY <1>2, <1>3
<1> QED
  BY Zenon, <1>3, <1>4, ControlFrom

LEMMA ControlStep ==
    ASSUME Control, [Next]_vars
    PROVE  Control'
<1> DEFINE n == Len(stack)
<1>0. /\ n \in Nat /\ Len(lists) \in Nat /\ stack \in Seq(Frames)
      /\ \A fn : Running(fn) <=> n > 0 /\ stack[n].fn = fn
      /\ \A i \in 1 .. n : /\ stack[i].fn = "connected" => stack[i].list <= Len(lists)
                           /\ stack[i].fn \in {"fetch_ppd", "self_connect"} => i = n
      /\ connecting => Running("self_connect")
      /\ lists \in Seq(Seq(Entries)) /\ queued \in 0 .. Len(lists)
  BY StackTop, LenProperties DEF Control
<1>1. ASSUME NEW r \in Requests, NEW q \in Queues, NEW a \in Addrs, ChangePPD(r, q, a)
      PROVE  Control'
  <2>1. /\ stack' \in Seq(Frames) /\ Len(stack') = n + 2
        /\ n > 0 => stack[n].fn = "g_application_run"
        /\ \A i \in 1 .. n : stack'[i] = stack[i]
        /\ stack'[n + 1].fn = "ChangePPD" /\ stack'[n + 2].fn = "fetch_ppd"
    BY <1>0, <1>1, CallStack
  <2>2. UNCHANGED <<lists, queued, connecting>> /\ ~connecting
    BY <1>0, <1>1, <2>1 DEF ChangePPD, cacheVars
  <2>3. ~(Running("self_connect"))'
    BY <1>0, <2>1 DEF Running, Last
  <2>4. \A i \in 1 .. n + 2 : i \in 1 .. n \/ i = n + 1 \/ i = n + 2
    <3>1. n \in Nat
      BY <1>0
    <3> HIDE DEF n
    <3> QED
      BY <3>1
  <2>5. ASSUME NEW i \in 1 .. Len(stack')
        PROVE  /\ stack'[i].fn = "connected" => stack'[i].list <= Len(lists')
               /\ stack'[i].fn \in {"fetch_ppd", "self_connect"} => i = Len(stack')
    <3>1. CASE i \in 1 .. n
      BY <1>0, <2>1, <2>2, <3>1
    <3>2. CASE i = n + 1 \/ i = n + 2
      BY <1>0, <2>1, <3>2
    <3> QED
      BY <2>1, <2>4, <3>1, <3>2
  <2> QED
    BY <2>1, <2>2, <2>3, <2>5 DEF Control
<1>2. CASE Complete \/ CloseWindow
  <2>1. /\ n > 0 /\ stack' \in Seq(Frames) /\ Len(stack') = n - 1
        /\ stack[n].fn \in {"ChangePPD", "g_application_run"}
        /\ \A i \in 1 .. n - 1 : stack'[i] = stack[i]
    BY <1>0, <1>2, PoppedStack
  <2>2. UNCHANGED <<lists, queued, connecting>> /\ ~connecting
    BY <1>0, <1>2, <2>1 DEF Complete, CloseWindow, cacheVars
  <2>3. ~(Running("self_connect"))'
    BY <1>0, <2>1 DEF Running, Last
  <2>4. /\ Len(stack') >= n - 1 /\ \A i \in n .. Len(stack') : FALSE
        /\ lists' \in Seq(Seq(Entries)) /\ queued' \in 0 .. Len(lists') /\ Len(lists) <= Len(lists')
    BY <1>0, <2>1, <2>2
  <2>5. connecting' = FALSE
    BY <2>2
  <2> QED
    BY Zenon, <2>1, <2>3, <2>4, <2>5, ControlBelow
<1>3. CASE CheckUpToDate \/ Download \/ Deliver
  <2>1. /\ n > 0 /\ stack' \in Seq(Frames) /\ Len(stack') \in {n - 1, n}
        /\ stack[n].fn = "fetch_ppd"
        /\ \A i \in 1 .. n - 1 : stack'[i] = stack[i]
        /\ Len(stack') = n => stack'[n].fn \in {"g_application_run", "fetch_ppd"}
    BY <1>0, <1>3, FetchStack
  <2>2. UNCHANGED <<lists, queued, connecting>> /\ ~connecting
    BY <1>0, <1>3, <2>1, FetchKinds
  <2>3. ~(Running("self_connect"))'
    BY <1>0, <2>1 DEF Running, Last
  <2>4. /\ Len(stack') >= n - 1 /\ \A i \in n .. Len(stack') : i = n /\ Len(stack') = n
        /\ lists' \in Seq(Seq(Entries)) /\ queued' \in 0 .. Len(lists') /\ Len(lists) <= Len(lists')
    BY <1>0, <2>1, <2>2
  <2>5. \A i \in n .. Len(stack') : stack'[i].fn # "connected" /\ i = Len(stack')
    BY <2>1, <2>4
  <2>6. connecting' = FALSE
    BY <2>2
  <2> QED
    BY Zenon, <2>1, <2>3, <2>4, <2>5, <2>6, ControlBelow
<1>4. CASE QueueRequest
  <2> DEFINE f == stack[n]
  <2>1. /\ n > 0 /\ f.fn = "fetch_ppd" /\ f.name \in Addrs /\ f.callback \in Requests
        /\ insert_list(f.name, f.callback)
        /\ stack' \in Seq(Frames)
        /\ \A i \in 1 .. n - 1 : stack'[i] = stack[i]
        /\ IF connecting THEN Len(stack') = n - 1 /\ connecting' = connecting
           ELSE /\ Len(stack') = n /\ stack'[n].fn = "self_connect" /\ connecting' = TRUE
    BY <1>0, <1>4, QueueStack
  <2>2. ~connecting
    BY <1>0, <2>1
  <2>3. /\ lists' \in Seq(Seq(Entries)) /\ queued' \in 1 .. Len(lists')
        /\ Len(lists') \in Nat /\ Len(lists) <= Len(lists')
    BY <1>0, <2>1, ListInserted
  <2>4. Len(stack') = n /\ stack'[n].fn = "self_connect"
    BY <2>1, <2>2
  <2>5. (Running("self_connect"))'
    BY <1>0, <2>1, <2>4, EmptySeq DEF Running, Last
  <2>6. /\ Len(stack') >= n - 1 /\ \A i \in n .. Len(stack') : i = n /\ Len(stack') = n
        /\ queued' \in 0 .. Len(lists') /\ queued' # 0
    BY <1>0, <2>3, <2>4
  <2>7. \A i \in n .. Len(stack') : stack'[i].fn # "connected" /\ i = Len(stack')
    BY <2>4, <2>6
  <2> QED
    BY Zenon, <2>1, <2>3, <2>5, <2>6, <2>7, ControlBelow
<1>5. ASSUME NEW ok \in BOOLEAN, self_connect(ok) PROVE Control'
  <2>1. /\ n > 0 /\ stack' \in Seq(Frames) /\ Len(stack') = n
        /\ \A i \in 1 .. n - 1 : stack'[i] = stack[i]
        /\ stack'[n].fn = "connected" /\ stack'[n].list = queued
    <3>1. queued \in Nat
      BY <1>0
    <3> QED
      BY <1>0, <1>5, <3>1, ConnectStack
  <2>2. UNCHANGED <<lists, queued>> /\ connecting' = FALSE
    BY <1>5 DEF self_connect
  <2>4. ~(Running("self_connect"))'
    BY <1>0, <2>1 DEF Running, Last
  <2>5. /\ Len(stack') >= n - 1 /\ \A i \in n .. Len(stack') : i = n /\ Len(stack') = n
        /\ lists' \in Seq(Seq(Entries)) /\ queued' \in 0 .. Len(lists') /\ Len(lists) <= Len(lists')
        /\ queued <= Len(lists')
    BY <1>0, <2>1, <2>2
  <2>6. \A i \in n .. Len(stack') :
           /\ i = Len(stack')
           /\ stack'[i].fn = "connected" => stack'[i].list <= Len(lists')
    BY <2>1, <2>5
  <2> QED
    BY Zenon, <2>1, <2>2, <2>4, <2>5, <2>6, ControlBelow
<1>6. CASE connected
  <2> DEFINE f == stack[n]
  <2>1. /\ n > 0 /\ f.fn = "connected"
        /\ f.list \in 0 .. Len(lists) /\ f.next \in Nat \ {0}
        /\ stack' \in Seq(Frames)
        /\ \A i \in 1 .. n - 1 : stack'[i] = stack[i]
        /\ IF More(f)
           THEN /\ Len(stack') = n + 1 /\ queued' = queued
                /\ stack'[n].fn = "connected" /\ stack'[n].list = f.list
                /\ stack'[n + 1].fn = "fetch_ppd"
           ELSE Len(stack') = n - 1 /\ queued' = 0
    BY <1>6, WalkStack
  <2> HIDE DEF f
  <2>2. UNCHANGED <<lists, connecting>> /\ ~connecting
    <3>1. stack[n].fn = "connected"
      BY <2>1 DEF f
    <3> QED
      BY <1>0, <1>6, <3>1 DEF connected
  <2>3. CASE More(f)
    <3>1. /\ stack'[n].fn = "connected" /\ stack'[n].list = f.list /\ Len(stack') = n + 1
          /\ stack'[n + 1].fn = "fetch_ppd" /\ queued' = queued
      BY <2>1, <2>3
    <3>2. ~(Running("self_connect"))'
      BY <1>0, <3>1 DEF Running, Last
    <3>3. /\ Len(stack') >= n - 1 /\ \A i \in n .. Len(stack') : i = n \/ i = n + 1
          /\ lists' \in Seq(Seq(Entries)) /\ queued' \in 0 .. Len(lists') /\ Len(lists) <= Len(lists')
      BY <1>0, <2>1, <2>2, <3>1
    <3>4. \A i \in n .. Len(stack') :
             /\ stack'[i].fn = "connected" => stack'[i].list <= Len(lists')
             /\ stack'[i].fn \in {"fetch_ppd", "self_connect"} => i = Len(stack')
      BY <1>0, <2>1, <2>2, <3>1, <3>3
    <3>5. connecting' = FALSE
      BY <1>0, <2>2
    <3>6. stack' \in Seq(Frames) /\ \A i \in 1 .. n - 1 : stack'[i] = stack[i]
      BY <2>1
    <3> QED
      BY Zenon, <2>1, <3>2, <3>3, <3>4, <3>5, <3>6, ControlBelow
  <2>4. CASE ~More(f)
    <3>1. queued' = 0 /\ Len(stack') = n - 1
      BY <2>1, <2>4
    <3>2. ~(Running("self_connect"))'
      <4>1. \A i \in 1 .. n - 1 : stack'[i] = stack[i] /\ stack[i].fn # "self_connect"
        BY <1>0, <2>1
      <4> QED
        BY <1>0, <2>1, <3>1, <4>1 DEF Running, Last
    <3>3. /\ Len(stack') >= n - 1 /\ \A i \in n .. Len(stack') : FALSE
          /\ lists' \in Seq(Seq(Entries)) /\ queued' \in 0 .. Len(lists') /\ Len(lists) <= Len(lists')
      BY <1>0, <2>1, <2>2, <3>1
    <3>4. stack' \in Seq(Frames) /\ connecting' = FALSE /\ \A i \in 1 .. n - 1 : stack'[i] = stack[i]
      BY <2>1, <2>2
    <3> QED
      BY Zenon, <2>1, <3>2, <3>3, <3>4, ControlBelow
  <2> QED
    BY <2>1, <2>3, <2>4
<1>7. CASE UNCHANGED vars \/ \E q \in Queues : ChangeAtServer(q)
  <2>1. UNCHANGED <<stack, lists, queued, connecting>>
    BY <1>7 DEF vars, ChangeAtServer, cacheVars
  <2> QED
    BY <2>1 DEF Control, Running
<1> QED
  BY Zenon, <1>1, <1>2, <1>3, <1>4, <1>5, <1>6, <1>7 DEF Next, Program

\* The walk that is under way, or is about to start, is through the queue.
LEMMA QueueStep ==
    ASSUME Control, QueueIsServed, [Next]_vars
    PROVE  QueueIsServed'
<1> DEFINE n == Len(stack)
           Serving(f) == f.fn = "self_connect" \/ (f.fn = "connected" /\ f.list = queued)
<1>0. /\ n \in Nat /\ stack \in Seq(Frames) /\ DOMAIN stack = 1 .. n
      /\ \A fn : Running(fn) <=> n > 0 /\ stack[n].fn = fn
      /\ queued # 0 => \E i \in 1 .. n : Serving(stack[i])
      /\ stack' \in Seq(Frames) /\ DOMAIN stack' = 1 .. Len(stack')
  BY StackTop, LenProperties, ControlStep DEF Control, QueueIsServed
<1>n. n \in Nat
  BY <1>0
<1>1. ASSUME queued' = queued, NEW m \in Nat, m <= Len(stack'),
             \A i \in 1 .. n : Serving(stack[i]) => i <= m,
             \A i \in 1 .. m : stack'[i] = stack[i]
      PROVE  QueueIsServed'
  BY <1>0, <1>1 DEF QueueIsServed
<1>2. ASSUME NEW r \in Requests, NEW q \in Queues, NEW a \in Addrs, ChangePPD(r, q, a)
      PROVE  QueueIsServed'
  <2>1. Len(stack') = n + 2 /\ \A i \in 1 .. n : stack'[i] = stack[i]
    BY <1>0, <1>2, CallStack
  <2>2. n <= Len(stack') /\ queued' = queued /\ \A i \in 1 .. n : Serving(stack[i]) => i <= n
    BY <1>0, <1>2, <2>1 DEF ChangePPD, cacheVars
  <2> HIDE DEF Serving
  <2> QED
    BY <1>0, <1>1, <2>1, <2>2
<1>3. CASE Complete \/ CloseWindow \/ CheckUpToDate \/ Download \/ Deliver
  <2>1. /\ n > 0 /\ n - 1 <= Len(stack') /\ \A i \in 1 .. n - 1 : stack'[i] = stack[i]
        /\ stack[n].fn \in {"ChangePPD", "g_application_run", "fetch_ppd"}
    <3>1. CASE Complete \/ CloseWindow
      <4>1. /\ n > 0 /\ Len(stack') = n - 1 /\ \A i \in 1 .. n - 1 : stack'[i] = stack[i]
            /\ stack[n].fn \in {"ChangePPD", "g_application_run"}
        BY <1>0, <3>1, PoppedStack
      <4> QED
        BY <1>0, <4>1
    <3>2. CASE CheckUpToDate \/ Download \/ Deliver
      <4>1. /\ n > 0 /\ Len(stack') \in {n - 1, n} /\ \A i \in 1 .. n - 1 : stack'[i] = stack[i]
            /\ stack[n].fn = "fetch_ppd"
        BY <1>0, <3>2, FetchStack
      <4>2. n - 1 <= Len(stack')
        BY <1>n, <4>1
      <4> QED
        BY <4>1, <4>2
    <3> QED
      BY <1>3, <3>1, <3>2
  <2>2. queued' = queued
    BY <1>3, FetchKinds DEF Complete, CloseWindow, cacheVars
  <2>3. n - 1 \in Nat /\ \A i \in 1 .. n : Serving(stack[i]) => i <= n - 1
    BY <1>0, <2>1
  <2> HIDE DEF Serving
  <2> QED
    BY <1>1, <2>1, <2>2, <2>3
<1>4. CASE QueueRequest
  <2>1. n > 0 /\ stack[n].fn = "fetch_ppd" /\ ~connecting
    BY <1>0, <1>4, QueueStack DEF Control
  <2>2. Len(stack') = n /\ stack'[n].fn = "self_connect"
    BY <1>0, <1>4, <2>1, QueueStack DEF Control
  <2> QED
    BY <1>0, <2>1, <2>2 DEF QueueIsServed
<1>5. ASSUME NEW ok \in BOOLEAN, self_connect(ok) PROVE QueueIsServed'
  <2>1. queued \in Nat /\ Len(lists) \in Nat
    BY LenProperties DEF Control
  <2>2. n > 0 /\ Len(stack') = n /\ stack'[n].fn = "connected" /\ stack'[n].list = queued
    BY <1>0, <1>5, <2>1, ConnectStack
  <2>3. queued' = queued
    BY <1>5 DEF self_connect
  <2> QED
    BY <1>0, <2>2, <2>3 DEF QueueIsServed
<1>6. CASE connected
  <2> DEFINE f == stack[n]
  <2>1. /\ n > 0 /\ f.fn = "connected"
        /\ \A i \in 1 .. n - 1 : stack'[i] = stack[i]
        /\ \/ /\ Len(stack') = n + 1 /\ queued' = queued
              /\ stack'[n].fn = "connected" /\ stack'[n].list = f.list
           \/ queued' = 0
    BY <1>6, WalkStack
  <2>2. CASE queued' = 0
    BY <2>2 DEF QueueIsServed
  <2>3. CASE /\ Len(stack') = n + 1 /\ queued' = queued
             /\ stack'[n].fn = "connected" /\ stack'[n].list = f.list
    <3>1. ASSUME queued # 0 PROVE \E i \in 1 .. n + 1 : Serving(stack'[i])
      <4>1. PICK i \in 1 .. n : Serving(stack[i])
        BY <1>0, <3>1
      <4>2. CASE i \in 1 .. n - 1
        <5>1. i \in 1 .. n + 1 /\ stack'[i] = stack[i]
          BY <1>n, <2>1, <4>2
        <5> HIDE DEF Serving
        <5> QED
          BY <4>1, <5>1
      <4>3. CASE i = n
        BY <1>0, <2>1, <2>3, <4>1, <4>3
      <4> QED
        <5>1. i \in 1 .. n - 1 \/ i = n
          BY <1>n
        <5> HIDE DEF Serving
        <5> QED
          BY <4>2, <4>3, <5>1
    <3> QED
      BY <1>0, <2>3, <3>1 DEF QueueIsServed
  <2> QED
    BY <2>1, <2>2, <2>3
<1>7. CASE UNCHANGED vars \/ \E q \in Queues : ChangeAtServer(q)
  BY <1>7 DEF vars, ChangeAtServer, cacheVars, QueueIsServed
<1> QED
  BY Zenon, <1>2, <1>3, <1>4, <1>5, <1>6, <1>7 DEF Next, Program

LEMMA ControlCorrect == Spec => []Control
<1>1. Control /\ [Next]_vars => Control'
  BY ControlStep
<1> QED
  BY ControlInit, <1>1, PTL DEF Spec

\* No request is left behind in the queue, whatever fails, nests or is freed: a
\* connection attempt or a walk through `queued` is under way as long as it holds any.
THEOREM QueueCorrect == Spec => []QueueIsServed
<1>1. Init => QueueIsServed
  BY DEF Init, QueueIsServed
<1>2. Control /\ QueueIsServed /\ [Next]_vars => QueueIsServed'
  BY QueueStep
<1> QED
  BY <1>1, <1>2, ControlCorrect, PTL DEF Spec

-----------------------------------------------------------------------------
(* Searching the lists. *)

\* Find gives an entry of that name, unless there is none.
LEMMA Found ==
    ASSUME NEW list, Len(list) \in Nat, NEW name
    PROVE  LET i == Find(list, name)
           IN  /\ i = 0 => \A j \in 1 .. Len(list) : mem[list[j].qname] # name
               /\ i # 0 => i \in 1 .. Len(list) /\ mem[list[i].qname] = name
<1> DEFINE I == {i \in 1 .. Len(list) : mem[list[i].qname] = name}
<1>1. Find(list, name) = IF I # {} THEN Min(I) ELSE 0
  BY DEF Find, SelectInSeq
<1>2. I # {} => Min(I) \in I
  <2>1. I \in SUBSET Nat
    OBVIOUS
  <2> HIDE DEF I
  <2> QED
    BY <2>1, Least
<1> QED
  BY <1>1, <1>2

-----------------------------------------------------------------------------
(* The types of what does not depend on the names that were freed. *)

RequestRecords ==
    [queue : Queues \cup {"none"}, name : Nat, asked : Nat,
     status : {"unsent", "handled", "answered"}]

Types ==
    /\ server \in [Queues -> Versions]
    /\ mem \in [Addrs -> Queues \cup {Garbage}]
    /\ live \subseteq Addrs
    /\ connecting \in BOOLEAN /\ cups \in BOOLEAN
    /\ ref_data \in Requests \cup {0}
    /\ failures \in Nat
    /\ request \in [Requests -> RequestRecords]
    /\ delivered = [r \in Requests |-> delivered[r]]

LEMMA RequestMade ==
    ASSUME Types, NEW r \in Requests, NEW q \in Queues, NEW a \in Addrs, ChangePPD(r, q, a)
    PROVE  /\ request' \in [Requests -> RequestRecords]
           /\ request'[r].queue = q /\ request'[r].name = a /\ request'[r].status = "handled"
           /\ \A p \in Requests \ {r} : request'[p] = request[p]
<1> DEFINE new == [queue |-> q, name |-> a, asked |-> server[q], status |-> "handled"]
<1>1. server[q] \in Nat /\ a \in Nat
  BY DEF Types, Versions, Addrs, Requests
<1>2. /\ new \in RequestRecords /\ new.queue = q /\ new.name = a /\ new.status = "handled"
  BY <1>1 DEF RequestRecords
<1>3. request' = [request EXCEPT ![r] = new] /\ request \in [Requests -> RequestRecords]
  BY DEF ChangePPD, Types
<1> HIDE DEF new
<1> QED
  BY <1>2, <1>3

LEMMA RequestAnswered ==
    ASSUME Types, stack \in Seq(Frames), Complete
    PROVE  LET r == stack[Len(stack)].request
           IN  /\ r \in Requests
               /\ request' \in [Requests -> RequestRecords]
               /\ request'[r].queue = request[r].queue /\ request'[r].name = request[r].name
               /\ request'[r].status = "answered"
               /\ \A p \in Requests \ {r} : request'[p] = request[p]
<1> DEFINE r == stack[Len(stack)].request
           new == [request[r] EXCEPT !.status = "answered"]
<1>1. Last(stack) = stack[Len(stack)] /\ r \in Requests
  <2>1. Running("ChangePPD")
    BY DEF Complete
  <2> QED
    BY <2>1, StackTop, FrameFields
<1>2. request' = [request EXCEPT ![r] = new] /\ request \in [Requests -> RequestRecords]
  BY Zenon, <1>1 DEF Complete, Types
<1> HIDE DEF r
<1>3. /\ new \in RequestRecords /\ new.queue = request[r].queue /\ new.name = request[r].name
      /\ new.status = "answered"
  BY <1>1, <1>2 DEF RequestRecords
<1> HIDE DEF new
<1> QED
  BY <1>1, <1>2, <1>3 DEF r


\* What a step of fetch_ppd tells the callback.
LEMMA CallbackCalled ==
    ASSUME Types, stack \in Seq(Frames), CheckUpToDate \/ Download \/ Deliver
    PROVE  LET r == stack[Len(stack)].callback
           IN  /\ r \in Requests
               /\ \/ UNCHANGED <<delivered, shown>>
                  \/ /\ \E file : delivered' = [delivered EXCEPT ![r] = Append(@, file)]
                     /\ shown' \in {shown, shown \cup {<<r, ref_data>>}}
                     /\ Len(stack') = Len(stack) => stack'[Len(stack)].fn = "g_application_run"
<1> DEFINE f == stack[Len(stack)]
<1>1. /\ Running("fetch_ppd")
      /\ FetchEnds \/ FetchAgain(Last(stack)) \/ CallsBack(Last(stack))
  BY FetchKinds
<1>2. /\ Last(stack) = f /\ f.callback \in Requests /\ Len(stack) \in Nat /\ Len(stack) > 0
      /\ stack # <<>>
  BY <1>1, StackTop, FrameFields
<1> HIDE DEF f
<1>3. CASE FetchEnds \/ FetchAgain(f)
  BY <1>2, <1>3 DEF FetchEnds, FetchAgain, f
<1>4. CASE CallsBack(f)
  <2>1. PICK file : Callback(f.callback, file)
    BY <1>4 DEF CallsBack
  <2>2. /\ delivered' = [delivered EXCEPT ![f.callback] = Append(@, file)]
        /\ \/ Return /\ shown' = shown
           \/ /\ ReturnTo(Window(f.callback))
              /\ shown' = shown \cup {<<f.callback, ref_data>>}
    BY Zenon, <2>1 DEF Callback
  <2>3. CASE Return /\ shown' = shown
    <3>1. Len(stack') = Len(stack) - 1
      BY <1>2, <2>3, StackPopped
    <3>2. Len(stack') # Len(stack)
      BY <1>2, <3>1
    <3> QED
      BY Zenon, <1>2, <2>2, <2>3, <3>2 DEF f
  <2>4. CASE ReturnTo(Window(f.callback)) /\ shown' = shown \cup {<<f.callback, ref_data>>}
    <3>1. Window(f.callback) \in Frames /\ Window(f.callback).fn = "g_application_run"
      BY <1>2, FrameTypes
    <3>2. stack'[Len(stack)] = Window(f.callback)
      BY <1>2, <2>4, <3>1, StackReplaced
    <3>3. stack'[Len(stack)].fn = "g_application_run"
      BY <3>1, <3>2
    <3>4. shown' \in {shown, shown \cup {<<f.callback, ref_data>>}}
      BY <2>4
    <3> QED
      BY Zenon, <1>2, <2>2, <3>3, <3>4 DEF f
  <2> QED
    BY <2>2, <2>3, <2>4
<1> QED
  BY Zenon, <1>1, <1>2, <1>3, <1>4

LEMMA TypesInit == Init => Types
<1> SUFFICES ASSUME Init PROVE Types
  OBVIOUS
<1>1. NoRequest \in RequestRecords
  BY DEF RequestRecords, NoRequest
<1>2. request \in [Requests -> RequestRecords]
  BY <1>1 DEF Init
<1>3. delivered = [r \in Requests |-> delivered[r]]
  BY DEF Init
<1>4. mem \in [Addrs -> Queues \cup {Garbage}] /\ server \in [Queues -> Versions]
  BY DEF Init
<1> QED
  BY <1>2, <1>3, <1>4 DEF Init, Types

LEMMA TypesStep ==
    ASSUME Types, Control, [Next]_vars
    PROVE  Types'
<1>0. stack \in Seq(Frames)
  BY DEF Control
<1>1. ASSUME NEW r \in Requests, NEW q \in Queues, NEW a \in Addrs, ChangePPD(r, q, a)
      PROVE  Types'
  <2>1. request' \in [Requests -> RequestRecords]
    BY <1>1, RequestMade
  <2> QED
    BY <1>1, <2>1 DEF ChangePPD, Types, cacheVars
<1>2. CASE Complete
  <2>1. request' \in [Requests -> RequestRecords]
    BY <1>0, <1>2, RequestAnswered
  <2>2. mem' \in [Addrs -> Queues \cup {Garbage}] /\ live' \subseteq Addrs
    <3> DEFINE a == request[Last(stack).request].name
    <3>1. \/ UNCHANGED <<mem, live>>
          \/ /\ live' = live \ {a}
             /\ \E content \in {mem[a], Garbage} : mem' = [mem EXCEPT ![a] = content]
      BY Zenon, <1>2 DEF Complete
    <3> HIDE DEF a
    <3> QED
      BY <3>1 DEF Types
  <2> QED
    BY <1>2, <2>1, <2>2 DEF Complete, Types, cacheVars
<1>3. CASE CloseWindow \/ UNCHANGED vars
  BY <1>3 DEF CloseWindow, vars, cacheVars, Types
<1>4. CASE CheckUpToDate \/ Download \/ Deliver
  <2>1. delivered' = [r \in Requests |-> delivered'[r]]
    BY <1>0, <1>4, CallbackCalled DEF Types
  <2>2. UNCHANGED <<server, mem, live, connecting, cups, ref_data, failures, request>>
    BY <1>4, FetchKinds
  <2> QED
    BY <2>1, <2>2 DEF Types
<1>5. CASE QueueRequest
  BY <1>5 DEF QueueRequest, Types
<1>6. ASSUME NEW ok \in BOOLEAN, self_connect(ok) PROVE Types'
  <2>1. cups' \in BOOLEAN /\ failures' \in Nat /\ connecting' \in BOOLEAN
    <3>1. cups' = ok /\ connecting' = FALSE
      BY Zenon, <1>6 DEF self_connect, Async_Connection
    <3>2. failures' = failures \/ failures' = failures + 1
      BY Zenon, <1>6 DEF self_connect, Async_Connection, IPPConnection
    <3>3. failures' \in Nat
      BY <3>2 DEF Types
    <3> QED
      BY Zenon, <3>1, <3>3
  <2>2. UNCHANGED <<server, mem, live, ref_data, request, delivered>>
    BY <1>6 DEF self_connect
  <2> QED
    BY <2>1, <2>2 DEF Types
<1>7. CASE connected
  BY <1>7 DEF connected, Types
<1>8. ASSUME NEW q \in Queues, ChangeAtServer(q) PROVE Types'
  <2>1. server' \in [Queues -> Versions]
    BY <1>8 DEF ChangeAtServer, Types, Versions
  <2> QED
    BY <1>8, <2>1 DEF ChangeAtServer, Types, cacheVars
<1> QED
  BY Zenon, <1>1, <1>2, <1>3, <1>4, <1>5, <1>6, <1>7, <1>8 DEF Next, Program

LEMMA TypesCorrect == Spec => [](Control /\ Types)
<1>1. Control /\ Types /\ [Next]_vars => Types'
  BY TypesStep
<1> QED
  BY ControlCorrect, TypesInit, <1>1, PTL DEF Spec

-----------------------------------------------------------------------------
(* Where fetches and entries of the queue come from. *)

LEMMA EntryFields ==
    ASSUME lists \in Seq(Seq(Entries))
    PROVE  /\ Len(lists) \in Nat
           /\ \A l \in 1 .. Len(lists) :
                 /\ Len(lists[l]) \in Nat
                 /\ \A j \in 1 .. Len(lists[l]) :
                       lists[l][j].qname \in Addrs /\ lists[l][j].method \in Requests
<1>1. Len(lists) \in Nat
  BY LenProperties
<1>2. ASSUME NEW l \in 1 .. Len(lists)
      PROVE  /\ Len(lists[l]) \in Nat
             /\ \A j \in 1 .. Len(lists[l]) :
                   lists[l][j].qname \in Addrs /\ lists[l][j].method \in Requests
  <2>1. lists[l] \in Seq(Entries)
    BY ElementOfSeq
  <2>2. Len(lists[l]) \in Nat
    BY <2>1, LenProperties
  <2>3. \A j \in 1 .. Len(lists[l]) : lists[l][j] \in Entries
    BY <2>1, ElementOfSeq
  <2> QED
    BY <2>2, <2>3 DEF Entries
<1> QED
  BY <1>1, <1>2

\* A fetch is one that was under way, or of an entry of a list, or of a new call.
LEMMA FetchOrigin ==
    ASSUME Control, [Next]_vars, NEW i \in 1 .. Len(stack'), stack'[i].fn = "fetch_ppd"
    PROVE  \/ /\ i \in 1 .. Len(stack) /\ stack[i].fn = "fetch_ppd"
              /\ stack'[i].callback = stack[i].callback /\ stack'[i].name = stack[i].name
              /\ stack'[i].check_uptodate \in {FALSE, stack[i].check_uptodate}
           \/ /\ stack'[i].check_uptodate = TRUE
              /\ \E l \in 1 .. Len(lists) : \E j \in 1 .. Len(lists[l]) :
                    /\ stack'[i].callback = lists[l][j].method
                    /\ stack'[i].name = lists[l][j].qname
           \/ /\ stack'[i].check_uptodate = TRUE
              /\ \E r \in Requests, q \in Queues, a \in Addrs :
                    ChangePPD(r, q, a) /\ stack'[i].callback = r /\ stack'[i].name = a
<1> DEFINE n == Len(stack)
           Goal == \/ /\ i \in 1 .. Len(stack) /\ stack[i].fn = "fetch_ppd"
                      /\ stack'[i].callback = stack[i].callback /\ stack'[i].name = stack[i].name
                      /\ stack'[i].check_uptodate \in {FALSE, stack[i].check_uptodate}
                   \/ /\ stack'[i].check_uptodate = TRUE
                      /\ \E l \in 1 .. Len(lists) : \E j \in 1 .. Len(lists[l]) :
                            /\ stack'[i].callback = lists[l][j].method
                            /\ stack'[i].name = lists[l][j].qname
                   \/ /\ stack'[i].check_uptodate = TRUE
                      /\ \E r \in Requests, q \in Queues, a \in Addrs :
                            ChangePPD(r, q, a) /\ stack'[i].callback = r /\ stack'[i].name = a
<1>0. stack \in Seq(Frames) /\ n \in Nat /\ queued \in 0 .. Len(lists) /\ Len(lists) \in Nat
      /\ lists \in Seq(Seq(Entries))
  BY LenProperties DEF Control
<1>1. ASSUME i \in 1 .. n, stack'[i] = stack[i]
      PROVE  Goal
  BY <1>1
<1>2. ASSUME NEW r \in Requests, NEW q \in Queues, NEW a \in Addrs, ChangePPD(r, q, a)
      PROVE  Goal
  <2>1. /\ Len(stack') = n + 2 /\ \A k \in 1 .. n : stack'[k] = stack[k]
        /\ stack'[n + 1].fn = "ChangePPD" /\ stack'[n + 2].name = a
        /\ stack'[n + 2].callback = r /\ stack'[n + 2].check_uptodate = TRUE
    BY <1>0, <1>2, CallStack
  <2>2. i \in 1 .. n \/ i = n + 1 \/ i = n + 2
    BY <1>0, <2>1
  <2>3. CASE i \in 1 .. n
    BY <1>0, <1>1, <2>1, <2>3
  <2>4. CASE i = n + 1
    BY <2>1, <2>4
  <2>5. CASE i = n + 2
    BY Zenon, <1>2, <2>1, <2>5
  <2> QED
    BY <2>2, <2>3, <2>4, <2>5
<1>3. CASE Complete \/ CloseWindow
  <2>1. n > 0 /\ Len(stack') = n - 1 /\ \A k \in 1 .. n - 1 : stack'[k] = stack[k]
    BY <1>0, <1>3, PoppedStack
  <2>2. i \in 1 .. n /\ i \in 1 .. n - 1
    BY <1>0, <2>1
  <2> HIDE DEF Goal
  <2> QED
    BY <1>1, <2>1, <2>2
<1>4. CASE CheckUpToDate \/ Download \/ Deliver
  <2>1. /\ n > 0 /\ Len(stack') \in {n - 1, n} /\ \A k \in 1 .. n - 1 : stack'[k] = stack[k]
        /\ stack[n].fn = "fetch_ppd"
        /\ Len(stack') = n =>
             \/ stack'[n].fn = "g_application_run"
             \/ /\ stack'[n].name = stack[n].name /\ stack'[n].callback = stack[n].callback
                /\ stack'[n].check_uptodate = FALSE
    BY <1>0, <1>4, FetchStack
  <2>2. n - 1 \in Nat /\ n - 1 <= n /\ (i \in 1 .. n - 1 \/ (i = n /\ Len(stack') = n))
    BY <1>0, <2>1
  <2>3. CASE i \in 1 .. n - 1
    <3>1. stack'[i] = stack[i]
      BY Zenon, <2>1, <2>3
    <3>2. i \in 1 .. n
      BY <1>0, <2>3
    <3> HIDE DEF Goal
    <3> QED
      BY <1>1, <3>1, <3>2
  <2>4. CASE i = n /\ Len(stack') = n
    <3>1. stack'[i].check_uptodate \in {FALSE, stack[i].check_uptodate}
      BY <2>1, <2>4
    <3> QED
      BY <2>1, <2>4, <3>1
  <2> QED
    BY <2>2, <2>3, <2>4
<1>5. CASE QueueRequest
  <2>1. /\ n > 0 /\ \A k \in 1 .. n - 1 : stack'[k] = stack[k]
        /\ IF connecting THEN Len(stack') = n - 1 /\ connecting' = connecting
           ELSE /\ Len(stack') = n /\ stack'[n].fn = "self_connect" /\ connecting' = TRUE
    BY <1>0, <1>5, QueueStack
  <2>2. n - 1 \in Nat /\ n - 1 <= n /\ (i \in 1 .. n - 1 \/ (i = n /\ Len(stack') = n))
    BY <1>0, <2>1
  <2>3. i \in 1 .. n /\ i \in 1 .. n - 1
    BY <1>0, <2>1, <2>2
  <2> HIDE DEF Goal
  <2> QED
    BY <1>1, <2>1, <2>2, <2>3
<1>6. ASSUME NEW ok \in BOOLEAN, self_connect(ok) PROVE Goal
  <2>0. queued \in Nat
    BY <1>0
  <2>1. /\ n > 0 /\ Len(stack') = n /\ \A k \in 1 .. n - 1 : stack'[k] = stack[k]
        /\ stack'[n].fn = "connected"
    BY <1>0, <1>6, <2>0, ConnectStack
  <2>2. i \in 1 .. n /\ i \in 1 .. n - 1
    BY <1>0, <2>1
  <2> HIDE DEF Goal
  <2> QED
    BY <1>1, <2>1, <2>2
<1>7. CASE connected
  <2> DEFINE f == stack[n]
             e == lists[f.list][f.next]
  <2>1. /\ n > 0 /\ \A k \in 1 .. n - 1 : stack'[k] = stack[k]
        /\ \/ /\ f.list \in 1 .. Len(lists) /\ f.next \in 1 .. Len(lists[f.list])
              /\ Len(stack') = n + 1 /\ stack'[n].fn = "connected"
              /\ stack'[n + 1].name = e.qname /\ stack'[n + 1].callback = e.method
              /\ stack'[n + 1].check_uptodate = TRUE
           \/ Len(stack') = n - 1
    BY <1>7, WalkStack
  <2>2. n - 1 \in Nat /\ n - 1 <= n /\ (i \in 1 .. n - 1 \/ i = n \/ i = n + 1)
    <3>1. n \in Nat /\ n > 0 /\ i \in 1 .. Len(stack')
      BY <1>0, <2>1
    <3>2. Len(stack') = n + 1 \/ Len(stack') = n - 1
      BY Zenon, <2>1
    <3> HIDE DEF n
    <3> QED
      BY <3>1, <3>2
  <2>3. CASE i \in 1 .. n - 1
    <3>1. stack'[i] = stack[i]
      BY Zenon, <2>1, <2>3
    <3>2. i \in 1 .. n
      BY <1>0, <2>3
    <3> HIDE DEF Goal
    <3> QED
      BY <1>1, <3>1, <3>2
  <2>4. CASE i = n \/ i = n + 1
    <3>1. i = n + 1 /\ Len(stack') = n + 1
      BY <1>0, <2>1, <2>4
    <3>2. /\ f.list \in 1 .. Len(lists) /\ f.next \in 1 .. Len(lists[f.list])
          /\ stack'[i].name = e.qname /\ stack'[i].callback = e.method
          /\ stack'[i].check_uptodate = TRUE
      BY <1>0, <2>1, <3>1
    <3> QED
      BY Zenon, <3>2
  <2> QED
    BY <2>2, <2>3, <2>4
<1>8. CASE UNCHANGED vars \/ \E q \in Queues : ChangeAtServer(q)
  <2>1. stack' = stack
    BY <1>8 DEF vars, ChangeAtServer
  <2> HIDE DEF Goal
  <2> QED
    BY <1>0, <1>1, <2>1
<1> QED
  BY Zenon, <1>2, <1>3, <1>4, <1>5, <1>6, <1>7, <1>8 DEF Next, Program

\* A handler's frame is one that was there, or of a new call.
LEMMA HandlerOrigin ==
    ASSUME Control, [Next]_vars, NEW i \in 1 .. Len(stack'), stack'[i].fn = "ChangePPD"
    PROVE  \/ i \in 1 .. Len(stack) /\ stack'[i] = stack[i]
           \/ \E r \in Requests, q \in Queues, a \in Addrs :
                 ChangePPD(r, q, a) /\ stack'[i].request = r
<1> DEFINE n == Len(stack)
<1>0. stack \in Seq(Frames) /\ n \in Nat /\ queued \in 0 .. Len(lists) /\ Len(lists) \in Nat
      /\ lists \in Seq(Seq(Entries))
  BY LenProperties DEF Control
<1>1. ASSUME NEW r \in Requests, NEW q \in Queues, NEW a \in Addrs, ChangePPD(r, q, a)
      PROVE  (i \in 1 .. n /\ stack'[i] = stack[i]) \/ stack'[i].request = r
  <2>1. /\ Len(stack') = n + 2 /\ \A k \in 1 .. n : stack'[k] = stack[k]
        /\ stack'[n + 1].request = r /\ stack'[n + 2].fn = "fetch_ppd"
    BY <1>0, <1>1, CallStack
  <2>2. i \in 1 .. n \/ i = n + 1 \/ i = n + 2
    BY <1>0, <2>1
  <2> QED
    BY <2>1, <2>2
<1>2. CASE Complete \/ CloseWindow
  <2>1. n > 0 /\ Len(stack') = n - 1 /\ \A k \in 1 .. n - 1 : stack'[k] = stack[k]
    BY <1>0, <1>2, PoppedStack
  <2>2. i \in 1 .. n - 1 /\ i \in 1 .. n
    BY <1>0, <2>1
  <2> QED
    BY Zenon, <2>1, <2>2
<1>3. CASE CheckUpToDate \/ Download \/ Deliver
  <2>1. /\ n > 0 /\ Len(stack') \in {n - 1, n} /\ \A k \in 1 .. n - 1 : stack'[k] = stack[k]
        /\ Len(stack') = n => stack'[n].fn # "ChangePPD"
    BY <1>0, <1>3, FetchStack
  <2>2. i # n
    BY <1>0, <2>1
  <2>3. i \in 1 .. n - 1
    BY <1>0, <2>1, <2>2
  <2> QED
    BY <1>0, <2>1, <2>3
<1>4. CASE QueueRequest
  <2>1. /\ n > 0 /\ \A k \in 1 .. n - 1 : stack'[k] = stack[k]
        /\ \/ Len(stack') = n - 1
           \/ Len(stack') = n /\ stack'[n].fn = "self_connect"
    BY <1>0, <1>4, QueueStack
  <2> QED
    BY <1>0, <2>1
<1>5. ASSUME NEW ok \in BOOLEAN, self_connect(ok) PROVE i \in 1 .. n /\ stack'[i] = stack[i]
  <2>0. queued \in Nat
    BY <1>0
  <2>1. /\ n > 0 /\ Len(stack') = n /\ \A k \in 1 .. n - 1 : stack'[k] = stack[k]
        /\ stack'[n].fn = "connected"
    BY <1>0, <1>5, <2>0, ConnectStack
  <2> QED
    BY <1>0, <2>1
<1>6. CASE connected
  <2>1. /\ n > 0 /\ \A k \in 1 .. n - 1 : stack'[k] = stack[k]
        /\ \/ /\ Len(stack') = n + 1 /\ stack'[n].fn = "connected"
              /\ stack'[n + 1].fn = "fetch_ppd"
           \/ Len(stack') = n - 1
    BY <1>6, WalkStack
  <2> QED
    BY <1>0, <2>1
<1>7. CASE UNCHANGED vars \/ \E q \in Queues : ChangeAtServer(q)
  BY <1>7 DEF vars, ChangeAtServer
<1> QED
  BY Zenon, <1>1, <1>2, <1>3, <1>4, <1>5, <1>6, <1>7 DEF Next, Program

\* An entry of a list was one before, or is of the fetch that has just been queued.
LEMMA EntryOrigin ==
    ASSUME Control, [Next]_vars, NEW l \in 1 .. Len(lists'), NEW j \in 1 .. Len(lists'[l])
    PROVE  \/ /\ l \in 1 .. Len(lists) /\ j \in 1 .. Len(lists[l])
              /\ lists'[l][j] = lists[l][j]
           \/ LET f == stack[Len(stack)]
              IN  /\ Len(stack) \in Nat /\ Len(stack) > 0 /\ f.fn = "fetch_ppd"
                  /\ f.name \in Addrs /\ f.callback \in Requests
                  /\ lists'[l][j] = [qname |-> f.name, method |-> f.callback]
<1>1. CASE QueueRequest
  <2> DEFINE f == stack[Len(stack)]
  <2>1. lists \in Seq(Seq(Entries)) /\ queued \in 0 .. Len(lists) /\ stack \in Seq(Frames)
    BY DEF Control
  <2>2. /\ Len(stack) \in Nat /\ Len(stack) > 0 /\ f.fn = "fetch_ppd"
        /\ f.name \in Addrs /\ f.callback \in Requests /\ insert_list(f.name, f.callback)
    BY <1>1, <2>1, QueueStack
  <2> HIDE DEF f
  <2>3. \/ lists'[l][j] = [qname |-> f.name, method |-> f.callback]
        \/ /\ l \in 1 .. Len(lists) /\ j \in 1 .. Len(lists[l]) /\ lists'[l][j] = lists[l][j]
    <3>1. PICK a \in Addrs, r \in Requests : insert_list(a, r) /\ a = f.name /\ r = f.callback
      BY <2>2
    <3> DEFINE entry == [qname |-> a, method |-> r]
    <3>s. lists \in Seq(Seq(Entries)) /\ queued \in 0 .. Len(lists) /\ insert_list(a, r)
      BY <2>1, <3>1
    <3>t. \A k \in 1 .. Len(lists') : \A h \in 1 .. Len(lists'[k]) :
             \/ lists'[k][h] = entry
             \/ /\ k \in 1 .. Len(lists) /\ h \in 1 .. Len(lists[k])
                /\ lists'[k][h] = lists[k][h]
      BY <3>s, ListInserted
    <3>2. \/ lists'[l][j] = entry
          \/ /\ l \in 1 .. Len(lists) /\ j \in 1 .. Len(lists[l]) /\ lists'[l][j] = lists[l][j]
      BY Zenon, <3>t
    <3> QED
      BY Zenon, <3>1, <3>2
  <2> QED
    BY Zenon, <2>2, <2>3 DEF f
<1>2. CASE ~QueueRequest
  <2>1. lists' = lists
    <3>1. CASE CheckUpToDate \/ Download \/ Deliver
      BY <3>1, FetchKinds
    <3>2. CASE ~(CheckUpToDate \/ Download \/ Deliver)
      BY Zenon, <1>2, <3>2
         DEF Next, Program, ChangePPD, ChangeAtServer, CloseWindow, Complete, self_connect,
             connected, vars, cacheVars
    <3> QED
      BY <3>1, <3>2
  <2> QED
    BY <2>1
<1> QED
  BY <1>1, <1>2

-----------------------------------------------------------------------------
(* One window for each request, as long as no connection failed. *)

\* Only a ChangePPD call that was made is handled, fetched for, queued or called back.
Sent ==
    /\ \A i \in 1 .. Len(stack) :
          stack[i].fn = "ChangePPD" => request[stack[i].request].status # "unsent"
    /\ \A i \in 1 .. Len(stack) :
          stack[i].fn = "fetch_ppd" => request[stack[i].callback].status # "unsent"
    /\ \A l \in 1 .. Len(lists) : \A j \in 1 .. Len(lists[l]) :
          request[lists[l][j].method].status # "unsent"
    /\ \A r \in Requests : request[r].status = "unsent" => delivered[r] = <<>>

\* Its first walk through the queue finds one request, because its walk follows the
\* one connection attempt and the list is kept: whoever is about to be called back
\* has not been yet, and ref_data is its own.
OneToken ==
    failures = 0 =>
      /\ lists = <<>> \/ (Len(lists) = 1 /\ Len(lists[1]) = 1)
      /\ \A i \in 1 .. Len(stack) :
            /\ stack[i].fn = "fetch_ppd" =>
                  delivered[stack[i].callback] = <<>> /\ ref_data = stack[i].callback
            /\ stack[i].fn = "self_connect" =>
                  /\ ~cups /\ lists # <<>>
                  /\ delivered[lists[1][1].method] = <<>> /\ ref_data = lists[1][1].method
            /\ stack[i].fn = "connected" =>
                  /\ cups /\ lists # <<>> /\ stack[i].list = 1
                  /\ stack[i].next = 1 =>
                        /\ i = Len(stack)
                        /\ delivered[lists[1][1].method] = <<>> /\ ref_data = lists[1][1].method
      /\ ~cups => cache = <<>> /\ modtimes = <<>> /\ (lists = <<>> \/ Running("self_connect"))
      /\ \A r \in Requests : delivered[r] = <<>> \/ delivered[r] = <<delivered[r][1]>>
      /\ \A w \in shown : w[1] = w[2]


LEMMA StatusKept ==
    ASSUME Types, Control, [Next]_vars, NEW r \in Requests, request[r].status # "unsent"
    PROVE  request'[r].status # "unsent" /\ request'[r].queue = request[r].queue
<1>0. stack \in Seq(Frames)
  BY DEF Control
<1>1. ASSUME NEW p \in Requests, NEW q \in Queues, NEW a \in Addrs, ChangePPD(p, q, a)
      PROVE  request'[r] = request[r]
  <2>1. request[p].status = "unsent"
    BY <1>1 DEF ChangePPD
  <2>2. r # p
    BY <2>1
  <2> QED
    BY <1>1, <2>2, RequestMade
<1>2. CASE Complete
  <2> DEFINE p == stack[Len(stack)].request
  <2>1. /\ request'[p].queue = request[p].queue /\ request'[p].status = "answered"
        /\ \A o \in Requests \ {p} : request'[o] = request[o]
    BY <1>0, <1>2, RequestAnswered
  <2> HIDE DEF p
  <2> QED
    BY <2>1
<1>3. CASE CheckUpToDate \/ Download \/ Deliver
  BY <1>3, FetchKinds
<1>4. CASE ~(Complete \/ CheckUpToDate \/ Download \/ Deliver)
  <2>1. request' = request \/ \E p \in Requests, q \in Queues, a \in Addrs : ChangePPD(p, q, a)
    BY Zenon, <1>4
       DEF Next, Program, ChangeAtServer, CloseWindow, QueueRequest, self_connect, connected,
           vars, cacheVars
  <2> QED
    BY <1>1, <2>1
<1> QED
  BY <1>2, <1>3, <1>4

LEMMA SentStep ==
    ASSUME Types, Control, Sent, [Next]_vars
    PROVE  Sent'
<1>0. /\ stack \in Seq(Frames) /\ lists \in Seq(Seq(Entries))
      /\ \A i \in 1 .. Len(stack) : stack[i].fn = "fetch_ppd" => stack[i].callback \in Requests
      /\ \A i \in 1 .. Len(stack) :
            stack[i].fn = "fetch_ppd" => request[stack[i].callback].status # "unsent"
  BY StackTop, FrameFields DEF Control, Sent
<1>s. stack \in Seq(Frames) /\ Len(stack) \in Nat
  BY <1>0, LenProperties
<1>e. \A l \in 1 .. Len(lists) : \A j \in 1 .. Len(lists[l]) :
         lists[l][j].method \in Requests /\ request[lists[l][j].method].status # "unsent"
  BY <1>0, EntryFields DEF Sent
<1>k. \A r \in Requests : request[r].status # "unsent" => request'[r].status # "unsent"
  BY StatusKept
<1>1. ASSUME NEW i \in 1 .. Len(stack'), stack'[i].fn = "fetch_ppd"
      PROVE  request'[stack'[i].callback].status # "unsent"
  <2> DEFINE r == stack'[i].callback
  <2>1. \/ i \in 1 .. Len(stack) /\ stack[i].fn = "fetch_ppd" /\ r = stack[i].callback
        \/ \E l \in 1 .. Len(lists) : \E j \in 1 .. Len(lists[l]) : r = lists[l][j].method
        \/ \E p \in Requests, q \in Queues, a \in Addrs : ChangePPD(p, q, a) /\ r = p
    BY Zenon, <1>1, FetchOrigin
  <2> HIDE DEF r
  <2>2. CASE \E p \in Requests, q \in Queues, a \in Addrs : ChangePPD(p, q, a) /\ r = p
    <3>1. PICK p \in Requests, q \in Queues, a \in Addrs : ChangePPD(p, q, a) /\ r = p
      BY Zenon, <2>2
    <3>2. request'[p].status = "handled"
      BY <3>1, RequestMade
    <3> QED
      BY <3>1, <3>2 DEF r
  <2>3. CASE ~\E p \in Requests, q \in Queues, a \in Addrs : ChangePPD(p, q, a) /\ r = p
    <3>1. r \in Requests /\ request[r].status # "unsent"
      BY Zenon, <1>0, <1>e, <2>1, <2>3
    <3> QED
      BY <1>k, <3>1 DEF r
  <2> QED
    BY <2>2, <2>3
<1>h. ASSUME NEW i \in 1 .. Len(stack'), stack'[i].fn = "ChangePPD"
      PROVE  request'[stack'[i].request].status # "unsent"
  <2>1. \/ i \in 1 .. Len(stack) /\ stack'[i] = stack[i]
        \/ \E r \in Requests, q \in Queues, a \in Addrs : ChangePPD(r, q, a) /\ stack'[i].request = r
    BY Zenon, <1>h, HandlerOrigin
  <2>2. CASE i \in 1 .. Len(stack) /\ stack'[i] = stack[i]
    <3> DEFINE r == stack[i].request
    <3>1. r \in Requests /\ request[r].status # "unsent"
      BY <1>s, <1>h, <2>2, StackTop, FrameFields DEF Sent
    <3> QED
      BY <1>k, <2>2, <3>1
  <2>3. CASE \E r \in Requests, q \in Queues, a \in Addrs :
                ChangePPD(r, q, a) /\ stack'[i].request = r
    <3>1. PICK r \in Requests, q \in Queues, a \in Addrs :
             ChangePPD(r, q, a) /\ stack'[i].request = r
      BY Zenon, <2>3
    <3>2. request'[r].status = "handled"
      BY <3>1, RequestMade
    <3> QED
      BY <3>1, <3>2
  <2> QED
    BY <2>1, <2>2, <2>3
<1>2. ASSUME NEW l \in 1 .. Len(lists'), NEW j \in 1 .. Len(lists'[l])
      PROVE  request'[lists'[l][j].method].status # "unsent"
  <2> DEFINE f == stack[Len(stack)]
  <2>1. \/ /\ l \in 1 .. Len(lists) /\ j \in 1 .. Len(lists[l]) /\ lists'[l][j] = lists[l][j]
        \/ /\ Len(stack) \in Nat /\ Len(stack) > 0 /\ f.fn = "fetch_ppd"
           /\ lists'[l][j].method = f.callback
    <3>1. \/ /\ l \in 1 .. Len(lists) /\ j \in 1 .. Len(lists[l]) /\ lists'[l][j] = lists[l][j]
          \/ /\ Len(stack) \in Nat /\ Len(stack) > 0 /\ f.fn = "fetch_ppd"
             /\ lists'[l][j] = [qname |-> f.name, method |-> f.callback]
      BY Zenon, EntryOrigin
    <3> QED
      BY <3>1
  <2>2. CASE l \in 1 .. Len(lists) /\ j \in 1 .. Len(lists[l]) /\ lists'[l][j] = lists[l][j]
    BY <1>e, <1>k, <2>2
  <2>3. CASE /\ Len(stack) \in Nat /\ Len(stack) > 0 /\ f.fn = "fetch_ppd"
             /\ lists'[l][j].method = f.callback
    <3>1. Len(stack) \in 1 .. Len(stack)
      BY <2>3
    <3> QED
      BY <1>0, <1>k, <2>3, <3>1
  <2> QED
    BY <2>1, <2>2, <2>3
<1>3. ASSUME NEW r \in Requests, request'[r].status = "unsent"
      PROVE  delivered'[r] = <<>>
  <2>1. request[r].status = "unsent" /\ delivered[r] = <<>>
    BY <1>k, <1>3 DEF Sent
  <2>2. CASE CheckUpToDate \/ Download \/ Deliver
    <3> DEFINE p == stack[Len(stack)].callback
    <3>1. /\ p \in Requests
          /\ \/ UNCHANGED delivered
             \/ \E file : delivered' = [delivered EXCEPT ![p] = Append(@, file)]
      BY <1>0, <2>2, CallbackCalled
    <3>2. request[p].status # "unsent"
      <4>1. Len(stack) \in 1 .. Len(stack) /\ stack[Len(stack)].fn = "fetch_ppd"
        <5>1. Len(stack) > 0 /\ stack[Len(stack)].fn = "fetch_ppd"
          BY <1>s, <2>2, FetchStack
        <5> QED
          BY <1>s, <5>1
      <4> QED
        BY <1>0, <4>1
    <3> HIDE DEF p
    <3>3. r # p
      BY <2>1, <3>2
    <3>4. DOMAIN delivered = Requests
      BY DEF Types
    <3> QED
      BY <2>1, <3>1, <3>3, <3>4
  <2>3. CASE ~(CheckUpToDate \/ Download \/ Deliver)
    <3>1. delivered' = delivered
      BY Zenon, <2>3
         DEF Next, Program, ChangePPD, ChangeAtServer, CloseWindow, Complete, QueueRequest,
             self_connect, connected, vars, cacheVars
    <3> QED
      BY <2>1, <3>1
  <2> QED
    BY <2>2, <2>3
<1> QED
  BY <1>1, <1>2, <1>3, <1>h DEF Sent

LEMMA OneTokenInit == Init => OneToken
<1> SUFFICES ASSUME Init PROVE OneToken
  OBVIOUS
<1>1. /\ stack = <<>> /\ lists = <<>> /\ cache = <<>> /\ modtimes = <<>> /\ shown = {}
      /\ \A r \in Requests : delivered[r] = <<>>
  BY DEF Init
<1> QED
  BY <1>1, EmptySeq DEF OneToken

LEMMA OneTokenStep ==
    ASSUME Types, Control, Sent, OneToken, [Next]_vars
    PROVE  OneToken'
<1> DEFINE n == Len(stack)
           first == lists[1][1].method
           Token(r) == delivered[r] = <<>> /\ ref_data = r
           Goal(i) ==
              /\ stack'[i].fn = "fetch_ppd" =>
                    delivered'[stack'[i].callback] = <<>> /\ ref_data' = stack'[i].callback
              /\ stack'[i].fn = "self_connect" =>
                    /\ ~cups' /\ lists' # <<>>
                    /\ delivered'[lists'[1][1].method] = <<>> /\ ref_data' = lists'[1][1].method
              /\ stack'[i].fn = "connected" =>
                    /\ cups' /\ lists' # <<>> /\ stack'[i].list = 1
                    /\ stack'[i].next = 1 =>
                          /\ i = Len(stack')
                          /\ delivered'[lists'[1][1].method] = <<>>
                          /\ ref_data' = lists'[1][1].method
           Queue == lists = <<>> \/ (Len(lists) = 1 /\ Len(lists[1]) = 1)
           Unused == ~cups => /\ cache = <<>> /\ modtimes = <<>>
                              /\ lists = <<>> \/ Running("self_connect")
           Once == /\ \A r \in Requests : delivered[r] = <<>> \/ delivered[r] = <<delivered[r][1]>>
                   /\ \A w \in shown : w[1] = w[2]
<1>s. stack \in Seq(Frames) /\ n \in Nat /\ lists \in Seq(Seq(Entries))
  BY LenProperties DEF Control
<1>r. \A fn : Running(fn) <=> n > 0 /\ stack[n].fn = fn
  BY <1>s, StackTop
<1>c. \A i \in 1 .. n : stack[i].fn \in {"fetch_ppd", "self_connect"} => i = n
  BY DEF Control
<1> SUFFICES ASSUME failures' = 0 PROVE OneToken'
  BY Zenon DEF OneToken
<1>a. ASSUME NEW ok \in BOOLEAN, self_connect(ok) PROVE failures = 0 /\ cups'
  <2>1. cups' = ok /\ failures' = IF ok THEN failures ELSE failures + 1
    BY Zenon, <1>a DEF self_connect, Async_Connection, IPPConnection
  <2>2. ok /\ failures' = failures
    BY <2>1 DEF Types
  <2> QED
    BY Zenon, <2>1, <2>2
<1>1. failures = 0
  <2>1. ASSUME NEW ok \in BOOLEAN, self_connect(ok) PROVE failures = 0
    BY <1>a, <2>1
  <2>2. CASE CheckUpToDate \/ Download \/ Deliver
    BY <2>2, FetchKinds
  <2>3. CASE ~(CheckUpToDate \/ Download \/ Deliver) /\ ~\E ok \in BOOLEAN : self_connect(ok)
    BY Zenon, <2>3
       DEF Next, Program, ChangePPD, ChangeAtServer, CloseWindow, Complete, QueueRequest,
           connected, vars, cacheVars
  <2> QED
    BY <2>1, <2>2, <2>3
<1>q. Queue
  BY Zenon, <1>1 DEF OneToken
<1>u. Unused
  BY Zenon, <1>1 DEF OneToken
<1>o. Once
  BY Zenon, <1>1 DEF OneToken
<1>t. \A i \in 1 .. n :
         /\ stack[i].fn = "fetch_ppd" => Token(stack[i].callback)
         /\ stack[i].fn = "self_connect" => ~cups /\ lists # <<>> /\ Token(first)
         /\ stack[i].fn = "connected" =>
              /\ cups /\ lists # <<>> /\ stack[i].list = 1
              /\ stack[i].next = 1 => i = n /\ Token(first)
  BY Zenon, <1>1 DEF OneToken
<1>2. ASSUME Queue', Unused', Once', \A i \in 1 .. Len(stack') : Goal(i)
      PROVE  OneToken'
  BY Zenon, <1>2 DEF OneToken
<1>k. ASSUME NEW i \in 1 .. n - 1, stack'[i] = stack[i],
             cups => cups', lists # <<>> => lists' # <<>>
      PROVE  Goal(i)
  <2>1. i \in 1 .. n /\ i # n
    BY <1>s
  <2>2. stack[i].fn # "fetch_ppd" /\ stack[i].fn # "self_connect"
    BY <1>c, <2>1
  <2> QED
    BY Zenon, <1>k, <1>t, <2>1, <2>2
<1>3. ASSUME NEW r \in Requests, NEW q \in Queues, NEW a \in Addrs, ChangePPD(r, q, a)
      PROVE  OneToken'
  <2>1. /\ Len(stack') = n + 2
        /\ n > 0 => stack[n].fn = "g_application_run"
        /\ \A i \in 1 .. n : stack'[i] = stack[i]
        /\ stack'[n + 1].fn = "ChangePPD"
        /\ stack'[n + 2].fn = "fetch_ppd" /\ stack'[n + 2].callback = r
    BY <1>s, <1>3, CallStack
  <2>2. /\ UNCHANGED <<lists, cups, cache, modtimes, delivered, shown>>
        /\ ref_data' = r /\ delivered[r] = <<>>
    BY <1>3 DEF ChangePPD, cacheVars, Sent
  <2>3. ~Running("self_connect")
    BY <1>r, <2>1
  <2>4. Queue' /\ Unused' /\ Once'
    BY Zenon, <1>q, <1>u, <1>o, <2>2, <2>3
  <2>5. ASSUME NEW i \in 1 .. Len(stack') PROVE Goal(i)
    <3>1. CASE i \in 1 .. n - 1
      <4>1. stack'[i] = stack[i]
        BY <1>s, <2>1, <3>1
      <4> HIDE DEF Goal
      <4> QED
        BY Zenon, <1>k, <2>2, <3>1, <4>1
    <3>2. CASE i = n \/ i = n + 1
      <4>1. stack'[i].fn \in {"g_application_run", "ChangePPD"}
        BY <1>s, <2>1, <3>2
      <4> QED
        BY <4>1
    <3>3. CASE i = n + 2
      BY <2>1, <2>2, <3>3
    <3>4. i \in 1 .. n - 1 \/ i = n \/ i = n + 1 \/ i = n + 2
      BY <1>s, <2>1
    <3> QED
      BY Zenon, <3>1, <3>2, <3>3, <3>4
  <2> HIDE DEF Goal, Queue, Unused, Once
  <2> QED
    BY <1>2, <2>4, <2>5
<1>4. CASE Complete \/ CloseWindow
  <2>1. /\ n > 0 /\ Len(stack') = n - 1 /\ \A i \in 1 .. n - 1 : stack'[i] = stack[i]
        /\ stack[n].fn \in {"ChangePPD", "g_application_run"}
    BY <1>s, <1>4, PoppedStack
  <2>2. UNCHANGED <<lists, cups, cache, modtimes, delivered, shown>>
    BY <1>4 DEF Complete, CloseWindow, cacheVars
  <2>3. ~Running("self_connect")
    BY <1>r, <2>1
  <2>4. Queue' /\ Unused' /\ Once'
    BY Zenon, <1>q, <1>u, <1>o, <2>2, <2>3
  <2>5. ASSUME NEW i \in 1 .. Len(stack') PROVE Goal(i)
    <3>1. i \in 1 .. n - 1 /\ stack'[i] = stack[i]
      BY <1>s, <2>1
    <3> HIDE DEF Goal
    <3> QED
      BY Zenon, <1>k, <2>2, <3>1
  <2> HIDE DEF Goal, Queue, Unused, Once
  <2> QED
    BY <1>2, <2>4, <2>5
<1>5. CASE CheckUpToDate \/ Download \/ Deliver
  <2> DEFINE r == stack[n].callback
  <2>1. /\ n > 0 /\ Len(stack') \in {n - 1, n} /\ \A i \in 1 .. n - 1 : stack'[i] = stack[i]
        /\ stack[n].fn = "fetch_ppd"
        /\ Len(stack') = n =>
              \/ stack'[n].fn = "g_application_run"
              \/ /\ stack'[n].fn = "fetch_ppd" /\ stack'[n].callback = r
                 /\ UNCHANGED <<delivered, shown>>
    BY <1>s, <1>5, FetchStack
  <2>2. UNCHANGED <<lists, cups, ref_data>>
    BY <1>5, FetchKinds
  <2>3. delivered[r] = <<>> /\ ref_data = r
    BY <1>s, <1>t, <2>1
  <2>4. cups
    <3>1. SUFFICES ASSUME ~cups PROVE FALSE
      OBVIOUS
    <3>2. Len(cache) = 0 /\ Len(modtimes) = 0
      BY <1>u, <3>1, EmptySeq
    <3>3. \A name : Find(cache, name) = 0 /\ Find(modtimes, name) = 0
      BY <3>2, Found
    <3> QED
      BY Zenon, <1>5, <3>1, <3>3
         DEF CheckUpToDate, Download, Deliver, find_cache, find_modtimes
  <2>5. Queue' /\ Unused'
    BY Zenon, <1>q, <2>2, <2>4
  <2>6. Once'
    <3>1. CASE UNCHANGED <<delivered, shown>>
      BY <1>o, <3>1
    <3>2. CASE ~UNCHANGED <<delivered, shown>>
      <4>1. /\ r \in Requests /\ shown' \in {shown, shown \cup {<<r, ref_data>>}}
            /\ \E file : delivered' = [delivered EXCEPT ![r] = Append(@, file)]
        BY <1>s, <1>5, <3>2, CallbackCalled
      <4>2. PICK file : delivered' = [delivered EXCEPT ![r] = Append(@, file)]
        BY <4>1
      <4>3. /\ delivered'[r] = <<file>>
            /\ \A p \in Requests \ {r} : delivered'[p] = delivered[p]
        BY <2>3, <4>1, <4>2 DEF Types
      <4>4. ASSUME NEW p \in Requests
            PROVE  delivered'[p] = <<>> \/ delivered'[p] = <<delivered'[p][1]>>
        <5>1. CASE p = r
          BY <4>3, <5>1
        <5>2. CASE p # r
          BY <1>o, <4>3, <5>2
        <5> QED
          BY <5>1, <5>2
      <4>5. \A w \in shown' : w[1] = w[2]
        BY <1>o, <2>3, <4>1
      <4> QED
        BY <4>4, <4>5
    <3> QED
      BY <3>1, <3>2
  <2>7. ASSUME NEW i \in 1 .. Len(stack') PROVE Goal(i)
    <3>1. CASE i \in 1 .. n - 1
      <4>1. stack'[i] = stack[i]
        BY <2>1, <3>1
      <4> HIDE DEF Goal
      <4> QED
        BY Zenon, <1>k, <2>2, <3>1, <4>1
    <3>2. CASE ~(i \in 1 .. n - 1)
      <4>1. i = n /\ Len(stack') = n
        BY <1>s, <2>1, <3>2
      <4> QED
        BY <2>1, <2>2, <2>3, <4>1
    <3> QED
      BY <3>1, <3>2
  <2> HIDE DEF Goal, Queue, Unused, Once
  <2> QED
    BY <1>2, <2>5, <2>6, <2>7
<1>6. CASE QueueRequest
  <2> DEFINE f == stack[n]
  <2>1. /\ n > 0 /\ \A i \in 1 .. n - 1 : stack'[i] = stack[i]
        /\ f.fn = "fetch_ppd" /\ f.name \in Addrs /\ f.callback \in Requests
        /\ insert_list(f.name, f.callback)
        /\ IF connecting THEN Len(stack') = n - 1 /\ connecting' = connecting
           ELSE /\ Len(stack') = n /\ stack'[n].fn = "self_connect" /\ connecting' = TRUE
    BY <1>s, <1>6, QueueStack DEF Control
  <2>2. delivered[f.callback] = <<>> /\ ref_data = f.callback
    BY <1>s, <1>t, <2>1
  <2>3. /\ ~cups /\ ~cups'
        /\ UNCHANGED <<cache, modtimes, ref_data, delivered, shown>>
    BY <1>6 DEF QueueRequest
  <2>4. ~Running("self_connect") /\ ~connecting
    BY <1>r, <2>1 DEF Control
  <2>5. lists = <<>> /\ cache = <<>> /\ modtimes = <<>>
    BY <1>u, <2>3, <2>4
  <2> HIDE DEF f
  <2>6. /\ Len(lists') = 1 /\ Len(lists'[1]) = 1 /\ lists'[1][1].method = f.callback
        /\ lists' # <<>>
    <3>1. queued \in 0 .. Len(lists)
      BY DEF Control
    <3>2. /\ lists' \in Seq(Seq(Entries)) /\ queued' \in 1 .. Len(lists')
          /\ Len(lists') = 1 /\ Len(lists'[1]) = 1
          /\ lists'[queued'][Len(lists'[queued'])] = [qname |-> f.name, method |-> f.callback]
      BY <1>s, <2>1, <2>5, <3>1, ListInserted
    <3>3. lists' # <<>>
      <4>1. Len(<<>>) = 0
        BY EmptySeq
      <4> QED
        BY <3>2, <4>1
    <3>4. queued' = 1
      BY <3>2
    <3> QED
      BY <3>2, <3>3, <3>4
  <2>7. Len(stack') = n /\ stack'[n].fn = "self_connect"
    BY <2>1, <2>4
  <2>8. (Running("self_connect"))'
    BY <1>s, <2>1, <2>7, EmptySeq DEF Running, Last
  <2>9. Queue' /\ Unused' /\ Once'
    BY Zenon, <1>o, <2>3, <2>5, <2>6, <2>8
  <2>10. ASSUME NEW i \in 1 .. Len(stack') PROVE Goal(i)
    <3>1. CASE i \in 1 .. n - 1
      <4>1. stack'[i] = stack[i]
        BY <2>1, <3>1
      <4> HIDE DEF Goal
      <4> QED
        BY Zenon, <1>k, <2>3, <2>6, <3>1, <4>1
    <3>2. CASE ~(i \in 1 .. n - 1)
      <4>1. i = n
        BY <1>s, <2>7, <3>2
      <4> QED
        BY Zenon, <2>2, <2>3, <2>6, <2>7, <4>1
    <3> QED
      BY <3>1, <3>2
  <2> HIDE DEF Goal, Queue, Unused, Once
  <2> QED
    BY <1>2, <2>9, <2>10
<1>7. ASSUME NEW ok \in BOOLEAN, self_connect(ok) PROVE OneToken'
  <2>1. queued \in Nat /\ queued \in 0 .. Len(lists) /\ (Running("self_connect") => queued # 0)
    BY <1>s, LenProperties DEF Control
  <2>2. /\ n > 0 /\ Len(stack') = n /\ \A i \in 1 .. n - 1 : stack'[i] = stack[i]
        /\ stack[n].fn = "self_connect"
        /\ stack'[n].fn = "connected" /\ stack'[n].list = queued /\ stack'[n].next = 1
    BY <1>s, <1>7, <2>1, ConnectStack
  <2>3. cups' /\ UNCHANGED <<lists, ref_data, delivered, shown>>
    BY <1>7, <1>a DEF self_connect
  <2>4. lists # <<>> /\ delivered[first] = <<>> /\ ref_data = first /\ ~cups
    BY <1>s, <1>t, <2>2
  <2>5. queued = 1
    <3>1. queued # 0
      BY <1>r, <2>1, <2>2
    <3>2. Len(lists) = 1
      BY <1>q, <2>4
    <3> QED
      BY <2>1, <3>1, <3>2
  <2>6. Queue' /\ Unused' /\ Once'
    BY Zenon, <1>q, <1>o, <2>3
  <2>7. ASSUME NEW i \in 1 .. Len(stack') PROVE Goal(i)
    <3>1. CASE i \in 1 .. n - 1
      <4>1. stack'[i] = stack[i]
        BY <2>2, <3>1
      <4> HIDE DEF Goal
      <4> QED
        BY Zenon, <1>k, <2>3, <3>1, <4>1
    <3>2. CASE ~(i \in 1 .. n - 1)
      <4>1. i = n
        BY <1>s, <2>2, <3>2
      <4>2. /\ stack'[i].fn # "fetch_ppd" /\ stack'[i].fn # "self_connect"
            /\ stack'[i].list = 1
        BY <2>2, <2>5, <4>1
      <4> QED
        BY Zenon, <2>2, <2>3, <2>4, <4>1, <4>2
    <3> QED
      BY <3>1, <3>2
  <2> HIDE DEF Goal, Queue, Unused, Once
  <2> QED
    BY <1>2, <2>6, <2>7
<1>8. CASE connected
  <2> DEFINE f == stack[n]
             e == lists[f.list][f.next]
  <2>1. /\ n > 0 /\ f.fn = "connected" /\ f.next \in Nat \ {0}
        /\ \A i \in 1 .. n - 1 : stack'[i] = stack[i]
        /\ \/ /\ f.next \in 1 .. Len(lists[f.list])
              /\ Len(stack') = n + 1
              /\ stack'[n].fn = "connected" /\ stack'[n].list = f.list
              /\ stack'[n].next = f.next + 1
              /\ stack'[n + 1].fn = "fetch_ppd" /\ stack'[n + 1].callback = e.method
           \/ Len(stack') = n - 1
    BY <1>8, WalkStack
  <2>2. UNCHANGED <<lists, cups, cache, modtimes, ref_data, delivered, shown>>
    BY <1>8 DEF connected
  <2>3. /\ cups /\ lists # <<>> /\ f.list = 1
        /\ f.next = 1 => delivered[first] = <<>> /\ ref_data = first
    BY <1>s, <1>t, <2>1
  <2>4. Queue' /\ Unused' /\ Once'
    BY Zenon, <1>q, <1>o, <2>2, <2>3
  <2>5. ASSUME NEW i \in 1 .. Len(stack') PROVE Goal(i)
    <3>1. CASE i \in 1 .. n - 1
      <4>1. stack'[i] = stack[i]
        BY <2>1, <3>1
      <4> HIDE DEF Goal
      <4> QED
        BY Zenon, <1>k, <2>2, <3>1, <4>1
    <3>2. CASE ~(i \in 1 .. n - 1)
      <4>1. Len(stack') = n + 1 /\ (i = n \/ i = n + 1)
        BY <1>s, <2>1, <3>2
      <4>2. f.next = 1 /\ e = lists[1][1]
        <5>1. f.next \in 1 .. Len(lists[f.list])
          BY <1>s, <2>1, <4>1
        <5>2. Len(lists[f.list]) = 1
          BY <1>q, <2>3
        <5>3. f.next = 1
          BY <5>1, <5>2
        <5> QED
          BY <2>3, <5>3
      <4>3. /\ stack'[n].fn = "connected" /\ stack'[n].list = 1 /\ stack'[n].next = 2
            /\ stack'[n + 1].fn = "fetch_ppd" /\ stack'[n + 1].callback = first
        BY <1>s, <2>1, <2>3, <4>1, <4>2
      <4>4. CASE i = n
        BY <2>2, <2>3, <4>3, <4>4
      <4>5. CASE i = n + 1
        BY <2>2, <2>3, <4>2, <4>3, <4>5
      <4> QED
        BY <4>1, <4>4, <4>5
    <3> QED
      BY <3>1, <3>2
  <2> HIDE DEF Goal, Queue, Unused, Once
  <2> QED
    BY <1>2, <2>4, <2>5
<1>9. CASE UNCHANGED vars \/ \E q \in Queues : ChangeAtServer(q)
  <2>1. UNCHANGED <<stack, lists, cups, cache, modtimes, ref_data, delivered, shown>>
    BY <1>9 DEF vars, ChangeAtServer, cacheVars
  <2> QED
    BY Zenon, <1>1, <2>1 DEF OneToken, Running
<1> QED
  BY Zenon, <1>3, <1>4, <1>5, <1>6, <1>7, <1>8, <1>9 DEF Next, Program

\* As long as no connection attempt has failed, no callback is called twice, and a
\* window shows the device id of the request that it was opened for, whatever calls are
\* nested in windows meanwhile and whenever strings are freed.
THEOREM WindowsCorrect == Spec => []OneWindowWithoutFailures
<1>1. Init => Sent
  BY DEF Init, Sent
<1>2. Control /\ Types /\ Sent /\ [Next]_vars => Sent'
  BY SentStep
<1>3. Control /\ Types /\ Sent /\ OneToken /\ [Next]_vars => OneToken'
  BY OneTokenStep
<1>4. OneToken => OneWindowWithoutFailures
  <2>1. Len(<<>>) = 0 /\ \A x : Len(<<x>>) = 1
    BY EmptySeq
  <2> QED
    BY <2>1 DEF OneToken, OneWindowWithoutFailures
<1> QED
  BY <1>1, <1>2, <1>3, <1>4, TypesCorrect, OneTokenInit, PTL DEF Spec

-----------------------------------------------------------------------------
(* The right file, and no missing one, if strings are not freed. *)

Called == {r \in Requests : request[r].status # "unsent"}

CacheEntries == [qname : Addrs, fp : Files]
ModTimes == [qname : Addrs, time : Versions]

\* A string is that of the call whose number it has, wherever it has been put.
Names ==
    /\ \A r \in Called : mem[r] = request[r].queue /\ mem[r] \in Queues
    /\ \A i \in 1 .. Len(stack) : stack[i].fn = "fetch_ppd" => stack[i].name = stack[i].callback
    /\ \A l \in 1 .. Len(lists) : \A j \in 1 .. Len(lists[l]) : lists[l][j].qname = lists[l][j].method
    /\ cache \in Seq(CacheEntries)
    /\ modtimes \in Seq(ModTimes)
    /\ \A i \in 1 .. Len(cache) : cache[i].qname \in Called /\ cache[i].fp.queue = mem[cache[i].qname]
    /\ \A i \in 1 .. Len(modtimes) : modtimes[i].qname \in Called
    /\ \A r \in Requests : /\ delivered[r] \in Seq(Files \cup {NoFile})
                           /\ \A i \in 1 .. Len(delivered[r]) :
                                 delivered[r][i] # NoFile => delivered[r][i].queue = request[r].queue

\* Somebody has been given a file of queue q.
FileOf(q) == \E p \in Requests : \E i \in 1 .. Len(delivered[p]) : delivered[p][i].queue = q

\* Queue q has just been put into the cache, to be delivered next.
Cached(q) ==
    \E i \in 1 .. Len(stack) :
        stack[i].fn = "fetch_ppd" /\ stack[i].check_uptodate = FALSE /\ mem[stack[i].name] = q

\* The request will be fetched for: it is being so, or is in a list whose walk is to reach it.
Fetching(r) == \E i \in 1 .. Len(stack) : stack[i].fn = "fetch_ppd" /\ stack[i].callback = r
ToBeWalked(l, j) ==
    \E i \in 1 .. Len(stack) :
        \/ stack[i].fn = "self_connect" /\ queued = l
        \/ stack[i].fn = "connected" /\ stack[i].list = l /\ stack[i].next <= j
Waits(r) ==
    \/ Fetching(r)
    \/ \E l \in 1 .. Len(lists) : \E j \in 1 .. Len(lists[l]) :
          lists[l][j].method = r /\ ToBeWalked(l, j)

\* A modification time is stored together with a file, which is delivered next.
Known ==
    /\ \A i \in 1 .. Len(stack) :
          stack[i].fn = "fetch_ppd" /\ stack[i].check_uptodate = FALSE =>
              \E k \in 1 .. Len(cache) : mem[cache[k].qname] = mem[stack[i].name]
    /\ \A i \in 1 .. Len(modtimes) : FileOf(mem[modtimes[i].qname]) \/ Cached(mem[modtimes[i].qname])
    /\ \A r \in Called : delivered[r] # <<>> \/ Waits(r) \/ FileOf(request[r].queue)

\* What got_ppd3 does with the lists, and what it gives the callback.
LEMMA Got3 ==
    ASSUME NEW f, NEW answer, NEW times, NEW time, got_ppd3(f, answer, times, time),
           mem[f.name] \in Queues, server \in [Queues -> Versions], answer = "OK" => time \in Versions
    PROVE  \/ /\ answer = "NOT_MODIFIED"
              /\ Return /\ UNCHANGED <<cache, modtimes, delivered>>
           \/ /\ \E file \in Files : /\ file.queue = mem[f.name]
                                     /\ cache' = Append(cache, [qname |-> f.name, fp |-> file])
              /\ \E t \in Versions : modtimes' = Append(times, [qname |-> f.name, time |-> t])
              /\ ReturnTo(Fetch(f.name, f.callback, FALSE)) /\ delivered' = delivered
           \/ /\ cache' = cache /\ modtimes' = times
              /\ delivered' = [delivered EXCEPT ![f.callback] = Append(@, NoFile)]
<1>1. CASE answer = "NOT_MODIFIED"
  BY <1>1 DEF got_ppd3
<1>2. CASE answer = "OK"
  <2> DEFINE file == [queue |-> mem[f.name], version |-> server[mem[f.name]]]
  <2>1. /\ cache' = Append(cache, [qname |-> f.name, fp |-> file])
        /\ modtimes' = Append(times, [qname |-> f.name, time |-> time])
        /\ ReturnTo(Fetch(f.name, f.callback, FALSE)) /\ delivered' = delivered
    BY <1>2 DEF got_ppd3, insert_cache, insert_modtimes
  <2>2. file \in Files /\ file.queue = mem[f.name]
    BY DEF Files
  <2> HIDE DEF file
  <2> QED
    BY Zenon, <1>2, <2>1, <2>2
<1>3. CASE answer # "NOT_MODIFIED" /\ answer # "OK"
  <2>1. modtimes' = times /\ cache' = cache /\ Callback(f.callback, NoFile)
    BY <1>3 DEF got_ppd3
  <2> QED
    BY Zenon, <2>1 DEF Callback
<1> QED
  BY Zenon, <1>1, <1>2, <1>3

\* The outcomes of fetch_ppd: nothing, a file to deliver next, a failure, a file.
Silent(f) ==
    /\ f.check_uptodate = TRUE /\ \E i \in 1 .. Len(modtimes) : mem[modtimes[i].qname] = mem[f.name]
    /\ Return /\ UNCHANGED <<cache, modtimes, delivered>>
Fetched(f, times) ==
    /\ \E file \in Files : /\ file.queue = mem[f.name]
                           /\ cache' = Append(cache, [qname |-> f.name, fp |-> file])
    /\ \E t \in Versions : modtimes' = Append(times, [qname |-> f.name, time |-> t])
    /\ ReturnTo(Fetch(f.name, f.callback, FALSE)) /\ delivered' = delivered
Failed(f, times) ==
    /\ cache' = cache /\ modtimes' = times
    /\ delivered' = [delivered EXCEPT ![f.callback] = Append(@, NoFile)]
Delivered(f) ==
    /\ cache' = cache /\ modtimes' = modtimes
    /\ \E i \in 1 .. Len(cache) :
          /\ mem[cache[i].qname] = mem[f.name]
          /\ delivered' = [delivered EXCEPT ![f.callback] = Append(@, cache[i].fp)]
Retimed(times) ==
    /\ times \in Seq(ModTimes) /\ Len(times) = Len(modtimes)
    /\ \A i \in 1 .. Len(modtimes) : times[i].qname = modtimes[i].qname
NotYet(f) ==
    f.check_uptodate = TRUE \/ \A k \in 1 .. Len(cache) : mem[cache[k].qname] # mem[f.name]

LEMMA Outcomes ==
    ASSUME Types, Control, Sent, Names, CheckUpToDate \/ Download \/ Deliver
    PROVE  LET f == stack[Len(stack)]
           IN  \/ \E times : /\ Retimed(times) /\ NotYet(f)
                             /\ Silent(f) \/ Fetched(f, times) \/ Failed(f, times)
               \/ Delivered(f)
<1> DEFINE f == stack[Len(stack)]
           q == mem[f.name]
<1>1. /\ Last(stack) = f /\ f.name \in Addrs /\ f.callback \in Requests
      /\ f.check_uptodate \in BOOLEAN
  <2>1. Running("fetch_ppd") /\ stack \in Seq(Frames)
    BY FetchKinds DEF Control
  <2> QED
    BY <2>1, StackTop, FrameFields
<1>2. q \in Queues /\ f.name \in Called /\ server \in [Queues -> Versions]
  <2>1. Running("fetch_ppd") /\ stack \in Seq(Frames)
    BY FetchKinds DEF Control
  <2>2. Len(stack) \in 1 .. Len(stack) /\ f.fn = "fetch_ppd"
    BY <2>1, StackTop
  <2>3. f.name = f.callback /\ request[f.callback].status # "unsent"
    BY <2>2 DEF Names, Sent
  <2>4. f.name \in Called
    BY <1>1, <2>3 DEF Called
  <2> QED
    BY <2>4 DEF Names, Types
<1>c. cache \in Seq(CacheEntries) /\ modtimes \in Seq(ModTimes)
  BY DEF Names
<1>l. Len(cache) \in Nat /\ Len(modtimes) \in Nat
  BY <1>c, LenProperties
<1> HIDE DEF f
<1>3. CASE CheckUpToDate
  <2> DEFINE i == find_modtimes(q)
  <2>1. PICK answer \in Answers(q, modtimes[i].time) :
           LET times == [modtimes EXCEPT ![i].time = Stored(q, answer, @)]
           IN  got_ppd3(f, answer, times, times[1].time)
    BY Zenon, <1>1, <1>3 DEF CheckUpToDate
  <2>2. f.check_uptodate = TRUE /\ i # 0
    BY Zenon, <1>1, <1>3 DEF CheckUpToDate
  <2>3. i \in 1 .. Len(modtimes) /\ mem[modtimes[i].qname] = q
    BY <1>l, <2>2, Found DEF find_modtimes
  <2> DEFINE old == modtimes[i]
             new == [old EXCEPT !.time = Stored(q, answer, @)]
             times == [modtimes EXCEPT ![i] = new]
  <2>4. old \in ModTimes
    BY <1>c, <2>3, ElementOfSeq
  <2>5. new \in ModTimes /\ new.qname = old.qname
    BY <1>2, <2>4 DEF ModTimes, Stored
  <2>6. got_ppd3(f, answer, times, times[1].time)
    BY <2>1
  <2> HIDE DEF i, new, old
  <2>7. /\ times \in Seq(ModTimes) /\ Len(times) = Len(modtimes)
        /\ \A k \in 1 .. Len(modtimes) : times[k] = IF k = i THEN new ELSE modtimes[k]
    BY <1>c, <2>3, <2>5, ExceptSeq
  <2>8. times[1].time \in Versions
    <3>1. 1 \in 1 .. Len(times)
      BY <1>l, <2>3, <2>7
    <3>2. times[1] \in ModTimes
      BY <2>7, <3>1, ElementOfSeq
    <3> QED
      BY <3>2 DEF ModTimes
  <2>9. Retimed(times) /\ NotYet(f)
    BY <2>2, <2>5, <2>7 DEF Retimed, NotYet, old
  <2> HIDE DEF times
  <2>10. \/ /\ answer = "NOT_MODIFIED"
            /\ Return /\ UNCHANGED <<cache, modtimes, delivered>>
         \/ Fetched(f, times)
         \/ Failed(f, times)
    BY Zenon, <1>2, <2>6, <2>8, Got3 DEF Fetched, Failed
  <2>11. Silent(f) \/ Fetched(f, times) \/ Failed(f, times)
    BY Zenon, <2>2, <2>3, <2>10 DEF Silent
  <2> QED
    BY Zenon, <2>9, <2>11 DEF f
<1>4. CASE Download
  <2>1. PICK answer \in Answers(q, 0) : got_ppd3(f, answer, modtimes, Stored(q, answer, 0))
    BY Zenon, <1>1, <1>4 DEF Download
  <2>2. NotToCheck(f) /\ ~find_cache(q)
    BY Zenon, <1>1, <1>4 DEF Download
  <2>3. \A k \in 1 .. Len(cache) : mem[cache[k].qname] # q
    BY <1>l, <2>2, Found DEF find_cache
  <2>4. Retimed(modtimes) /\ NotYet(f)
    BY <1>c, <2>3 DEF Retimed, NotYet
  <2>5. answer = "OK" => Stored(q, answer, 0) \in Versions
    BY <1>2 DEF Stored
  <2>6. answer # "NOT_MODIFIED"
    <3>1. server[q] # 0
      BY <1>2 DEF Versions
    <3> QED
      BY <2>1, <3>1 DEF Answers
  <2>7. Fetched(f, modtimes) \/ Failed(f, modtimes)
    BY Zenon, <1>2, <2>1, <2>5, <2>6, Got3 DEF Fetched, Failed
  <2> QED
    BY Zenon, <2>4, <2>7 DEF f
<1>5. CASE Deliver
  <2>1. /\ find_cache(q) /\ UNCHANGED <<cache, modtimes>>
        /\ Callback(f.callback, find_file(q))
    BY Zenon, <1>1, <1>5 DEF Deliver, cacheVars
  <2>2. /\ Find(cache, q) \in 1 .. Len(cache)
        /\ mem[cache[Find(cache, q)].qname] = q
    BY <1>l, <2>1, Found DEF find_cache
  <2>3. delivered' = [delivered EXCEPT ![f.callback] = Append(@, cache[Find(cache, q)].fp)]
    BY Zenon, <2>1 DEF Callback, find_file
  <2>4. Delivered(f)
    BY Zenon, <2>1, <2>2, <2>3 DEF Delivered
  <2> QED
    BY <2>4 DEF f
<1> QED
  BY Zenon, <1>3, <1>4, <1>5 DEF f


LEMMA OnlyFetchGives ==
    ASSUME [Next]_vars, ~(CheckUpToDate \/ Download \/ Deliver)
    PROVE  UNCHANGED <<cache, modtimes, delivered>>
BY Zenon DEF Next, Program, ChangePPD, ChangeAtServer, CloseWindow, Complete, QueueRequest,
             self_connect, connected, vars, cacheVars

LEMMA MemKept ==
    ASSUME NamesPersist, Types, Control, [Next]_vars, NEW r \in Called
    PROVE  r \in Called' /\ mem'[r] = mem[r] /\ request'[r].queue = request[r].queue
<1>1. r \in Requests /\ request[r].status # "unsent"
  BY DEF Called
<1>2. request'[r].status # "unsent" /\ request'[r].queue = request[r].queue
  BY <1>1, StatusKept
<1>3. ASSUME NEW p \in Requests, NEW q \in Queues, NEW a \in Addrs, ChangePPD(p, q, a)
      PROVE  mem'[r] = mem[r]
  <2>1. a = p /\ request[p].status = "unsent" /\ mem' = [mem EXCEPT ![a] = q]
    BY Zenon, <1>3 DEF ChangePPD
  <2>2. r # a
    BY <1>1, <2>1
  <2> QED
    BY <1>1, <2>1, <2>2 DEF Types, Addrs
<1>4. mem'[r] = mem[r]
  <2>1. CASE CheckUpToDate \/ Download \/ Deliver
    BY <2>1, FetchKinds
  <2>2. CASE Complete
    BY Zenon, <2>2 DEF Complete
  <2>3. CASE ~(CheckUpToDate \/ Download \/ Deliver \/ Complete)
    <3>1. mem' = mem \/ \E p \in Requests, q \in Queues, a \in Addrs : ChangePPD(p, q, a)
      BY Zenon, <2>3
         DEF Next, Program, ChangeAtServer, CloseWindow, QueueRequest, self_connect, connected,
             vars, cacheVars
    <3> QED
      BY <1>3, <3>1
  <2> QED
    BY <2>1, <2>2, <2>3
<1> QED
  BY <1>1, <1>2, <1>4 DEF Called

LEMMA NewlyCalled ==
    ASSUME Types, Control, Sent, [Next]_vars, NEW r \in Called', r \notin Called
    PROVE  \E q \in Queues, a \in Addrs : ChangePPD(r, q, a)
<1>0. stack \in Seq(Frames) /\ r \in Requests /\ request'[r].status # "unsent"
      /\ request[r].status = "unsent"
  BY DEF Control, Called
<1>1. ASSUME NEW p \in Requests, NEW q \in Queues, NEW a \in Addrs, ChangePPD(p, q, a)
      PROVE  \E b \in Addrs : ChangePPD(r, q, b)
  <2>1. \A o \in Requests \ {p} : request'[o] = request[o]
    BY <1>1, RequestMade
  <2>2. r = p
    BY <1>0, <2>1
  <2> QED
    BY Zenon, <1>1, <2>2
<1>2. CASE Complete
  <2> DEFINE p == stack[Len(stack)].request
  <2>1. Running("ChangePPD")
    BY <1>2 DEF Complete
  <2>2. Len(stack) \in 1 .. Len(stack) /\ stack[Len(stack)].fn = "ChangePPD"
    BY <1>0, <2>1, StackTop
  <2>3. request[p].status # "unsent"
    BY <2>2 DEF Sent
  <2>4. \A o \in Requests \ {p} : request'[o] = request[o]
    BY <1>0, <1>2, RequestAnswered
  <2> HIDE DEF p
  <2> QED
    BY <1>0, <2>3, <2>4
<1>3. CASE ~Complete /\ ~\E p \in Requests, q \in Queues, a \in Addrs : ChangePPD(p, q, a)
  <2>1. request' = request
    <3>1. CASE CheckUpToDate \/ Download \/ Deliver
      BY <3>1, FetchKinds
    <3>2. CASE ~(CheckUpToDate \/ Download \/ Deliver)
      BY Zenon, <1>3, <3>2
         DEF Next, Program, ChangeAtServer, CloseWindow, QueueRequest, self_connect, connected,
             vars, cacheVars
    <3> QED
      BY <3>1, <3>2
  <2> QED
    BY <1>0, <2>1
<1> QED
  BY Zenon, <1>1, <1>2, <1>3


\* What is written below a call: only files of the queue that it names.
LEMMA FetchedNames ==
    ASSUME Types, Control, Sent, Names, CheckUpToDate \/ Download \/ Deliver
    PROVE  /\ cache' \in Seq(CacheEntries) /\ modtimes' \in Seq(ModTimes)
           /\ \A i \in 1 .. Len(cache') :
                 cache'[i].qname \in Called /\ cache'[i].fp.queue = mem[cache'[i].qname]
           /\ \A i \in 1 .. Len(modtimes') : modtimes'[i].qname \in Called
           /\ \A r \in Requests :
                 /\ delivered'[r] \in Seq(Files \cup {NoFile})
                 /\ \A i \in 1 .. Len(delivered'[r]) :
                       delivered'[r][i] # NoFile => delivered'[r][i].queue = request[r].queue
<1> DEFINE f == stack[Len(stack)]
           Cache == /\ cache' \in Seq(CacheEntries)
                    /\ \A i \in 1 .. Len(cache') :
                          cache'[i].qname \in Called /\ cache'[i].fp.queue = mem[cache'[i].qname]
           Times == /\ modtimes' \in Seq(ModTimes)
                    /\ \A i \in 1 .. Len(modtimes') : modtimes'[i].qname \in Called
           Given == \A r \in Requests :
                       /\ delivered'[r] \in Seq(Files \cup {NoFile})
                       /\ \A i \in 1 .. Len(delivered'[r]) :
                             delivered'[r][i] # NoFile => delivered'[r][i].queue = request[r].queue
<1>1. /\ f.callback \in Requests /\ f.name = f.callback /\ f.name \in Called /\ f.name \in Addrs
      /\ mem[f.name] = request[f.callback].queue
  <2>1. Running("fetch_ppd") /\ stack \in Seq(Frames)
    BY FetchKinds DEF Control
  <2>2. /\ Len(stack) \in 1 .. Len(stack) /\ f.fn = "fetch_ppd" /\ f.name \in Addrs
        /\ f.callback \in Requests
    BY <2>1, StackTop, FrameFields
  <2>3. f.name = f.callback /\ request[f.callback].status # "unsent"
    BY <2>2 DEF Names, Sent
  <2>4. f.name \in Called
    BY <2>2, <2>3 DEF Called
  <2> QED
    BY <2>2, <2>3, <2>4 DEF Names
<1> HIDE DEF f
<1>2. /\ cache \in Seq(CacheEntries) /\ modtimes \in Seq(ModTimes)
      /\ Len(cache) \in Nat /\ Len(modtimes) \in Nat
  BY LenProperties DEF Names
<1>3. /\ cache' = cache => Cache
      /\ modtimes' = modtimes => Times
      /\ delivered' = delivered => Given
  BY DEF Names
<1>4. ASSUME NEW file \in Files, file.queue = mem[f.name],
             cache' = Append(cache, [qname |-> f.name, fp |-> file])
      PROVE  Cache
  <2> DEFINE new == [qname |-> f.name, fp |-> file]
  <2>1. new \in CacheEntries /\ new.qname = f.name /\ new.fp = file
    BY <1>1 DEF CacheEntries
  <2> HIDE DEF new
  <2>2. /\ cache' \in Seq(CacheEntries) /\ Len(cache') = Len(cache) + 1
        /\ \A i \in 1 .. Len(cache) : cache'[i] = cache[i]
        /\ cache'[Len(cache) + 1] = new
    BY <1>2, <1>4, <2>1, AppendProperties DEF new
  <2>3. \A i \in 1 .. Len(cache') : i \in 1 .. Len(cache) \/ i = Len(cache) + 1
    BY <1>2, <2>2
  <2>4. \A i \in 1 .. Len(cache) :
           cache[i].qname \in Called /\ cache[i].fp.queue = mem[cache[i].qname]
    BY DEF Names
  <2> QED
    BY <1>1, <1>4, <2>1, <2>2, <2>3, <2>4
<1>5. ASSUME NEW times, Retimed(times)
      PROVE  /\ times \in Seq(ModTimes) /\ Len(times) \in Nat
             /\ \A i \in 1 .. Len(times) : times[i].qname \in Called
  BY <1>2, <1>5 DEF Retimed, Names
<1>6. ASSUME NEW times, Retimed(times), NEW t \in Versions,
             modtimes' = Append(times, [qname |-> f.name, time |-> t])
      PROVE  Times
  <2> DEFINE new == [qname |-> f.name, time |-> t]
  <2>1. new \in ModTimes /\ new.qname = f.name
    BY <1>1 DEF ModTimes
  <2>2. /\ times \in Seq(ModTimes) /\ Len(times) \in Nat
        /\ \A i \in 1 .. Len(times) : times[i].qname \in Called
    BY <1>5, <1>6
  <2> HIDE DEF new
  <2>3. /\ modtimes' \in Seq(ModTimes) /\ Len(modtimes') = Len(times) + 1
        /\ \A i \in 1 .. Len(times) : modtimes'[i] = times[i]
        /\ modtimes'[Len(times) + 1] = new
    BY <1>6, <2>1, <2>2, AppendProperties DEF new
  <2>4. \A i \in 1 .. Len(modtimes') : i \in 1 .. Len(times) \/ i = Len(times) + 1
    BY <2>2, <2>3
  <2> QED
    BY <1>1, <2>1, <2>2, <2>3, <2>4
<1>7. ASSUME NEW file \in Files \cup {NoFile}, file # NoFile => file.queue = mem[f.name],
             delivered' = [delivered EXCEPT ![f.callback] = Append(@, file)]
      PROVE  Given
  <2> SUFFICES ASSUME NEW r \in Requests
               PROVE  /\ delivered'[r] \in Seq(Files \cup {NoFile})
                      /\ \A i \in 1 .. Len(delivered'[r]) :
                            delivered'[r][i] # NoFile =>
                                delivered'[r][i].queue = request[r].queue
    OBVIOUS
  <2>1. /\ delivered[r] \in Seq(Files \cup {NoFile}) /\ Len(delivered[r]) \in Nat
        /\ \A i \in 1 .. Len(delivered[r]) :
              delivered[r][i] # NoFile => delivered[r][i].queue = request[r].queue
    BY LenProperties DEF Names
  <2>2. DOMAIN delivered = Requests
    BY DEF Types
  <2>3. CASE r # f.callback
    BY <1>7, <2>1, <2>2, <2>3
  <2>4. CASE r = f.callback
    <3> DEFINE old == delivered[r]
               new == delivered'[r]
    <3>1. new = Append(old, file)
      BY <1>1, <1>7, <2>2, <2>4
    <3>2. old \in Seq(Files \cup {NoFile}) /\ Len(old) \in Nat
      BY <2>1
    <3> HIDE DEF old, new
    <3>3. /\ new \in Seq(Files \cup {NoFile}) /\ Len(new) = Len(old) + 1
          /\ \A i \in 1 .. Len(old) : new[i] = old[i]
          /\ new[Len(old) + 1] = file
      BY <3>1, <3>2, AppendProperties
    <3>4. \A i \in 1 .. Len(new) : i \in 1 .. Len(old) \/ i = Len(old) + 1
      BY <3>2, <3>3
    <3>5. \A i \in 1 .. Len(new) : new[i] # NoFile => new[i].queue = request[r].queue
      BY <1>1, <1>7, <2>1, <2>4, <3>3, <3>4 DEF old
    <3> QED
      BY Zenon, <3>3, <3>5 DEF new
  <2> QED
    BY <2>3, <2>4
<1>8. ASSUME Delivered(f) PROVE Cache /\ Times /\ Given
  <2>1. PICK i \in 1 .. Len(cache) :
           /\ mem[cache[i].qname] = mem[f.name]
           /\ delivered' = [delivered EXCEPT ![f.callback] = Append(@, cache[i].fp)]
    BY Zenon, <1>8 DEF Delivered
  <2>2. cache[i].fp.queue = mem[cache[i].qname]
    BY DEF Names
  <2>3. cache[i].fp \in Files
    <3>1. cache[i] \in CacheEntries
      BY <1>2, ElementOfSeq
    <3> QED
      BY <3>1 DEF CacheEntries
  <2> DEFINE file == cache[i].fp
  <2>4. file \in Files \cup {NoFile} /\ file.queue = mem[f.name]
        /\ delivered' = [delivered EXCEPT ![f.callback] = Append(@, file)]
    BY Zenon, <2>1, <2>2, <2>3
  <2> HIDE DEF file
  <2>5. Given
    <3> HIDE DEF Given
    <3> QED
      BY Zenon, <1>7, <2>4
  <2> QED
    BY Zenon, <1>3, <1>8, <2>5 DEF Delivered
<1>9. ASSUME NEW times, Retimed(times), Silent(f) \/ Fetched(f, times) \/ Failed(f, times)
      PROVE  Cache /\ Times /\ Given
  <2>1. CASE Silent(f)
    <3>1. cache' = cache /\ modtimes' = modtimes /\ delivered' = delivered
      BY Zenon, <2>1 DEF Silent
    <3> QED
      BY Zenon, <1>3, <3>1
  <2>2. CASE Fetched(f, times)
    <3> HIDE DEF Cache, Times, Given
    <3>1. Cache
      BY Zenon, <1>4, <2>2 DEF Fetched
    <3>2. Times
      BY Zenon, <1>6, <1>9, <2>2 DEF Fetched
    <3>3. Given
      BY Zenon, <1>3, <2>2 DEF Fetched
    <3> QED
      BY <3>1, <3>2, <3>3
  <2>3. CASE Failed(f, times)
    <3>1. Times
      BY <1>5, <1>9, <2>3 DEF Failed
    <3> HIDE DEF Cache, Times, Given
    <3>2. Cache /\ Given
      BY Zenon, <1>3, <1>7, <2>3 DEF Failed
    <3> QED
      BY <3>1, <3>2
  <2> QED
    BY Zenon, <1>9, <2>1, <2>2, <2>3
<1>10. Cache /\ Times /\ Given
  <2> HIDE DEF Cache, Times, Given
  <2> QED
    BY Zenon, <1>8, <1>9, Outcomes DEF f
<1> QED
  BY Zenon, <1>10

LEMMA NamesStep ==
    ASSUME NamesPersist, Types, Control, Sent, Names, [Next]_vars
    PROVE  Names'
<1>1. ASSUME NEW r \in Called' PROVE mem'[r] = request'[r].queue /\ mem'[r] \in Queues
  <2>1. CASE r \in Called
    <3>1. mem[r] = request[r].queue /\ mem[r] \in Queues
      BY <2>1 DEF Names
    <3>2. mem'[r] = mem[r] /\ request'[r].queue = request[r].queue
      BY <2>1, MemKept
    <3> QED
      BY <3>1, <3>2
  <2>2. CASE r \notin Called
    <3>1. PICK q \in Queues, a \in Addrs : ChangePPD(r, q, a)
      BY Zenon, <2>2, NewlyCalled
    <3>2. a = r /\ mem' = [mem EXCEPT ![a] = q]
      BY Zenon, <3>1 DEF ChangePPD
    <3>3. request'[r].queue = q
      BY <3>1, RequestMade DEF Called
    <3> QED
      BY <3>2, <3>3 DEF Types, Called, Addrs
  <2> QED
    BY <2>1, <2>2
<1>2. ASSUME NEW i \in 1 .. Len(stack'), stack'[i].fn = "fetch_ppd"
      PROVE  stack'[i].name = stack'[i].callback
  <2>1. \/ /\ i \in 1 .. Len(stack) /\ stack[i].fn = "fetch_ppd"
           /\ stack'[i].callback = stack[i].callback /\ stack'[i].name = stack[i].name
        \/ \E l \in 1 .. Len(lists) : \E j \in 1 .. Len(lists[l]) :
              /\ stack'[i].callback = lists[l][j].method
              /\ stack'[i].name = lists[l][j].qname
        \/ \E r \in Requests, q \in Queues, a \in Addrs :
              ChangePPD(r, q, a) /\ stack'[i].callback = r /\ stack'[i].name = a
    BY Zenon, <1>2, FetchOrigin
  <2>2. \A r \in Requests, q \in Queues, a \in Addrs : ChangePPD(r, q, a) => a = r
    BY Zenon DEF ChangePPD
  <2> QED
    BY <2>1, <2>2 DEF Names
<1>3. ASSUME NEW l \in 1 .. Len(lists'), NEW j \in 1 .. Len(lists'[l])
      PROVE  lists'[l][j].qname = lists'[l][j].method
  <2> DEFINE f == stack[Len(stack)]
  <2>1. \/ /\ l \in 1 .. Len(lists) /\ j \in 1 .. Len(lists[l]) /\ lists'[l][j] = lists[l][j]
        \/ /\ Len(stack) \in Nat /\ Len(stack) > 0 /\ f.fn = "fetch_ppd"
           /\ lists'[l][j] = [qname |-> f.name, method |-> f.callback]
    BY Zenon, EntryOrigin
  <2>2. Len(stack) \in Nat /\ Len(stack) > 0 => Len(stack) \in 1 .. Len(stack)
    OBVIOUS
  <2>3. CASE l \in 1 .. Len(lists) /\ j \in 1 .. Len(lists[l]) /\ lists'[l][j] = lists[l][j]
    BY <2>3 DEF Names
  <2>4. CASE /\ Len(stack) \in Nat /\ Len(stack) > 0 /\ f.fn = "fetch_ppd"
             /\ lists'[l][j] = [qname |-> f.name, method |-> f.callback]
    <3>1. f.name = f.callback
      BY <2>2, <2>4 DEF Names
    <3> QED
      BY <2>4, <3>1
  <2> QED
    BY <2>1, <2>3, <2>4
<1>4. /\ cache' \in Seq(CacheEntries) /\ modtimes' \in Seq(ModTimes)
      /\ \A i \in 1 .. Len(cache') :
            cache'[i].qname \in Called /\ cache'[i].fp.queue = mem[cache'[i].qname]
      /\ \A i \in 1 .. Len(modtimes') : modtimes'[i].qname \in Called
      /\ \A r \in Requests :
            /\ delivered'[r] \in Seq(Files \cup {NoFile})
            /\ \A i \in 1 .. Len(delivered'[r]) :
                  delivered'[r][i] # NoFile => delivered'[r][i].queue = request[r].queue
  <2>1. CASE CheckUpToDate \/ Download \/ Deliver
    BY <2>1, FetchedNames
  <2>2. CASE ~(CheckUpToDate \/ Download \/ Deliver)
    <3>1. UNCHANGED <<cache, modtimes, delivered>>
      BY <2>2, OnlyFetchGives
    <3> QED
      BY <3>1 DEF Names
  <2> QED
    BY <2>1, <2>2
<1>k. \A r \in Called : r \in Called' /\ mem'[r] = mem[r] /\ request'[r].queue = request[r].queue
  BY MemKept
<1>5. ASSUME NEW r \in Requests, NEW i \in 1 .. Len(delivered'[r]), delivered'[r][i] # NoFile
      PROVE  delivered'[r][i].queue = request'[r].queue
  <2>1. CASE r \in Called
    BY <1>4, <1>5, <1>k, <2>1
  <2>2. CASE r \notin Called
    <3>1. delivered[r] = <<>>
      BY <2>2 DEF Called, Sent
    <3>2. CASE r \in Called'
      <4>1. ~(CheckUpToDate \/ Download \/ Deliver)
        <5>1. Called' = Called \/ ~(CheckUpToDate \/ Download \/ Deliver)
          BY FetchKinds DEF Called
        <5> QED
          BY <2>2, <3>2, <5>1
      <4>2. delivered' = delivered
        BY <4>1, OnlyFetchGives
      <4>3. Len(<<>>) = 0
        BY EmptySeq
      <4> QED
        BY <3>1, <4>2, <4>3
    <3>3. CASE r \notin Called'
      <4>1. delivered'[r] = <<>>
        BY <3>3, SentStep DEF Called, Sent
      <4>2. Len(<<>>) = 0
        BY EmptySeq
      <4> QED
        BY <4>1, <4>2
    <3> QED
      BY <3>2, <3>3
  <2> QED
    BY <2>1, <2>2
<1>6. \A i \in 1 .. Len(cache') :
         cache'[i].qname \in Called' /\ cache'[i].fp.queue = mem'[cache'[i].qname]
  BY <1>4, <1>k
<1>7. \A i \in 1 .. Len(modtimes') : modtimes'[i].qname \in Called'
  BY <1>4, <1>k
<1> QED
  BY Zenon, <1>1, <1>2, <1>3, <1>4, <1>5, <1>6, <1>7 DEF Names


LEMMA NamesInit == Init => Names
<1> SUFFICES ASSUME Init PROVE Names
  OBVIOUS
<1>1. /\ stack = <<>> /\ lists = <<>> /\ cache = <<>> /\ modtimes = <<>> /\ Called = {}
      /\ \A r \in Requests : delivered[r] = <<>>
  BY DEF Init, Called, NoRequest
<1>2. /\ Len(<<>>) = 0
      /\ <<>> \in Seq(CacheEntries) /\ <<>> \in Seq(ModTimes) /\ <<>> \in Seq(Files \cup {NoFile})
  BY EmptySeq
<1>3. /\ cache \in Seq(CacheEntries) /\ modtimes \in Seq(ModTimes)
      /\ Len(cache) = 0 /\ Len(modtimes) = 0 /\ Len(stack) = 0 /\ Len(lists) = 0
  BY Zenon, <1>1, <1>2
<1>4. \A r \in Requests : delivered[r] \in Seq(Files \cup {NoFile}) /\ Len(delivered[r]) = 0
  BY <1>1, <1>2
<1> QED
  BY <1>1, <1>3, <1>4 DEF Names

\* What is known of the state if the caller's strings outlive the handler.
LEMMA NamesCorrect ==
    ASSUME NamesPersist
    PROVE  Spec => [](Control /\ Types /\ Sent /\ Names)
<1>1. Init => Sent
  BY DEF Init, Sent
<1>2. Control /\ Types /\ Sent /\ [Next]_vars => Sent'
  BY SentStep
<1>3. Control /\ Types /\ Sent /\ Names /\ [Next]_vars => Names'
  BY NamesStep
<1> QED
  BY <1>1, <1>2, <1>3, TypesCorrect, NamesInit, PTL DEF Spec

\* The state has its type, if the caller's strings outlive the handler: otherwise a
\* file may be got for a queue that does not exist.
THEOREM TypeCorrect ==
    ASSUME NamesPersist
    PROVE  Spec => []TypeOK
<1>1. Control /\ Types /\ Sent /\ Names => TypeOK
  <2> SUFFICES ASSUME Control, Types, Sent, Names PROVE TypeOK
    OBVIOUS
  <2>1. \A e \in ToSet(cache) : e.qname \in Addrs /\ e.fp \in Files
    <3>1. \A i \in DOMAIN cache : cache[i] \in CacheEntries
      BY ElementOfSeq DEF Names
    <3> QED
      BY <3>1 DEF ToSet, CacheEntries
  <2>2. \A e \in ToSet(modtimes) : e.qname \in Addrs /\ e.time \in Versions
    <3>1. \A i \in DOMAIN modtimes : modtimes[i] \in ModTimes
      BY ElementOfSeq DEF Names
    <3> QED
      BY <3>1 DEF ToSet, ModTimes
  <2>3. \A l \in ToSet(lists) : \A e \in ToSet(l) : e.qname \in Addrs /\ e.method \in Requests
    <3>1. \A i \in DOMAIN lists : lists[i] \in Seq(Entries)
      BY ElementOfSeq DEF Control
    <3>2. \A l \in Seq(Entries) : \A j \in DOMAIN l : l[j] \in Entries
      BY ElementOfSeq
    <3> QED
      BY <3>1, <3>2 DEF ToSet, Entries
  <2>4. \A r \in Requests : \A f \in ToSet(delivered[r]) : f \in Files \cup {NoFile}
    <3>1. \A r \in Requests : \A i \in DOMAIN delivered[r] : delivered[r][i] \in Files \cup {NoFile}
      BY ElementOfSeq DEF Names
    <3> QED
      BY <3>1 DEF ToSet
  <2> QED
    BY <2>1, <2>2, <2>3, <2>4 DEF TypeOK, Types, Control
<1> QED
  BY <1>1, NamesCorrect, PTL

\* The file a callback is given is of the queue its ChangePPD call named, if the
\* caller's strings outlive the handler.
THEOREM FilesCorrect ==
    ASSUME NamesPersist
    PROVE  Spec => []FileIsOfRequestedQueue
<1>1. Names => FileIsOfRequestedQueue
  <2> SUFFICES ASSUME Names, NEW r \in Requests, NEW f \in ToSet(delivered[r]), f # NoFile
               PROVE  f.queue = request[r].queue
    BY DEF FileIsOfRequestedQueue
  <2>1. delivered[r] \in Seq(Files \cup {NoFile})
    BY DEF Names
  <2>2. DOMAIN delivered[r] = 1 .. Len(delivered[r])
    BY <2>1, LenProperties
  <2>3. PICK i \in 1 .. Len(delivered[r]) : f = delivered[r][i]
    BY <2>2 DEF ToSet
  <2> QED
    BY <2>3 DEF Names
<1> QED
  BY <1>1, NamesCorrect, PTL


-----------------------------------------------------------------------------
(* No call is forgotten. *)

\* A callback's file is kept, and is one more.
LEMMA GivenOne ==
    ASSUME Types, Names, NEW r \in Requests, NEW file,
           delivered' = [delivered EXCEPT ![r] = Append(@, file)]
    PROVE  /\ \A p \in Requests : /\ Len(delivered[p]) \in Nat /\ Len(delivered[p]) <= Len(delivered'[p])
                                  /\ \A i \in 1 .. Len(delivered[p]) : delivered'[p][i] = delivered[p][i]
           /\ delivered'[r] # <<>> /\ delivered' # delivered
           /\ Len(delivered'[r]) \in 1 .. Len(delivered'[r])
           /\ delivered'[r][Len(delivered'[r])] = file
<1> DEFINE S == Files \cup {NoFile}
<1>1. \A p \in Requests : delivered[p] \in Seq(S) /\ Len(delivered[p]) \in Nat
  BY LenProperties DEF Names
<1>2. DOMAIN delivered = Requests
  BY DEF Types
<1>3. delivered'[r] = Append(delivered[r], file) /\ \A p \in Requests \ {r} : delivered'[p] = delivered[p]
  BY <1>2
<1> DEFINE old == delivered[r]
           new == delivered'[r]
           T == S \cup {file}
<1>4. old \in Seq(T) /\ Len(old) \in Nat /\ file \in T /\ new = Append(old, file)
  <2>1. old \in Seq(S) /\ Len(old) \in Nat
    BY <1>1
  <2>2. old \in Seq(T)
    <3> HIDE DEF old
    <3> QED
      BY <2>1
  <2> QED
    BY <1>3, <2>1, <2>2
<1> HIDE DEF old, new, T
<1>5. /\ new \in Seq(T) /\ Len(new) = Len(old) + 1 /\ \A i \in 1 .. Len(old) : new[i] = old[i]
      /\ new[Len(old) + 1] = file
  BY <1>4, AppendProperties
<1>6. new # <<>> /\ new # old /\ Len(new) \in 1 .. Len(new) /\ new[Len(new)] = file
      /\ Len(old) <= Len(new)
  <2>1. Len(<<>>) = 0
    BY EmptySeq
  <2> QED
    BY <1>4, <1>5, <2>1
<1>7. ASSUME NEW p \in Requests
      PROVE  /\ Len(delivered[p]) \in Nat /\ Len(delivered[p]) <= Len(delivered'[p])
             /\ \A i \in 1 .. Len(delivered[p]) : delivered'[p][i] = delivered[p][i]
  <2>1. CASE p = r
    BY <1>4, <1>5, <1>6, <2>1 DEF old, new
  <2>2. CASE p # r
    BY <1>1, <1>3, <2>2
  <2> QED
    BY <2>1, <2>2
<1> QED
  BY Zenon, <1>6, <1>7 DEF old, new

\* The frames of walks that stay where they are go on to serve what they served.
LEMMA WalkKept ==
    ASSUME Control, UNCHANGED queued, NEW l, NEW j, ToBeWalked(l, j),
           \A i \in 1 .. Len(stack) : stack[i].fn \in {"self_connect", "connected"} =>
               i \in 1 .. Len(stack') /\ stack'[i] = stack[i]
    PROVE  ToBeWalked(l, j)'
<1>1. PICK i \in 1 .. Len(stack) :
         \/ stack[i].fn = "self_connect" /\ queued = l
         \/ stack[i].fn = "connected" /\ stack[i].list = l /\ stack[i].next <= j
  BY Zenon DEF ToBeWalked
<1>2. i \in 1 .. Len(stack') /\ stack'[i] = stack[i]
  BY <1>1
<1> QED
  BY <1>1, <1>2 DEF ToBeWalked

LEMMA WaitKept ==
    ASSUME Control, UNCHANGED <<lists, queued>>, NEW r, Waits(r), ~Fetching(r),
           \A i \in 1 .. Len(stack) : stack[i].fn \in {"self_connect", "connected"} =>
               i \in 1 .. Len(stack') /\ stack'[i] = stack[i]
    PROVE  Waits(r)'
<1>1. PICK l \in 1 .. Len(lists) :
         \E j \in 1 .. Len(lists[l]) : lists[l][j].method = r /\ ToBeWalked(l, j)
  BY Zenon DEF Waits
<1>2. PICK j \in 1 .. Len(lists[l]) : lists[l][j].method = r /\ ToBeWalked(l, j)
  BY <1>1
<1>3. ToBeWalked(l, j)'
  BY <1>2, WalkKept
<1>4. l \in 1 .. Len(lists') /\ j \in 1 .. Len(lists'[l]) /\ lists'[l][j].method = r
  BY <1>2
<1> QED
  BY Zenon, <1>3, <1>4 DEF Waits

\* A step that is not fetch_ppd's gives nothing: it is enough that it forgets nobody.
LEMMA KnownFrom ==
    ASSUME NamesPersist, Types, Control, Sent, Names, Known, [Next]_vars,
           ~(CheckUpToDate \/ Download \/ Deliver),
           \A i \in 1 .. Len(stack) : stack[i].fn = "fetch_ppd" => stack[i].check_uptodate # FALSE,
           \A i \in 1 .. Len(stack') : stack'[i].fn = "fetch_ppd" => stack'[i].check_uptodate # FALSE,
           \A r \in Called : Waits(r) => Waits(r)',
           \A r \in Called' : r \notin Called => Waits(r)'
    PROVE  Known'
<1>1. UNCHANGED <<cache, modtimes, delivered>>
  BY OnlyFetchGives
<1>2. \A r \in Called : r \in Called' /\ mem'[r] = mem[r] /\ request'[r].queue = request[r].queue
  BY MemKept
<1>3. \A q : ~Cached(q)
  BY Zenon DEF Cached
<1>4. ASSUME NEW q, FileOf(q) PROVE FileOf(q)'
  BY <1>1, <1>4 DEF FileOf
<1>5. ASSUME NEW i \in 1 .. Len(modtimes') PROVE FileOf(mem[modtimes[i].qname])'
  <2>1. modtimes[i].qname \in Called /\ FileOf(mem[modtimes[i].qname])
    BY <1>1, <1>3 DEF Known, Names
  <2>2. PICK q : q = mem[modtimes[i].qname]
    OBVIOUS
  <2>3. FileOf(q)'
    BY Zenon, <1>4, <2>1, <2>2
  <2>4. mem'[modtimes'[i].qname] = q
    BY <1>1, <1>2, <2>1, <2>2
  <2> QED
    BY Zenon, <2>3, <2>4 DEF FileOf
<1>6. ASSUME NEW r \in Called' PROVE delivered'[r] # <<>> \/ Waits(r)' \/ FileOf(request[r].queue)'
  <2>1. CASE r \in Called
    <3>1. delivered[r] # <<>> \/ Waits(r) \/ FileOf(request[r].queue)
      BY Zenon, <2>1 DEF Known
    <3>2. PICK q : q = request[r].queue
      OBVIOUS
    <3>3. FileOf(request[r].queue) => FileOf(q)'
      BY Zenon, <1>4, <3>2
    <3>4. request'[r].queue = q
      BY <1>2, <2>1, <3>2
    <3>5. FileOf(request[r].queue) => FileOf(request[r].queue)'
      BY Zenon, <3>3, <3>4 DEF FileOf
    <3> QED
      BY Zenon, <1>1, <2>1, <3>1, <3>5
  <2>2. CASE r \notin Called
    BY Zenon, <2>2
  <2> QED
    BY <2>1, <2>2
<1> QED
  BY Zenon, <1>5, <1>6 DEF Known


LEMMA KnownFetched ==
    ASSUME NamesPersist, Types, Control, Sent, Names, Known, [Next]_vars,
           CheckUpToDate \/ Download \/ Deliver
    PROVE  Known'
<1> DEFINE n == Len(stack)
           f == stack[n]
           OnStack == \A i \in 1 .. Len(stack') :
                         stack'[i].fn = "fetch_ppd" /\ stack'[i].check_uptodate = FALSE =>
                             \E k \in 1 .. Len(cache') : mem'[cache'[k].qname] = mem'[stack'[i].name]
           Timed == \A i \in 1 .. Len(modtimes') :
                       FileOf(mem[modtimes[i].qname])' \/ Cached(mem[modtimes[i].qname])'
           Nobody == \A p \in Called' : delivered'[p] # <<>> \/ Waits(p)' \/ FileOf(request[p].queue)'
<1>0. stack \in Seq(Frames) /\ n \in Nat
  BY LenProperties DEF Control
<1>1. UNCHANGED <<mem, request, lists, queued>> /\ Called' = Called
  BY FetchKinds DEF Called
<1>2. /\ n > 0 /\ n \in 1 .. n /\ stack' \in Seq(Frames) /\ Len(stack') \in {n - 1, n}
      /\ f.fn = "fetch_ppd" /\ f \in Frames
      /\ \A i \in 1 .. n - 1 : stack'[i] = stack[i]
      /\ Len(stack') = n =>
            \/ stack'[n].fn = "g_application_run"
            \/ stack'[n].fn = "fetch_ppd" /\ delivered' = delivered
  <2>1. /\ n > 0 /\ stack' \in Seq(Frames) /\ Len(stack') \in {n - 1, n}
        /\ f.fn = "fetch_ppd"
        /\ \A i \in 1 .. n - 1 : stack'[i] = stack[i]
        /\ Len(stack') = n =>
              \/ stack'[n].fn = "g_application_run"
              \/ stack'[n].fn = "fetch_ppd" /\ delivered' = delivered
    BY <1>0, FetchStack
  <2>2. n \in 1 .. n
    BY <1>0, <2>1
  <2>3. f \in Frames
    BY <1>0, <2>2, ElementOfSeq
  <2> QED
    BY <2>1, <2>2, <2>3
<1>r. PICK r \in Requests : r = f.callback
  BY <1>2, FrameFields
<1> DEFINE Gave(file) == delivered' = [delivered EXCEPT ![r] = Append(@, file)]
<1>3. /\ f.callback = r /\ f.name = r /\ r \in Called /\ mem[f.name] = request[r].queue
      /\ f.check_uptodate \in BOOLEAN
  <2>1. f.name \in Addrs /\ f.callback \in Requests /\ f.check_uptodate \in BOOLEAN
    BY <1>2, FrameFields
  <2>2. f.name = f.callback /\ request[f.callback].status # "unsent"
    BY <1>2 DEF Names, Sent
  <2>3. r \in Called
    BY <1>r, <2>2 DEF Called
  <2> QED
    BY <1>r, <2>1, <2>2, <2>3 DEF Names
<1>4. \A i \in 1 .. n : stack[i].fn \in {"fetch_ppd", "self_connect"} => i = n
  BY DEF Control
<1>5. ASSUME NEW p \in Called, Waits(p), p # r PROVE Waits(p)'
  <2>1. ~Fetching(p)
    BY <1>2, <1>3, <1>4, <1>5 DEF Fetching
  <2>2. ASSUME NEW i \in 1 .. n, stack[i].fn \in {"self_connect", "connected"}
        PROVE  i \in 1 .. Len(stack') /\ stack'[i] = stack[i]
    <3>1. i # n
      BY <1>2, <2>2
    <3>2. i \in 1 .. n - 1 /\ i \in 1 .. Len(stack')
      BY <1>0, <1>2, <3>1
    <3> QED
      BY <1>2, <3>2
  <2> QED
    BY <1>1, <1>5, <2>1, <2>2, WaitKept
<1>6. ASSUME NEW q, FileOf(q), (delivered' = delivered) \/ \E file : Gave(file)
      PROVE  FileOf(q)'
  <2>1. CASE delivered' = delivered
    BY <1>6, <2>1 DEF FileOf
  <2>2. CASE \E file : Gave(file)
    <3>1. PICK file : Gave(file)
      BY <2>2
    <3>2. PICK p \in Requests : \E i \in 1 .. Len(delivered[p]) : delivered[p][i].queue = q
      BY <1>6 DEF FileOf
    <3>3. PICK i \in 1 .. Len(delivered[p]) : delivered[p][i].queue = q
      BY <3>2
    <3>4. /\ Len(delivered[p]) \in Nat /\ Len(delivered[p]) <= Len(delivered'[p])
          /\ delivered'[p][i] = delivered[p][i]
      BY <1>3, <3>1, GivenOne
    <3>5. i \in 1 .. Len(delivered'[p])
      <4>1. delivered'[p] \in Seq(Files \cup {NoFile})
        BY FetchedNames
      <4>2. Len(delivered'[p]) \in Nat
        BY <4>1, LenProperties
      <4> QED
        BY <3>4, <4>2
    <3> QED
      BY <3>3, <3>4, <3>5 DEF FileOf
  <2> QED
    BY <1>6, <2>1, <2>2
<1>7. ASSUME NEW q, Cached(q) PROVE f.check_uptodate = FALSE /\ mem[f.name] = q
  BY <1>4, <1>7 DEF Cached
<1>8. \A i \in 1 .. Len(modtimes) : FileOf(mem[modtimes[i].qname]) \/ Cached(mem[modtimes[i].qname])
  BY Zenon DEF Known
<1>9. \A p \in Called : delivered[p] # <<>> \/ Waits(p) \/ FileOf(request[p].queue)
  BY Zenon DEF Known
<1>10. f.check_uptodate = FALSE => \E k \in 1 .. Len(cache) : mem[cache[k].qname] = mem[f.name]
  BY <1>2 DEF Known
<1>11. ASSUME OnStack, Timed, Nobody PROVE Known'
  BY Zenon, <1>11 DEF Known
<1>12. ASSUME NEW i \in 1 .. Len(modtimes'), NEW q, mem[modtimes'[i].qname] = q,
              FileOf(q)' \/ Cached(q)'
       PROVE  FileOf(mem[modtimes[i].qname])' \/ Cached(mem[modtimes[i].qname])'
  BY Zenon, <1>1, <1>12 DEF FileOf, Cached
<1>13. ASSUME Len(stack') = n => stack'[n].fn # "fetch_ppd" PROVE OnStack
  <2> SUFFICES ASSUME NEW i \in 1 .. Len(stack'), stack'[i].fn = "fetch_ppd" PROVE FALSE
    BY Zenon
  <2>1. i # n
    BY <1>0, <1>2, <1>13
  <2>2. i \in 1 .. n - 1
    BY <1>0, <1>2, <2>1
  <2>3. stack[i].fn = "fetch_ppd" /\ i \in 1 .. n
    BY <1>0, <1>2, <2>2
  <2> QED
    BY <1>4, <2>1, <2>3
\* The callback's request is no longer to be waited for, nor any other forgotten.
<1>14. ASSUME (delivered' = delivered) \/ \E file : Gave(file),
              delivered'[r] # <<>> \/ Waits(r)' \/ FileOf(request[r].queue)
       PROVE  Nobody
  <2> SUFFICES ASSUME NEW p \in Called
               PROVE  delivered'[p] # <<>> \/ Waits(p)' \/ FileOf(request[p].queue)'
    BY <1>1
  <2>1. PICK q : q = request[p].queue
    OBVIOUS
  <2>2. FileOf(q) => FileOf(request[p].queue)'
    <3>1. FileOf(q) => FileOf(q)'
      BY <1>6, <1>14
    <3> QED
      BY Zenon, <1>1, <2>1, <3>1 DEF FileOf
  <2>3. CASE p = r
    BY Zenon, <1>14, <2>1, <2>2, <2>3
  <2>4. CASE p # r
    <3>1. delivered[p] # <<>> \/ Waits(p)' \/ FileOf(q)
      BY Zenon, <1>5, <1>9, <2>1, <2>4
    <3>2. delivered'[p] = delivered[p]
      <4>1. DOMAIN delivered = Requests /\ p \in Requests
        BY DEF Types, Called
      <4> QED
        BY <1>14, <2>4, <4>1
    <3> QED
      BY Zenon, <2>2, <3>1, <3>2
  <2> QED
    BY <2>3, <2>4
<1>15. ASSUME NEW times, Retimed(times), Silent(f) PROVE OnStack /\ Timed /\ Nobody
  <2>1. Return /\ UNCHANGED <<cache, modtimes, delivered>> /\ f.check_uptodate = TRUE
    BY Zenon, <1>15 DEF Silent
  <2>2. PICK k \in 1 .. Len(modtimes) : mem[modtimes[k].qname] = mem[f.name]
    BY <1>15 DEF Silent
  <2>3. \A i \in 1 .. Len(modtimes) : FileOf(mem[modtimes[i].qname])
    <3>1. \A q : ~Cached(q)
      BY <1>7, <2>1
    <3> QED
      BY Zenon, <1>8, <3>1
  <2>4. OnStack
    <3>1. Len(stack') # n
      <4>1. Len(stack') = n - 1
        BY <1>0, <1>2, <2>1, StackPopped, EmptySeq
      <4> QED
        BY <1>0, <4>1
    <3> HIDE DEF OnStack
    <3> QED
      BY <1>13, <3>1
  <2>5. Timed
    <3> SUFFICES ASSUME NEW i \in 1 .. Len(modtimes')
                 PROVE  FileOf(mem[modtimes[i].qname])' \/ Cached(mem[modtimes[i].qname])'
      OBVIOUS
    <3>1. PICK q : q = mem[modtimes[i].qname]
      OBVIOUS
    <3>2. FileOf(q)'
      BY <1>6, <2>1, <2>3, <3>1
    <3> QED
      BY Zenon, <1>12, <2>1, <3>1, <3>2
  <2>6. Nobody
    <3>1. FileOf(request[r].queue)
      BY <1>3, <2>2, <2>3
    <3> HIDE DEF Nobody
    <3> QED
      BY Zenon, <1>14, <2>1, <3>1
  <2> QED
    BY Zenon, <2>4, <2>5, <2>6
<1>16. ASSUME NEW times, Retimed(times), Fetched(f, times) PROVE OnStack /\ Timed /\ Nobody
  <2> DEFINE g == Fetch(r, r, FALSE)
  <2>1. ReturnTo(g) /\ delivered' = delivered
    BY Zenon, <1>3, <1>16 DEF Fetched
  <2>2. g \in Frames /\ g.fn = "fetch_ppd" /\ g.name = r /\ g.callback = r /\ g.check_uptodate = FALSE
    <3>1. r \in Addrs
      BY DEF Addrs
    <3> QED
      BY Zenon, <3>1, FetchFrame
  <2>3. Len(stack') = n /\ stack'[n] = g
    <3>1. stack # <<>>
      <4>1. n # 0
        BY <1>0, <1>2
      <4> QED
        BY <1>0, <4>1, EmptySeq
    <3> HIDE DEF g
    <3> QED
      BY <1>0, <2>1, <2>2, <3>1, StackReplaced
  <2> HIDE DEF g
  <2>4. /\ n \in 1 .. Len(stack') /\ stack'[n].fn = "fetch_ppd"
        /\ stack'[n].check_uptodate = FALSE
        /\ stack'[n].name = r /\ stack'[n].callback = r
    BY <1>2, <1>3, <2>2, <2>3
  <2>5. \E k \in 1 .. Len(cache') : mem'[cache'[k].qname] = mem[r]
    <3>1. PICK file \in Files : cache' = Append(cache, [qname |-> f.name, fp |-> file])
      BY Zenon, <1>16 DEF Fetched
    <3> DEFINE new == [qname |-> f.name, fp |-> file]
    <3>2. cache \in Seq(CacheEntries) /\ Len(cache) \in Nat
      BY LenProperties DEF Names
    <3>3. new \in CacheEntries /\ new.qname = r
      <4>1. f.name \in Addrs
        BY <1>2, FrameFields
      <4> QED
        BY <1>3, <4>1 DEF CacheEntries
    <3>4. cache' = Append(cache, new)
      BY <3>1
    <3> HIDE DEF new
    <3>5. Len(cache') = Len(cache) + 1 /\ cache'[Len(cache) + 1] = new
      BY <3>2, <3>3, <3>4, AppendProperties
    <3>6. Len(cache') \in 1 .. Len(cache') /\ cache'[Len(cache')].qname = r
      BY <3>2, <3>3, <3>5
    <3> QED
      BY <1>1, <3>6
  <2>6. OnStack
    <3> SUFFICES ASSUME NEW i \in 1 .. Len(stack'), stack'[i].fn = "fetch_ppd"
                 PROVE  \E k \in 1 .. Len(cache') : mem'[cache'[k].qname] = mem'[stack'[i].name]
      BY Zenon
    <3>1. i = n
      <4>1. CASE i \in 1 .. n - 1
        <5>1. stack[i].fn = "fetch_ppd" /\ i \in 1 .. n
          BY <1>0, <1>2, <4>1
        <5> QED
          BY <1>4, <5>1
      <4> QED
        BY <1>0, <2>3, <4>1
    <3> QED
      BY <1>1, <2>4, <2>5, <3>1
  <2>7. Timed
    <3> SUFFICES ASSUME NEW i \in 1 .. Len(modtimes')
                 PROVE  FileOf(mem[modtimes[i].qname])' \/ Cached(mem[modtimes[i].qname])'
      OBVIOUS
    <3>1. PICK t \in Versions : modtimes' = Append(times, [qname |-> f.name, time |-> t])
      BY Zenon, <1>16 DEF Fetched
    <3> DEFINE new == [qname |-> f.name, time |-> t]
    <3>2. /\ times \in Seq(ModTimes) /\ Len(times) = Len(modtimes) /\ Len(times) \in Nat
          /\ \A k \in 1 .. Len(modtimes) : times[k].qname = modtimes[k].qname
      BY <1>16, LenProperties DEF Retimed
    <3>3. new \in ModTimes /\ new.qname = r
      <4>1. f.name \in Addrs
        BY <1>2, FrameFields
      <4> QED
        BY <1>3, <4>1 DEF ModTimes
    <3>4. modtimes' = Append(times, new)
      BY <3>1
    <3> HIDE DEF new
    <3>5. /\ Len(modtimes') = Len(times) + 1 /\ modtimes'[Len(times) + 1] = new
          /\ \A k \in 1 .. Len(times) : modtimes'[k] = times[k]
      BY <3>2, <3>3, <3>4, AppendProperties
    <3>6. PICK q : q = mem[modtimes'[i].qname]
      OBVIOUS
    <3>7. CASE q = mem[r]
      <4>1. Cached(q)'
        BY <1>1, <2>4, <3>7 DEF Cached
      <4> QED
        BY Zenon, <1>12, <3>6, <4>1
    <3>8. CASE q # mem[r]
      <4>1. i \in 1 .. Len(modtimes) /\ modtimes'[i].qname = modtimes[i].qname
        BY <3>2, <3>3, <3>5, <3>6, <3>8
      <4>2. FileOf(q) \/ Cached(q)
        BY Zenon, <1>8, <3>6, <4>1
      <4>3. ~Cached(q)
        BY <1>3, <1>7, <3>8
      <4>4. FileOf(q)'
        BY <1>6, <2>1, <4>2, <4>3
      <4> QED
        BY Zenon, <1>12, <3>6, <4>4
    <3> QED
      BY <3>7, <3>8
  <2>8. Nobody
    <3>1. Waits(r)'
      BY Zenon, <2>4 DEF Waits, Fetching
    <3> HIDE DEF Nobody
    <3> QED
      BY Zenon, <1>14, <2>1, <3>1
  <2> QED
    BY Zenon, <2>6, <2>7, <2>8
\* The callback has been called.
<1>17. ASSUME NEW file, Gave(file) PROVE OnStack /\ Nobody
  <2>1. delivered'[r] # <<>> /\ delivered' # delivered
    BY <1>17, GivenOne
  <2>2. Len(stack') = n => stack'[n].fn # "fetch_ppd"
    BY <1>2, <2>1
  <2> HIDE DEF OnStack, Nobody
  <2> QED
    BY <1>13, <1>14, <1>17, <2>1, <2>2
<1>18. ASSUME NEW times, Retimed(times), NotYet(f), Failed(f, times)
       PROVE  OnStack /\ Timed /\ Nobody
  <2>1. modtimes' = times /\ Gave(NoFile)
    BY Zenon, <1>3, <1>18 DEF Failed
  <2>2. \A q : ~Cached(q)
    <3>1. ASSUME f.check_uptodate = FALSE PROVE FALSE
      <4>1. \A k \in 1 .. Len(cache) : mem[cache[k].qname] # mem[f.name]
        BY <1>18, <3>1 DEF NotYet
      <4> QED
        BY <1>10, <3>1, <4>1
    <3> QED
      BY <1>7, <3>1
  <2>3. Timed
    <3> SUFFICES ASSUME NEW i \in 1 .. Len(modtimes')
                 PROVE  FileOf(mem[modtimes[i].qname])' \/ Cached(mem[modtimes[i].qname])'
      OBVIOUS
    <3>1. PICK q : q = mem[modtimes'[i].qname]
      OBVIOUS
    <3>2. i \in 1 .. Len(modtimes) /\ modtimes'[i].qname = modtimes[i].qname
      BY <1>18, <2>1 DEF Retimed
    <3>3. FileOf(q)
      BY Zenon, <1>8, <2>2, <3>1, <3>2
    <3>4. FileOf(q)'
      BY Zenon, <1>6, <2>1, <3>3
    <3> QED
      BY Zenon, <1>12, <3>1, <3>4
  <2> HIDE DEF OnStack, Timed, Nobody, Gave
  <2> QED
    BY <1>17, <2>1, <2>3
<1>19. ASSUME Delivered(f) PROVE OnStack /\ Timed /\ Nobody
  <2>1. PICK k \in 1 .. Len(cache) : mem[cache[k].qname] = mem[f.name] /\ Gave(cache[k].fp)
    BY Zenon, <1>3, <1>19 DEF Delivered
  <2>2. modtimes' = modtimes
    BY Zenon, <1>19 DEF Delivered
  <2>3. cache[k].fp.queue = mem[f.name]
    BY <2>1 DEF Names
  <2>4. PICK file : file = cache[k].fp
    OBVIOUS
  <2>6. PICK q0 : q0 = mem[r]
    OBVIOUS
  <2>7. FileOf(q0)'
    <3>1. Len(delivered'[r]) \in 1 .. Len(delivered'[r]) /\ delivered'[r][Len(delivered'[r])] = file
      BY <2>1, <2>4, GivenOne
    <3> QED
      BY <1>3, <2>3, <2>4, <2>6, <3>1 DEF FileOf
  <2>8. Timed
    <3> SUFFICES ASSUME NEW i \in 1 .. Len(modtimes')
                 PROVE  FileOf(mem[modtimes[i].qname])' \/ Cached(mem[modtimes[i].qname])'
      OBVIOUS
    <3>1. PICK q : q = mem[modtimes'[i].qname]
      OBVIOUS
    <3>2. FileOf(q) \/ Cached(q)
      BY Zenon, <1>8, <2>2, <3>1
    <3>3. Cached(q) => q = q0
      BY <1>3, <1>7, <2>6
    <3>4. FileOf(q)'
      BY Zenon, <1>6, <2>1, <2>7, <3>2, <3>3
    <3> QED
      BY Zenon, <1>12, <3>1, <3>4
  <2> HIDE DEF OnStack, Timed, Nobody, Gave
  <2> QED
    BY <1>17, <2>1, <2>8
<1>20. OnStack /\ Timed /\ Nobody
  <2>1. \/ \E times : /\ Retimed(times) /\ NotYet(f)
                      /\ Silent(f) \/ Fetched(f, times) \/ Failed(f, times)
        \/ Delivered(f)
    BY Zenon, Outcomes
  <2> HIDE DEF OnStack, Timed, Nobody, f
  <2> QED
    BY Zenon, <1>15, <1>16, <1>18, <1>19, <2>1
<1> HIDE DEF OnStack, Timed, Nobody
<1> QED
  BY <1>11, <1>20

LEMMA KnownStep ==
    ASSUME NamesPersist, Types, Control, Sent, Names, Known, [Next]_vars
    PROVE  Known'
<1> DEFINE n == Len(stack)
           f == stack[n]
<1>0. /\ n \in Nat /\ Len(lists) \in Nat /\ stack \in Seq(Frames)
      /\ \A i \in 1 .. n : stack[i].fn \in {"fetch_ppd", "self_connect"} => i = n
      /\ lists \in Seq(Seq(Entries)) /\ queued \in 0 .. Len(lists)
  BY StackTop, LenProperties DEF Control
<1>new. \A r \in Called' : r \notin Called => Waits(r)'
  <2> SUFFICES ASSUME NEW r \in Called', r \notin Called PROVE Waits(r)'
    OBVIOUS
  <2>1. PICK q \in Queues, a \in Addrs : ChangePPD(r, q, a)
    BY Zenon, NewlyCalled
  <2>2. r \in Requests
    BY DEF Called
  <2>3. Len(stack') = n + 2 /\ stack'[n + 2].fn = "fetch_ppd" /\ stack'[n + 2].callback = r
    BY <1>0, <2>1, <2>2, CallStack
  <2>4. n + 2 \in 1 .. Len(stack')
    BY <1>0, <2>3
  <2> QED
    BY Zenon, <2>3, <2>4 DEF Waits, Fetching
<1>1. ASSUME NEW r \in Requests, NEW q \in Queues, NEW a \in Addrs, ChangePPD(r, q, a),
             ~(CheckUpToDate \/ Download \/ Deliver)
      PROVE  Known'
  <2>1. /\ Len(stack') = n + 2
        /\ n > 0 => f.fn = "g_application_run"
        /\ \A i \in 1 .. n : stack'[i] = stack[i]
        /\ stack'[n + 1].fn = "ChangePPD"
        /\ stack'[n + 2].check_uptodate = TRUE
    BY Zenon, <1>0, <1>1, CallStack
  <2>2. \A i \in 1 .. n : stack[i].fn # "fetch_ppd"
    BY <1>0, <2>1
  <2>3. \A i \in 1 .. n + 2 : i \in 1 .. n \/ i = n + 1 \/ i = n + 2
    BY <1>0
  <2>4. \A i \in 1 .. Len(stack') : stack'[i].fn = "fetch_ppd" => stack'[i].check_uptodate # FALSE
    BY Zenon, <2>1, <2>2, <2>3
  <2>5. ASSUME NEW p \in Called, Waits(p) PROVE Waits(p)'
    <3>1. ~Fetching(p)
      BY <2>2 DEF Fetching
    <3>2. UNCHANGED <<lists, queued>>
      BY <1>1 DEF ChangePPD, cacheVars
    <3>3. \A i \in 1 .. n : i \in 1 .. Len(stack') /\ stack'[i] = stack[i]
      BY <1>0, <2>1
    <3> QED
      BY <2>5, <3>1, <3>2, <3>3, WaitKept
  <2> QED
    BY <1>1, <1>new, <2>2, <2>4, <2>5, KnownFrom
<1>2. ASSUME Complete \/ CloseWindow, ~(CheckUpToDate \/ Download \/ Deliver) PROVE Known'
  <2>1. /\ n > 0 /\ Len(stack') = n - 1
        /\ f.fn \in {"ChangePPD", "g_application_run"}
        /\ \A i \in 1 .. n - 1 : stack'[i] = stack[i]
    BY <1>0, <1>2, PoppedStack
  <2>2. \A i \in 1 .. n : stack[i].fn # "fetch_ppd"
    BY <1>0, <2>1
  <2>4. \A i \in 1 .. Len(stack') : stack'[i].fn # "fetch_ppd"
    BY <1>0, <2>1, <2>2
  <2>5. ASSUME NEW p \in Called, Waits(p) PROVE Waits(p)'
    <3>1. ~Fetching(p)
      BY <2>2 DEF Fetching
    <3>2. UNCHANGED <<lists, queued>>
      BY <1>2 DEF Complete, CloseWindow, cacheVars
    <3>3. \A i \in 1 .. n : stack[i].fn \in {"self_connect", "connected"} =>
             i \in 1 .. Len(stack') /\ stack'[i] = stack[i]
      BY <1>0, <2>1
    <3> QED
      BY <2>5, <3>1, <3>2, <3>3, WaitKept
  <2> QED
    BY <1>2, <1>new, <2>2, <2>4, <2>5, KnownFrom
\* The request goes from fetch_ppd into the queue, which is to be walked.
<1>4. ASSUME QueueRequest, ~(CheckUpToDate \/ Download \/ Deliver) PROVE Known'
  <2>1. /\ n > 0 /\ f.fn = "fetch_ppd" /\ f.name \in Addrs /\ f.callback \in Requests
        /\ insert_list(f.name, f.callback) /\ Last(stack) = f
        /\ \A i \in 1 .. n - 1 : stack'[i] = stack[i]
        /\ IF connecting THEN Len(stack') = n - 1 /\ connecting' = connecting
           ELSE /\ Len(stack') = n /\ stack'[n].fn = "self_connect" /\ connecting' = TRUE
    BY <1>0, <1>4, QueueStack
  <2>2. Len(stack') = n /\ stack'[n].fn = "self_connect"
    <3>1. ~connecting
      <4>1. stack[n].fn # "self_connect"
        BY <2>1
      <4> QED
        BY <1>0, <4>1, StackTop DEF Control
    <3> QED
      BY <2>1, <3>1
  <2>3. \A i \in 1 .. n : stack[i].fn = "fetch_ppd" => stack[i].check_uptodate # FALSE
    <3>1. ASSUME f.check_uptodate = FALSE PROVE FALSE
      <4>1. n \in 1 .. n
        BY <1>0, <2>1
      <4>2. PICK k \in 1 .. Len(cache) : mem[cache[k].qname] = mem[f.name]
        BY <2>1, <3>1, <4>1 DEF Known
      <4>3. Find(cache, mem[f.name]) = 0
        BY Zenon, <1>4, <2>1 DEF QueueRequest, find_cache
      <4>4. Len(cache) \in Nat
        BY LenProperties DEF Names
      <4> QED
        BY <4>2, <4>3, <4>4, Found
    <3> QED
      BY <1>0, <3>1
  <2>4. \A i \in 1 .. Len(stack') : stack'[i].fn # "fetch_ppd"
    <3>1. \A i \in 1 .. n : i \in 1 .. n - 1 \/ i = n
      BY <1>0
    <3>2. \A i \in 1 .. n - 1 : stack[i].fn # "fetch_ppd"
      BY <1>0
    <3> QED
      BY <2>1, <2>2, <3>1, <3>2
  <2>5. ASSUME NEW p \in Called, Waits(p) PROVE Waits(p)'
    <3> DEFINE last == Len(lists'[queued'])
    <3>1. /\ queued' \in 1 .. Len(lists') /\ last \in 1 .. last
          /\ lists'[queued'][last].method = f.callback
          /\ Len(lists') \in Nat /\ Len(lists) <= Len(lists')
          /\ \A l \in 1 .. Len(lists) : \A j \in 1 .. Len(lists[l]) :
                j \in 1 .. Len(lists'[l]) /\ lists'[l][j] = lists[l][j]
      <4> DEFINE entry == [qname |-> f.name, method |-> f.callback]
      <4>1. /\ queued' \in 1 .. Len(lists') /\ last \in 1 .. last
            /\ lists'[queued'][last] = entry
            /\ Len(lists') \in Nat /\ Len(lists) <= Len(lists')
            /\ \A l \in 1 .. Len(lists) : \A j \in 1 .. Len(lists[l]) :
                  j \in 1 .. Len(lists'[l]) /\ lists'[l][j] = lists[l][j]
        BY Zenon, <1>0, <2>1, ListInserted
      <4>2. entry.method = f.callback
        OBVIOUS
      <4> HIDE DEF entry
      <4> QED
        BY Zenon, <4>1, <4>2
    <3>2. CASE Fetching(p)
      <4>1. f.callback = p
        BY <1>0, <3>2 DEF Fetching
      <4>2. n \in 1 .. Len(stack')
        BY <1>0, <2>1, <2>2
      <4>3. PICK l \in 1 .. Len(lists') : l = queued'
        BY <3>1
      <4>4. PICK j \in 1 .. Len(lists'[l]) : j = last
        BY <3>1, <4>3
      <4>5. ToBeWalked(l, j)'
        BY Zenon, <2>2, <4>2, <4>3 DEF ToBeWalked
      <4> QED
        BY Zenon, <3>1, <4>1, <4>3, <4>4, <4>5 DEF Waits
    <3>3. CASE ~Fetching(p)
      <4>1. PICK l \in 1 .. Len(lists) :
               \E j \in 1 .. Len(lists[l]) : lists[l][j].method = p /\ ToBeWalked(l, j)
        BY Zenon, <2>5, <3>3 DEF Waits
      <4>2. PICK j \in 1 .. Len(lists[l]) : lists[l][j].method = p /\ ToBeWalked(l, j)
        BY <4>1
      <4>3. PICK i \in 1 .. n : stack[i].fn = "connected" /\ stack[i].list = l /\ stack[i].next <= j
        BY <1>0, <2>1, <4>2 DEF ToBeWalked
      <4>4. i \in 1 .. Len(stack') /\ stack'[i] = stack[i]
        BY <1>0, <2>1, <2>2, <4>3
      <4>5. ToBeWalked(l, j)'
        BY <4>3, <4>4 DEF ToBeWalked
      <4>6. l \in 1 .. Len(lists')
        BY <1>0, <3>1
      <4>7. j \in 1 .. Len(lists'[l]) /\ lists'[l][j].method = p
        BY Zenon, <3>1, <4>2
      <4> QED
        BY Zenon, <4>5, <4>6, <4>7 DEF Waits
    <3> QED
      BY <3>2, <3>3
  <2> QED
    BY <1>4, <1>new, <2>3, <2>4, <2>5, KnownFrom
\* The attempt ends, and the walk through the same list starts.
<1>5. ASSUME NEW ok \in BOOLEAN, self_connect(ok), ~(CheckUpToDate \/ Download \/ Deliver)
      PROVE  Known'
  <2>1. /\ n > 0 /\ f.fn = "self_connect" /\ Len(stack') = n
        /\ \A i \in 1 .. n - 1 : stack'[i] = stack[i]
        /\ stack'[n].fn = "connected" /\ stack'[n].list = queued /\ stack'[n].next = 1
    <3>1. queued \in Nat
      BY <1>0
    <3> QED
      BY <1>0, <1>5, <3>1, ConnectStack
  <2>2. \A i \in 1 .. n : stack[i].fn # "fetch_ppd"
    BY <1>0, <2>1
  <2>3. \A i \in 1 .. n : i \in 1 .. n - 1 \/ i = n
    BY <1>0
  <2>4. \A i \in 1 .. Len(stack') : stack'[i].fn # "fetch_ppd"
    <3>1. \A i \in 1 .. n - 1 : i \in 1 .. n
      BY <1>0
    <3> QED
      BY <2>1, <2>2, <2>3, <3>1
  <2>5. ASSUME NEW p \in Called, Waits(p) PROVE Waits(p)'
    <3>1. ~Fetching(p)
      BY <2>2 DEF Fetching
    <3>2. lists' = lists
      BY <1>5 DEF self_connect
    <3>3. PICK l \in 1 .. Len(lists) :
             \E j \in 1 .. Len(lists[l]) : lists[l][j].method = p /\ ToBeWalked(l, j)
      BY Zenon, <2>5, <3>1 DEF Waits
    <3>4. PICK j \in 1 .. Len(lists[l]) : lists[l][j].method = p /\ ToBeWalked(l, j)
      BY <3>3
    <3>5. PICK i \in 1 .. n :
             \/ stack[i].fn = "self_connect" /\ queued = l
             \/ stack[i].fn = "connected" /\ stack[i].list = l /\ stack[i].next <= j
      BY Zenon, <3>4 DEF ToBeWalked
    <3>6. \E k \in 1 .. Len(stack') :
             stack'[k].fn = "connected" /\ stack'[k].list = l /\ stack'[k].next <= j
      <4>1. CASE i = n
        <5>1. stack'[n].list = l /\ 1 <= j /\ n \in 1 .. n
          BY <1>0, <2>1, <3>5, <4>1
        <5> QED
          BY <2>1, <5>1
      <4>2. CASE i # n
        <5>1. i \in 1 .. n - 1
          BY <2>3, <4>2
        <5> QED
          BY <1>0, <2>1, <3>5, <4>2, <5>1
      <4> QED
        BY <4>1, <4>2
    <3>7. ToBeWalked(l, j)'
      BY Zenon, <3>6 DEF ToBeWalked
    <3> QED
      BY Zenon, <3>2, <3>4, <3>7 DEF Waits
  <2> QED
    BY <1>5, <1>new, <2>2, <2>4, <2>5, KnownFrom
\* The walk fetches for the next request of its list.
<1>6. ASSUME connected, ~(CheckUpToDate \/ Download \/ Deliver) PROVE Known'
  <2>1. /\ n > 0 /\ f.fn = "connected"
        /\ f.list \in 0 .. Len(lists) /\ f.next \in Nat \ {0}
        /\ \A i \in 1 .. n - 1 : stack'[i] = stack[i]
        /\ IF More(f)
           THEN /\ Len(stack') = n + 1
                /\ stack'[n].fn = "connected" /\ stack'[n].list = f.list
                /\ stack'[n].next = f.next + 1
                /\ stack'[n + 1].fn = "fetch_ppd"
                /\ stack'[n + 1].callback = lists[f.list][f.next].method
                /\ stack'[n + 1].check_uptodate = TRUE
           ELSE Len(stack') = n - 1
    BY Zenon, <1>6, WalkStack
  <2>2. \A i \in 1 .. n : stack[i].fn # "fetch_ppd" /\ stack[i].fn # "self_connect"
    <3>1. f.fn # "fetch_ppd" /\ f.fn # "self_connect"
      BY <2>1
    <3> QED
      BY <1>0, <3>1
  <2>3. /\ \A i \in 1 .. n : i \in 1 .. n - 1 \/ i = n
        /\ \A i \in 1 .. n + 1 : i \in 1 .. n - 1 \/ i = n \/ i = n + 1
        /\ n \in 1 .. n /\ n \in 1 .. n + 1 /\ n + 1 \in 1 .. n + 1
        /\ \A i \in 1 .. n - 1 : i \in 1 .. n /\ i \in 1 .. n + 1
    <3>1. n \in Nat /\ n > 0
      BY <1>0, <2>1
    <3> QED
      BY <3>1
  <2>m. Len(stack') = IF More(f) THEN n + 1 ELSE n - 1
    BY Zenon, <2>1
  <2>4. \A i \in 1 .. Len(stack') : stack'[i].fn = "fetch_ppd" => stack'[i].check_uptodate # FALSE
    <3>1. CASE More(f)
      BY Zenon, <2>1, <2>2, <2>3, <3>1
    <3>2. CASE ~More(f)
      BY Zenon, <2>1, <2>2, <2>3, <3>2
    <3> QED
      BY Zenon, <3>1, <3>2
  <2>5. ASSUME NEW p \in Called, Waits(p) PROVE Waits(p)'
    <3>1. ~Fetching(p)
      BY Zenon, <2>2 DEF Fetching
    <3>2. lists' = lists
      BY <1>6 DEF connected
    <3>3. PICK l \in 1 .. Len(lists) :
             \E j \in 1 .. Len(lists[l]) : lists[l][j].method = p /\ ToBeWalked(l, j)
      BY Zenon, <2>5, <3>1 DEF Waits
    <3>4. PICK j \in 1 .. Len(lists[l]) : lists[l][j].method = p /\ ToBeWalked(l, j)
      BY <3>3
    <3>5. PICK i \in 1 .. n : stack[i].fn = "connected" /\ stack[i].list = l /\ stack[i].next <= j
      BY Zenon, <2>2, <3>4 DEF ToBeWalked
    <3>6. CASE i \in 1 .. n - 1
      <4>1. i \in 1 .. Len(stack') /\ stack'[i] = stack[i]
        BY Zenon, <2>1, <2>3, <2>m, <3>6
      <4>2. ToBeWalked(l, j)'
        BY Zenon, <3>5, <4>1 DEF ToBeWalked
      <4> QED
        BY Zenon, <3>2, <3>4, <4>2 DEF Waits
    <3>7. CASE i = n
      <4>1. f.list = l /\ f.next <= j /\ f.next \in Nat /\ l # 0
        BY <1>0, <2>1, <3>5, <3>7
      <4>2. More(f)
        <5>1. lists[l] \in Seq(Entries) /\ Len(lists[l]) \in Nat
          BY <1>0, ElementOfSeq, LenProperties
        <5> QED
          BY <3>4, <4>1, <5>1 DEF More
      <4>3. /\ Len(stack') = n + 1
            /\ stack'[n].fn = "connected" /\ stack'[n].list = l /\ stack'[n].next = f.next + 1
            /\ stack'[n + 1].fn = "fetch_ppd" /\ stack'[n + 1].callback = lists[l][f.next].method
        BY Zenon, <2>1, <4>1, <4>2
      <4>4. CASE f.next = j
        <5>1. stack'[n + 1].callback = p /\ n + 1 \in 1 .. Len(stack')
          BY Zenon, <2>3, <3>4, <4>3, <4>4
        <5> QED
          BY Zenon, <4>3, <5>1 DEF Waits, Fetching
      <4>5. CASE f.next # j
        <5>1. stack'[n].next <= j
          BY <4>1, <4>3, <4>5
        <5>2. ToBeWalked(l, j)'
          BY Zenon, <2>3, <4>3, <5>1 DEF ToBeWalked
        <5> QED
          BY Zenon, <3>2, <3>4, <5>2 DEF Waits
      <4> QED
        BY <4>4, <4>5
    <3> QED
      BY <2>3, <3>6, <3>7
  <2> QED
    BY <1>6, <1>new, <2>2, <2>4, <2>5, KnownFrom
<1>7. CASE UNCHANGED vars \/ \E q \in Queues : ChangeAtServer(q)
  <2>1. UNCHANGED <<stack, lists, queued, cache, modtimes, delivered, mem, request>>
    BY <1>7 DEF vars, ChangeAtServer, cacheVars
  <2> QED
    BY Zenon, <2>1 DEF Known, FileOf, Cached, Waits, Fetching, ToBeWalked, Called
<1>8. CASE CheckUpToDate \/ Download \/ Deliver
  BY <1>8, KnownFetched
<1> QED
  BY Zenon, <1>1, <1>2, <1>4, <1>5, <1>6, <1>7, <1>8 DEF Next, Program

LEMMA KnownInit == Init => Known
<1> SUFFICES ASSUME Init PROVE Known
  OBVIOUS
<1>1. /\ Len(stack) = 0 /\ Len(modtimes) = 0 /\ Called = {}
  BY EmptySeq DEF Init, Called, NoRequest
<1> QED
  BY <1>1 DEF Known

\* A ChangePPD call that ended without its callback being called names a queue of which
\* another call's callback was given a file, if the caller's strings outlive the handler.
THEOREM KnownCorrect ==
    ASSUME NamesPersist
    PROVE  Spec => []NoCallbackOnlyIfKnown
<1>1. Types /\ Names /\ Known => NoCallbackOnlyIfKnown
  <2> SUFFICES ASSUME Types, Names, Known, stack = <<>>,
                      NEW r \in Requests, request[r].status = "answered", delivered[r] = <<>>
               PROVE  \E p \in Requests \ {r} : \E f \in ToSet(delivered[p]) :
                         f.queue = request[r].queue
    BY DEF NoCallbackOnlyIfKnown
  <2>1. r \in Called
    BY DEF Called
  <2>2. ~Waits(r)
    <3>1. Len(stack) = 0
      BY EmptySeq
    <3> QED
      BY <3>1 DEF Waits, Fetching, ToBeWalked
  <2>3. FileOf(request[r].queue)
    BY Zenon, <2>1, <2>2 DEF Known
  <2>4. PICK p \in Requests :
           \E i \in 1 .. Len(delivered[p]) : delivered[p][i].queue = request[r].queue
    BY <2>3 DEF FileOf
  <2>5. PICK i \in 1 .. Len(delivered[p]) : delivered[p][i].queue = request[r].queue
    BY <2>4
  <2>6. p # r
    <3>1. Len(<<>>) = 0
      BY EmptySeq
    <3> QED
      BY <2>5, <3>1
  <2>7. delivered[p][i] \in ToSet(delivered[p])
    <3>1. DOMAIN delivered[p] = 1 .. Len(delivered[p])
      BY LenProperties DEF Names
    <3> QED
      BY <2>5, <3>1 DEF ToSet
  <2> QED
    BY <2>5, <2>6, <2>7
<1>2. Control /\ Types /\ Sent /\ Names /\ Known /\ [Next]_vars => Known'
  BY KnownStep
<1> QED
  BY <1>1, <1>2, KnownInit, NamesCorrect, PTL DEF Spec

=============================================================================
