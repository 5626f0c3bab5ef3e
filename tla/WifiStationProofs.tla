------------------------- MODULE WifiStationProofs -------------------------
(***************************************************************************)
(* Theorems about WifiStation, for any number of retries, requests, lost   *)
(* connections and power cuts, and any order of the tasks.  What a task    *)
(* still has to do is a sequence of calls; the invariants are about which  *)
(* call stands in it, and which one after which.                           *)
(***************************************************************************)
EXTENDS WifiStation, TLAPS

Event == {"STA_START", "STA_DISCONNECTED", "GOT_IP", "AP_STACONNECTED"}

\* One of A stands in s.
Some(s, A) == \E n \in 1 .. Len(s) : s[n] \in A

\* No B stands after an A.
NotAfter(s, A, B) ==
    \A n, m \in 1 .. Len(s) : n < m /\ s[n] \in A => s[m] \notin B

\* An A stands in s with no B after it.
EndsIn(s, A, B) ==
    \E n \in 1 .. Len(s) : s[n] \in A /\ \A m \in n + 1 .. Len(s) : s[m] \notin B
-----------------------------------------------------------------------------
\* The three under Tail and concatenation.
LEMMA TailAt ==
  ASSUME NEW S, NEW s \in Seq(S), s # <<>>
  PROVE  /\ Tail(s) \in Seq(S) /\ Head(s) \in S /\ Head(s) = s[1]
         /\ Len(s) \in Nat /\ Len(s) >= 1 /\ Len(Tail(s)) = Len(s) - 1
         /\ \A n \in 1 .. Len(s) - 1 : Tail(s)[n] = s[n + 1]
  OBVIOUS

LEMMA SomeTail ==
  ASSUME NEW S, NEW s \in Seq(S), s # <<>>, NEW A
  PROVE  Some(s, A) <=> Head(s) \in A \/ Some(Tail(s), A)
  <1>1. ASSUME Some(s, A) PROVE Head(s) \in A \/ Some(Tail(s), A)
    <2>1. PICK n \in 1 .. Len(s) : s[n] \in A
      BY <1>1 DEF Some
    <2>2. CASE n = 1
      BY <2>1, <2>2, TailAt
    <2>3. CASE n # 1
      <3>1. n - 1 \in 1 .. Len(Tail(s)) /\ Tail(s)[n - 1] = s[n]
        BY <2>3, TailAt
      <3> QED
        BY <2>1, <3>1 DEF Some
    <2> QED
      BY <2>2, <2>3
  <1>2. ASSUME Head(s) \in A PROVE Some(s, A)
    BY <1>2, TailAt DEF Some
  <1>3. ASSUME Some(Tail(s), A) PROVE Some(s, A)
    <2>1. PICK n \in 1 .. Len(Tail(s)) : Tail(s)[n] \in A
      BY <1>3 DEF Some
    <2>2. n + 1 \in 1 .. Len(s) /\ s[n + 1] \in A
      BY <2>1, TailAt
    <2> QED
      BY <2>2 DEF Some
  <1> QED
    BY <1>1, <1>2, <1>3

LEMMA NotAfterTail ==
  ASSUME NEW S, NEW s \in Seq(S), s # <<>>, NEW A, NEW B, NotAfter(s, A, B)
  PROVE  NotAfter(Tail(s), A, B) /\ (Head(s) \in A => ~Some(Tail(s), B))
  <1>1. NotAfter(Tail(s), A, B)
    <2> SUFFICES ASSUME NEW n \in 1 .. Len(Tail(s)), NEW m \in 1 .. Len(Tail(s)),
                        n < m, Tail(s)[n] \in A
                 PROVE  Tail(s)[m] \notin B
      BY DEF NotAfter
    <2>1. n + 1 \in 1 .. Len(s) /\ m + 1 \in 1 .. Len(s) /\ n + 1 < m + 1
      BY TailAt
    <2>2. Tail(s)[n] = s[n + 1] /\ Tail(s)[m] = s[m + 1]
      BY TailAt
    <2> QED
      BY <2>1, <2>2 DEF NotAfter
  <1>2. ASSUME Head(s) \in A, NEW m \in 1 .. Len(Tail(s))
        PROVE  Tail(s)[m] \notin B
    <2>1. 1 \in 1 .. Len(s) /\ m + 1 \in 1 .. Len(s) /\ 1 < m + 1
      BY TailAt
    <2>2. s[1] \in A /\ Tail(s)[m] = s[m + 1]
      BY <1>2, TailAt
    <2> QED
      BY <2>1, <2>2 DEF NotAfter
  <1> QED
    BY <1>1, <1>2 DEF Some

LEMMA EndsInTail ==
  ASSUME NEW S, NEW s \in Seq(S), s # <<>>, NEW A, NEW B, EndsIn(s, A, B)
  PROVE  EndsIn(Tail(s), A, B) \/ (Head(s) \in A /\ ~Some(Tail(s), B))
  <1>1. PICK n \in 1 .. Len(s) : s[n] \in A /\ \A m \in n + 1 .. Len(s) : s[m] \notin B
    BY DEF EndsIn
  <1>2. \A m \in 1 .. Len(Tail(s)) :
            m + 1 \in 1 .. Len(s) /\ Tail(s)[m] = s[m + 1]
    BY TailAt
  <1>3. Len(Tail(s)) = Len(s) - 1 /\ Len(s) \in Nat /\ Head(s) = s[1]
    BY TailAt
  <1>4. CASE n = 1
    <2>1. \A m \in 1 .. Len(Tail(s)) : Tail(s)[m] \notin B
      BY <1>1, <1>2, <1>3, <1>4
    <2> QED
      BY <1>1, <1>3, <1>4, <2>1 DEF Some
  <1>5. CASE n # 1
    <2>1. n - 1 \in 1 .. Len(Tail(s)) /\ Tail(s)[n - 1] \in A
      BY <1>1, <1>2, <1>3, <1>5
    <2>2. \A m \in (n - 1) + 1 .. Len(Tail(s)) : Tail(s)[m] \notin B
      <3> SUFFICES ASSUME NEW m \in (n - 1) + 1 .. Len(Tail(s)) PROVE Tail(s)[m] \notin B
        OBVIOUS
      <3>1. m \in 1 .. Len(Tail(s)) /\ m + 1 \in n + 1 .. Len(s)
        BY <1>3
      <3> QED
        BY <1>1, <1>2, <3>1
    <2> QED
      BY <2>1, <2>2 DEF EndsIn
  <1> QED
    BY <1>4, <1>5

LEMMA ConcatAt ==
  ASSUME NEW S, NEW s \in Seq(S), NEW t \in Seq(S)
  PROVE  /\ s \o t \in Seq(S) /\ Len(s) \in Nat /\ Len(t) \in Nat
         /\ Len(s \o t) = Len(s) + Len(t)
         /\ \A n \in 1 .. Len(s) : (s \o t)[n] = s[n]
         /\ \A n \in 1 .. Len(t) : (s \o t)[Len(s) + n] = t[n]
         /\ \A n \in 1 .. Len(s) + Len(t) :
                n \in 1 .. Len(s) \/ (n - Len(s) \in 1 .. Len(t)
                                      /\ (s \o t)[n] = t[n - Len(s)])
  OBVIOUS

LEMMA SomeConcat ==
  ASSUME NEW S, NEW s \in Seq(S), NEW t \in Seq(S), NEW A
  PROVE  Some(s \o t, A) <=> Some(s, A) \/ Some(t, A)
  <1>1. ASSUME Some(s \o t, A) PROVE Some(s, A) \/ Some(t, A)
    <2>1. PICK n \in 1 .. Len(s) + Len(t) : (s \o t)[n] \in A
      BY <1>1, ConcatAt DEF Some
    <2> QED
      BY <2>1, ConcatAt DEF Some
  <1>2. ASSUME Some(s, A) PROVE Some(s \o t, A)
    <2>1. PICK n \in 1 .. Len(s) : s[n] \in A
      BY <1>2 DEF Some
    <2>2. n \in 1 .. Len(s \o t) /\ (s \o t)[n] \in A
      BY <2>1, ConcatAt
    <2> QED
      BY <2>2 DEF Some
  <1>3. ASSUME Some(t, A) PROVE Some(s \o t, A)
    <2>1. PICK n \in 1 .. Len(t) : t[n] \in A
      BY <1>3 DEF Some
    <2>2. Len(s) + n \in 1 .. Len(s \o t) /\ (s \o t)[Len(s) + n] \in A
      BY <2>1, ConcatAt
    <2> QED
      BY <2>2 DEF Some
  <1> QED
    BY <1>1, <1>2, <1>3

LEMMA NotAfterConcat ==
  ASSUME NEW S, NEW s \in Seq(S), NEW t \in Seq(S), NEW A, NEW B,
         NotAfter(s, A, B), NotAfter(t, A, B), ~Some(s, A) \/ ~Some(t, B)
  PROVE  NotAfter(s \o t, A, B)
  <1> SUFFICES ASSUME NEW n \in 1 .. Len(s) + Len(t), NEW m \in 1 .. Len(s) + Len(t),
                      n < m, (s \o t)[n] \in A, (s \o t)[m] \in B
               PROVE  FALSE
    BY ConcatAt DEF NotAfter
  <1>1. Len(s) \in Nat /\ Len(t) \in Nat
    OBVIOUS
  <1>2. CASE m \in 1 .. Len(s)
    <2>1. n \in 1 .. Len(s) /\ (s \o t)[n] = s[n] /\ (s \o t)[m] = s[m]
      BY <1>1, <1>2, ConcatAt
    <2> QED
      BY <1>2, <2>1 DEF NotAfter
  <1>3. CASE m \notin 1 .. Len(s)
    <2>1. m - Len(s) \in 1 .. Len(t) /\ (s \o t)[m] = t[m - Len(s)]
      BY <1>3, ConcatAt
    <2>2. CASE n \in 1 .. Len(s)
      <3>1. (s \o t)[n] = s[n]
        BY <2>2, ConcatAt
      <3> QED
        BY <2>1, <2>2, <3>1 DEF Some
    <2>3. CASE n \notin 1 .. Len(s)
      <3>1. n - Len(s) \in 1 .. Len(t) /\ (s \o t)[n] = t[n - Len(s)]
        BY <2>3, ConcatAt
      <3>2. n - Len(s) < m - Len(s)
        BY <1>1
      <3> QED
        BY <2>1, <3>1, <3>2 DEF NotAfter
    <2> QED
      BY <2>2, <2>3
  <1> QED
    BY <1>2, <1>3

LEMMA EndsInConcat ==
  ASSUME NEW S, NEW s \in Seq(S), NEW t \in Seq(S), NEW A, NEW B,
         EndsIn(t, A, B) \/ (EndsIn(s, A, B) /\ ~Some(t, B))
  PROVE  EndsIn(s \o t, A, B)
  <1>1. Len(s) \in Nat /\ Len(t) \in Nat /\ Len(s \o t) = Len(s) + Len(t)
    BY ConcatAt
  <1>2. CASE EndsIn(t, A, B)
    <2>1. PICK n \in 1 .. Len(t) : t[n] \in A /\ \A m \in n + 1 .. Len(t) : t[m] \notin B
      BY <1>2 DEF EndsIn
    <2>2. Len(s) + n \in 1 .. Len(s \o t) /\ (s \o t)[Len(s) + n] \in A
      BY <1>1, <2>1, ConcatAt
    <2>3. \A m \in (Len(s) + n) + 1 .. Len(s \o t) : (s \o t)[m] \notin B
      <3> SUFFICES ASSUME NEW m \in (Len(s) + n) + 1 .. Len(s) + Len(t)
                   PROVE  (s \o t)[m] \notin B
        BY <1>1
      <3>1. m \in 1 .. Len(s) + Len(t) /\ m \notin 1 .. Len(s)
            /\ m - Len(s) \in n + 1 .. Len(t)
        BY <1>1
      <3>2. (s \o t)[m] = t[m - Len(s)]
        BY <3>1, ConcatAt
      <3> QED
        BY <2>1, <3>1, <3>2
    <2> QED
      BY <2>2, <2>3 DEF EndsIn
  <1>3. CASE EndsIn(s, A, B) /\ ~Some(t, B)
    <2>1. PICK n \in 1 .. Len(s) : s[n] \in A /\ \A m \in n + 1 .. Len(s) : s[m] \notin B
      BY <1>3 DEF EndsIn
    <2>2. n \in 1 .. Len(s \o t) /\ (s \o t)[n] \in A
      BY <1>1, <2>1, ConcatAt
    <2>3. \A m \in n + 1 .. Len(s \o t) : (s \o t)[m] \notin B
      <3> SUFFICES ASSUME NEW m \in n + 1 .. Len(s) + Len(t)
                   PROVE  (s \o t)[m] \notin B
        BY <1>1
      <3>1. CASE m \in 1 .. Len(s)
        <4>1. m \in n + 1 .. Len(s) /\ (s \o t)[m] = s[m]
          BY <1>1, <3>1, ConcatAt
        <4> QED
          BY <2>1, <4>1
      <3>2. CASE m \notin 1 .. Len(s)
        <4>1. m \in 1 .. Len(s) + Len(t)
          BY <1>1
        <4>2. m - Len(s) \in 1 .. Len(t) /\ (s \o t)[m] = t[m - Len(s)]
          BY <3>2, <4>1, ConcatAt
        <4> QED
          BY <1>3, <4>2 DEF Some
      <3> QED
        BY <3>1, <3>2
    <2> QED
      BY <2>2, <2>3 DEF EndsIn
  <1> QED
    BY <1>2, <1>3
-----------------------------------------------------------------------------
\* The invariant.  obtain_time's first three calls are made before its time is
\* corrected, which happens once; the attempts are counted once per event.
Obtaining == {"initialize_sntp", "poll", "read"}

InOrder(s) ==
    /\ NotAfter(s, {"count_retry", "reset_retry"}, {"count_retry"})
    /\ NotAfter(s, {"init_time"}, Obtaining)
    /\ NotAfter(s, {"correct"}, Obtaining)

EventInv ==
    /\ InOrder(todo["event"])
    /\ Some(todo["event"], {"count_retry"}) => s_retry_num < EXAMPLE_ESP_MAXIMUM_RETRY
    /\ Some(todo["event"], Obtaining) => clock # 2 * Israel

\* A station whose configuration is not the credentials in RAM will be given
\* them by a task that is about to; whoever makes it a station does.
Configures(s) ==
    Some(s, {"set_mode_sta"}) => EndsIn(s, {"set_config_sta"}, {"set_mode_sta"})

CredInv ==
    /\ \A t \in Task : Configures(todo[t])
    /\ wifi.mode = "sta" /\ wifi.config # wifi_station_parm =>
        \E t \in Task : Some(todo[t], {"set_config_sta"})

\* Behind the last event that stops the server there is one that starts it, or
\* none that stops it is left and the server runs or will be started.
WillRun ==
    \/ EndsIn(queue, {"GOT_IP", "AP_STACONNECTED"}, {"STA_DISCONNECTED"})
    \/ /\ ~Some(queue, {"STA_DISCONNECTED"})
       /\ \/ EndsIn(todo["event"], {"start_webserver"}, {"stop_webserver"})
          \/ server /\ ~Some(todo["event"], {"stop_webserver"})

ServerInv ==
    /\ client => wifi.on /\ wifi.mode = "ap"
    /\ wifi.link = "up" \/ client => WillRun
-----------------------------------------------------------------------------
\* The sequences of calls the code consists of.
LEMMA ApCalls ==
  /\ init_wifi_ap \in Seq(Calls)
  /\ ~Some(init_wifi_ap, {"set_mode_sta", "set_config_sta"})
  /\ ~Some(init_wifi_ap, {"count_retry", "reset_retry", "init_time", "correct"})
  /\ ~Some(init_wifi_ap, Obtaining)
  BY DEF init_wifi_ap, Some, Calls, Obtaining

LEMMA NoneIsInOrder ==
  ASSUME NEW s \in Seq(Calls),
         ~Some(s, {"count_retry", "reset_retry", "init_time", "correct"})
  PROVE  InOrder(s)
  BY DEF InOrder, NotAfter, Some

LEMMA ConfigCalls ==
  ASSUME NEW parm \in Credentials
  PROVE  /\ wifi_config_sta(parm) \in Seq(Calls)
         /\ Configures(wifi_config_sta(parm))
         /\ parm # "none" => Some(wifi_config_sta(parm), {"set_config_sta"})
  <1>1. CASE parm = "none"
    <2>1. wifi_config_sta(parm) = init_wifi_ap
      BY <1>1 DEF wifi_config_sta
    <2>2. ~Some(init_wifi_ap, {"set_mode_sta"})
      BY ApCalls DEF Some
    <2> QED
      BY <1>1, <2>1, <2>2, ApCalls DEF Configures
  <1>2. CASE parm # "none"
    <2> DEFINE s == <<"stop", "set_mode_sta", "set_config_sta", "start">>
    <2>1. wifi_config_sta(parm) = s
      BY <1>2 DEF wifi_config_sta
    <2>2. s \in Seq(Calls)
      BY DEF Calls
    <2>3. EndsIn(s, {"set_config_sta"}, {"set_mode_sta"})
      <3>1. 3 \in 1 .. Len(s) /\ s[3] = "set_config_sta" /\ s[4] # "set_mode_sta"
            /\ Len(s) = 4
        OBVIOUS
      <3> HIDE DEF s
      <3> QED
        BY <3>1 DEF EndsIn
    <2>4. Some(s, {"set_config_sta"})
      BY DEF Some
    <2> QED
      BY <2>1, <2>2, <2>3, <2>4 DEF Configures
  <1> QED
    BY <1>1, <1>2

\* What a lost connection starts.
LEMMA LostCalls ==
  /\ lost \in Seq(Calls) /\ InOrder(lost)
  /\ ~Some(lost, {"set_mode_sta", "set_config_sta"} \union Obtaining)
  /\ Some(lost, {"count_retry"}) => s_retry_num < EXAMPLE_ESP_MAXIMUM_RETRY
  <1>1. CASE s_retry_num < EXAMPLE_ESP_MAXIMUM_RETRY
    <2> DEFINE s == <<"connect", "count_retry">>
    <2>1. lost = s
      BY <1>1 DEF lost
    <2>2. s \in Seq(Calls) /\ Len(s) = 2 /\ s[1] = "connect" /\ s[2] = "count_retry"
      BY DEF Calls
    <2> HIDE DEF s
    <2>3. InOrder(s)
      BY <2>2 DEF InOrder, NotAfter
    <2>4. ~Some(s, {"set_mode_sta", "set_config_sta"} \union Obtaining)
      BY <2>2 DEF Some, Obtaining
    <2> QED
      BY <1>1, <2>1, <2>2, <2>3, <2>4
  <1>2. CASE ~(s_retry_num < EXAMPLE_ESP_MAXIMUM_RETRY)
    <2>1. lost = init_wifi_ap
      BY <1>2 DEF lost
    <2>2. InOrder(init_wifi_ap)
      BY ApCalls, NoneIsInOrder
    <2>3. /\ ~Some(init_wifi_ap, {"set_mode_sta", "set_config_sta"} \union Obtaining)
          /\ ~Some(init_wifi_ap, {"count_retry"})
      BY ApCalls DEF Some
    <2> QED
      BY <2>1, <2>2, <2>3, ApCalls
  <1> QED
    BY <1>1, <1>2

\* What is common to the calls of all events.
EventCallsOK(s) ==
    /\ s \in Seq(Calls) /\ InOrder(s)
    /\ ~Some(s, {"set_mode_sta", "set_config_sta"} \union Obtaining)
    /\ Some(s, {"count_retry"}) => s_retry_num < EXAMPLE_ESP_MAXIMUM_RETRY

LEMMA DisconnectedCalls ==
  ASSUME NEW s \in event_handler("STA_DISCONNECTED")
  PROVE  EventCallsOK(s)
  <1> DEFINE w == <<"stop_webserver">>
  <1>1. s = lost \o w \/ s = w \o lost
    BY DEF event_handler
  <1>2. w \in Seq(Calls) /\ Len(w) = 1 /\ w[1] = "stop_webserver"
    BY DEF Calls
  <1> HIDE DEF w
  <1>3. /\ ~Some(w, {"count_retry", "reset_retry", "init_time", "correct"})
        /\ ~Some(w, {"set_mode_sta", "set_config_sta"} \union Obtaining)
    BY <1>2 DEF Some, Obtaining
  <1>4. InOrder(w)
    BY <1>2, <1>3, NoneIsInOrder
  <1>5. /\ ~Some(w, {"count_retry", "reset_retry"}) /\ ~Some(w, {"count_retry"})
        /\ ~Some(w, {"init_time"}) /\ ~Some(w, {"correct"}) /\ ~Some(w, Obtaining)
    BY <1>3 DEF Some
  <1>6. InOrder(s)
    BY <1>1, <1>2, <1>4, <1>5, LostCalls, NotAfterConcat DEF InOrder
  <1>7. s \in Seq(Calls)
    <2>1. lost \in Seq(Calls)
      BY LostCalls
    <2>2. lost \o w \in Seq(Calls) /\ w \o lost \in Seq(Calls)
      BY <1>2, <2>1
    <2> QED
      BY <1>1, <2>2
  <1> DEFINE A == {"set_mode_sta", "set_config_sta"} \union Obtaining
  <1>8. ~Some(s, A)
    <2>1. ~Some(lost, A) /\ ~Some(w, A)
      BY <1>3, LostCalls
    <2> HIDE DEF A
    <2>2. ~Some(lost \o w, A) /\ ~Some(w \o lost, A)
      BY <1>2, <2>1, LostCalls, SomeConcat
    <2> QED
      BY <1>1, <2>2
  <1>9. Some(s, {"count_retry"}) => Some(lost, {"count_retry"})
    <2>1. Some(lost \o w, {"count_retry"}) \/ Some(w \o lost, {"count_retry"})
          => Some(lost, {"count_retry"})
      BY <1>2, <1>5, LostCalls, SomeConcat
    <2> QED
      BY <1>1, <2>1
  <1> QED
    BY <1>6, <1>7, <1>8, <1>9, LostCalls DEF EventCallsOK

LEMMA AddressCalls ==
  ASSUME NEW s \in event_handler("GOT_IP")
  PROVE  /\ EventCallsOK(s)
         /\ EndsIn(s, {"start_webserver"}, {"stop_webserver"})
  <1> DEFINE s1 == <<"start_webserver", "reset_retry", "start_webserver", "init_time">>
             s2 == <<"reset_retry", "start_webserver", "init_time", "start_webserver">>
  <1>0. s = s1 \/ s = s2
    BY DEF event_handler
  <1>1. /\ s \in Seq(Calls) /\ Len(s) = 4
        /\ \/ /\ s[1] = "start_webserver" /\ s[2] = "reset_retry"
              /\ s[3] = "start_webserver" /\ s[4] = "init_time"
           \/ /\ s[1] = "reset_retry" /\ s[2] = "start_webserver"
              /\ s[3] = "init_time" /\ s[4] = "start_webserver"
    <2>1. CASE s = s1
      BY <2>1 DEF Calls
    <2>2. CASE s = s2
      BY <2>2 DEF Calls
    <2> QED
      BY <1>0, <2>1, <2>2
  <1> HIDE DEF s1, s2
  <1>2. ~Some(s, {"set_mode_sta", "set_config_sta", "count_retry", "stop_webserver"}
                 \union Obtaining)
    BY <1>1 DEF Some, Obtaining
  <1>3. InOrder(s)
    BY <1>1, <1>2 DEF InOrder, NotAfter, Some
  <1>4. EndsIn(s, {"start_webserver"}, {"stop_webserver"})
    <2>1. PICK n \in 1 .. 4 : s[n] = "start_webserver"
      BY <1>1
    <2> QED
      BY <1>1, <1>2, <2>1 DEF EndsIn, Some
  <1> QED
    BY <1>1, <1>2, <1>3, <1>4 DEF EventCallsOK, Some

LEMMA OneCall ==
  ASSUME NEW c \in {"connect", "start_webserver"}
  PROVE  /\ EventCallsOK(<<c>>) /\ ~Some(<<c>>, {"stop_webserver"})
         /\ c = "start_webserver" => EndsIn(<<c>>, {"start_webserver"}, {"stop_webserver"})
  <1>1. <<c>> \in Seq(Calls) /\ Len(<<c>>) = 1 /\ <<c>>[1] = c
    BY DEF Calls
  <1>2. /\ ~Some(<<c>>, {"count_retry", "reset_retry", "init_time", "correct"})
        /\ ~Some(<<c>>, {"set_mode_sta", "set_config_sta"} \union Obtaining)
        /\ ~Some(<<c>>, {"count_retry"}) /\ ~Some(<<c>>, {"stop_webserver"})
    BY <1>1 DEF Some, Obtaining
  <1>3. InOrder(<<c>>)
    BY <1>1, <1>2, NoneIsInOrder
  <1>4. c = "start_webserver" => EndsIn(<<c>>, {"start_webserver"}, {"stop_webserver"})
    BY <1>1 DEF EndsIn
  <1> QED
    BY <1>1, <1>2, <1>3, <1>4 DEF EventCallsOK

LEMMA OtherCalls ==
  /\ event_handler("STA_START") = {<<"connect">>}
  /\ event_handler("AP_STACONNECTED") = {<<"start_webserver">>}
  BY DEF event_handler

LEMMA TimeCalls ==
  /\ obtain_time \in Seq(Calls) /\ InOrder(obtain_time)
  /\ ~Some(obtain_time, {"count_retry", "reset_retry", "init_time",
                         "start_webserver", "stop_webserver",
                         "set_mode_sta", "set_config_sta"})
  <1>1. /\ obtain_time \in Seq(Calls) /\ Len(obtain_time) = 5
        /\ obtain_time[1] = "initialize_sntp" /\ obtain_time[2] = "poll"
        /\ obtain_time[3] = "read" /\ obtain_time[4] = "correct"
        /\ obtain_time[5] = "announce"
    BY DEF obtain_time, Calls
  <1>2. ~Some(obtain_time, {"count_retry", "reset_retry", "init_time",
                            "start_webserver", "stop_webserver",
                            "set_mode_sta", "set_config_sta"})
    BY <1>1 DEF Some
  <1>3. NotAfter(obtain_time, {"correct"}, Obtaining)
    BY <1>1 DEF NotAfter, Obtaining
  <1>4. NotAfter(obtain_time, {"init_time"}, Obtaining)
        /\ NotAfter(obtain_time, {"count_retry", "reset_retry"}, {"count_retry"})
    BY <1>2 DEF NotAfter, Some
  <1> QED
    BY <1>1, <1>2, <1>3, <1>4 DEF InOrder
-----------------------------------------------------------------------------
\* The parts of the type invariant, and the whole invariant.
Wifi == [on : BOOLEAN, mode : {"none", "ap", "sta"}, config : Credentials,
         link : {"down", "connecting", "up"}]

DriverTypeOK ==
    /\ wifi \in Wifi /\ (wifi.link # "down" => wifi.on /\ wifi.mode = "sta")
    /\ client \in BOOLEAN /\ queue \in Seq(Event)

TaskTypeOK ==
    /\ wifi_station_parm \in Credentials /\ stored \in Credentials
    /\ s_retry_num \in 0 .. EXAMPLE_ESP_MAXIMUM_RETRY
    /\ server \in BOOLEAN /\ pending \subseteq Request
    /\ todo \in [Task -> Seq(Calls)]

CountTypeOK ==
    sent \in 0 .. MaxRequests /\ drops \in 0 .. MaxDrops /\ cuts \in 0 .. MaxCuts

WifiInv ==
    /\ DriverTypeOK /\ TaskTypeOK /\ CountTypeOK /\ ClockTypeOK
    /\ EventInv /\ CredInv /\ ServerInv

LEMMA TypeParts ==
  WifiTypeOK <=> DriverTypeOK /\ TaskTypeOK /\ CountTypeOK /\ ClockTypeOK
  BY DEF WifiTypeOK, DriverTypeOK, TaskTypeOK, CountTypeOK, Wifi, Event

LEMMA DisconnectedType == ASSUME NEW e \in Disconnected PROVE e \in Seq(Event)
  <1>1. <<"STA_DISCONNECTED">> \in Seq(Event) /\ <<>> \in Seq(Event)
    BY DEF Event
  <1>2. e = <<"STA_DISCONNECTED">> \/ e = <<>>
    BY DEF Disconnected
  <1> QED
    BY <1>1, <1>2

\* A call of the driver keeps whoever is connected or disconnects them all; only
\* set_config_sta changes the configuration, only set_mode_sta makes a station.
LEMMA DriverStep ==
  ASSUME DriverTypeOK, wifi_station_parm \in Credentials,
         client => wifi.on /\ wifi.mode = "ap",
         NEW call, DriverCall(call)
  PROVE  /\ DriverTypeOK'
         /\ client' => wifi'.on /\ wifi'.mode = "ap"
         /\ wifi'.link = "up" \/ client' =>
                (wifi.link = "up" \/ client) /\ queue' = queue
         /\ call = "set_config_sta" => wifi'.config = wifi_station_parm
         /\ call # "set_config_sta" => wifi'.config = wifi.config
         /\ wifi'.mode = "sta" => wifi.mode = "sta" \/ call = "set_mode_sta"
  <1>1. CASE call = "stop" /\ esp_wifi_stop
    <2>1. /\ wifi' = [wifi EXCEPT !.on = FALSE, !.link = "down"] /\ client' = FALSE
      BY <1>1 DEF esp_wifi_stop
    <2>2. PICK e \in Disconnected : queue' = queue \o e
      BY <1>1 DEF esp_wifi_stop, Post
    <2>3. e \in Seq(Event)
      BY DisconnectedType
    <2>4. queue' \in Seq(Event)
      BY <2>2, <2>3 DEF DriverTypeOK
    <2> QED
      BY <1>1, <2>1, <2>4 DEF DriverTypeOK, Wifi
  <1>2. ASSUME NEW m \in {"ap", "sta"}, esp_wifi_set_mode(m),
               call = IF m = "ap" THEN "set_mode_ap" ELSE "set_mode_sta"
        PROVE  /\ DriverTypeOK'
               /\ client' => wifi'.on /\ wifi'.mode = "ap"
               /\ wifi'.link = "up" \/ client' =>
                      (wifi.link = "up" \/ client) /\ queue' = queue
               /\ wifi'.config = wifi.config
               /\ wifi'.mode = "sta" => wifi.mode = "sta" \/ call = "set_mode_sta"
    <2>1. CASE wifi.on /\ wifi.mode # m
      <3>1. wifi' = [wifi EXCEPT !.mode = m, !.link = "down"] /\ client' = FALSE
        BY <1>2, <2>1 DEF esp_wifi_set_mode
      <3>2. PICK e \in Disconnected :
                queue' = queue \o (IF m = "sta" THEN Append(e, "STA_START") ELSE e)
        BY <1>2, <2>1 DEF esp_wifi_set_mode, Post
      <3>3. e \in Seq(Event) /\ Append(e, "STA_START") \in Seq(Event)
        <4>1. e \in Seq(Event) /\ "STA_START" \in Event
          BY DisconnectedType DEF Event
        <4> QED
          BY <4>1
      <3>4. queue' \in Seq(Event)
        BY <3>2, <3>3 DEF DriverTypeOK
      <3> QED
        BY <1>2, <3>1, <3>4 DEF DriverTypeOK, Wifi
    <2>2. CASE ~(wifi.on /\ wifi.mode # m)
      <3>1. wifi' = [wifi EXCEPT !.mode = m] /\ UNCHANGED <<client, queue>>
        BY <1>2, <2>2 DEF esp_wifi_set_mode
      <3> QED
        BY <1>2, <2>2, <3>1 DEF DriverTypeOK, Wifi
    <2> QED
      BY <2>1, <2>2
  <1>3. CASE call = "set_config_ap" /\ wifi.mode = "ap" /\ esp_wifi_set_config("ap")
    <2>1. wifi' = wifi /\ UNCHANGED <<client, queue>>
      BY <1>3 DEF esp_wifi_set_config
    <2> QED
      BY <1>3, <2>1 DEF DriverTypeOK
  <1>4. CASE call = "set_config_sta" /\ wifi.mode = "sta" /\ esp_wifi_set_config("sta")
    <2>1. wifi' = [wifi EXCEPT !.config = wifi_station_parm] /\ UNCHANGED <<client, queue>>
      BY <1>4 DEF esp_wifi_set_config
    <2> QED
      BY <1>4, <2>1 DEF DriverTypeOK, Wifi
  <1>5. CASE call = "start" /\ esp_wifi_start
    <2>1. /\ wifi' \in Wifi /\ wifi'.on /\ wifi'.mode = wifi.mode
          /\ wifi'.config = wifi.config /\ wifi'.link = wifi.link /\ client' = client
      BY <1>5 DEF esp_wifi_start, DriverTypeOK, Wifi
    <2>2. CASE ~wifi.on /\ wifi.mode = "sta"
      <3>1. queue' = queue \o <<"STA_START">>
        BY <1>5, <2>2 DEF esp_wifi_start, Post
      <3>2. <<"STA_START">> \in Seq(Event)
        BY DEF Event
      <3>3. queue' \in Seq(Event)
        BY <3>1, <3>2 DEF DriverTypeOK
      <3> QED
        BY <1>5, <2>1, <2>2, <3>3 DEF DriverTypeOK, Wifi
    <2>3. CASE ~(~wifi.on /\ wifi.mode = "sta")
      <3>1. queue' = queue \o <<>>
        BY <1>5, <2>3 DEF esp_wifi_start, Post
      <3>2. queue' = queue
        BY <3>1 DEF DriverTypeOK
      <3> QED
        BY <1>5, <2>1, <2>3, <3>2 DEF DriverTypeOK, Wifi
    <2> QED
      BY <2>2, <2>3
  <1>6. CASE call = "connect" /\ esp_wifi_connect
    <2>1. CASE wifi.on /\ wifi.mode = "sta" /\ wifi.link = "down"
      <3>1. wifi' = [wifi EXCEPT !.link = "connecting"] /\ UNCHANGED <<client, queue>>
        BY <1>6, <2>1 DEF esp_wifi_connect
      <3> QED
        BY <1>6, <2>1, <3>1 DEF DriverTypeOK, Wifi
    <2>2. CASE ~(wifi.on /\ wifi.mode = "sta" /\ wifi.link = "down")
      BY <1>6, <2>2 DEF esp_wifi_connect, DriverTypeOK
    <2> QED
      BY <2>1, <2>2
  <1> QED
    <2>1. CASE call = "set_mode_ap" /\ esp_wifi_set_mode("ap")
      BY <1>2, <2>1
    <2>2. CASE call = "set_mode_sta" /\ esp_wifi_set_mode("sta")
      BY <1>2, <2>2
    <2> QED
      BY <1>1, <1>3, <1>4, <1>5, <1>6, <2>1, <2>2 DEF DriverCall

\* What stays true of the calls when a task makes the first of them.
LEMMA Made ==
  ASSUME todo \in [Task -> Seq(Calls)], NEW t \in Task, todo[t] # <<>>, Done(t)
  PROVE  /\ todo' \in [Task -> Seq(Calls)]
         /\ todo'[t] = Tail(todo[t])
         /\ \A u \in Task \ {t} : todo'[u] = todo[u]
         /\ Next_call(t) \in Calls /\ Tail(todo[t]) \in Seq(Calls)
  BY TailAt DEF Done, Next_call

LEMMA OrderTail ==
  ASSUME NEW s \in Seq(Calls), s # <<>>, InOrder(s)
  PROVE  /\ InOrder(Tail(s))
         /\ Head(s) \in {"count_retry", "reset_retry"} => ~Some(Tail(s), {"count_retry"})
         /\ Head(s) \in {"init_time", "correct"} => ~Some(Tail(s), Obtaining)
  BY NotAfterTail DEF InOrder

LEMMA ConfiguresTail ==
  ASSUME NEW s \in Seq(Calls), s # <<>>, Configures(s)
  PROVE  /\ Configures(Tail(s))
         /\ Head(s) = "set_mode_sta" => Some(Tail(s), {"set_config_sta"})
  <1>1. Tail(s) \in Seq(Calls)
    BY TailAt
  <1>2. ASSUME Some(s, {"set_mode_sta"}), Some(Tail(s), {"set_mode_sta"})
               \/ Head(s) = "set_mode_sta"
        PROVE  EndsIn(Tail(s), {"set_config_sta"}, {"set_mode_sta"})
    <2>1. EndsIn(s, {"set_config_sta"}, {"set_mode_sta"})
      BY <1>2 DEF Configures
    <2>2. EndsIn(Tail(s), {"set_config_sta"}, {"set_mode_sta"})
          \/ (Head(s) \in {"set_config_sta"} /\ ~Some(Tail(s), {"set_mode_sta"}))
      BY <2>1, EndsInTail
    <2> QED
      BY <1>2, <2>2
  <1>3. Head(s) = "set_mode_sta" \/ Some(Tail(s), {"set_mode_sta"})
        => Some(s, {"set_mode_sta"})
    BY SomeTail
  <1>4. EndsIn(Tail(s), {"set_config_sta"}, {"set_mode_sta"})
        => Some(Tail(s), {"set_config_sta"})
    BY DEF EndsIn, Some
  <1> QED
    BY <1>2, <1>3, <1>4 DEF Configures
-----------------------------------------------------------------------------
\* The steps.  EventMade: the event task makes a call that changes neither the
\* server nor the queue.
LEMMA EventMade ==
  ASSUME todo["event"] \in Seq(Calls), todo["event"] # <<>>,
         todo'["event"] = Tail(todo["event"]),
         Head(todo["event"]) \notin {"start_webserver", "stop_webserver"},
         queue' = queue, server' = server, WillRun
  PROVE  WillRun'
  <1>1. EndsIn(todo["event"], {"start_webserver"}, {"stop_webserver"})
        => EndsIn(todo'["event"], {"start_webserver"}, {"stop_webserver"})
    BY EndsInTail
  <1>2. Some(todo'["event"], {"stop_webserver"}) => Some(todo["event"], {"stop_webserver"})
    BY SomeTail
  <1> QED
    BY <1>1, <1>2 DEF WillRun

LEMMA CallDriverStep ==
  ASSUME WifiInv, NEW t \in Task, CallDriver(t)
  PROVE  WifiInv'
  <1> DEFINE call == Next_call(t)
  <1>1. /\ todo[t] # <<>> /\ DriverCall(call) /\ Done(t)
        /\ UNCHANGED <<credVars, s_retry_num, webVars, countVars, clockVars>>
    BY DEF CallDriver
  <1>2. /\ todo' \in [Task -> Seq(Calls)] /\ todo'[t] = Tail(todo[t])
        /\ \A u \in Task \ {t} : todo'[u] = todo[u]
        /\ \A u \in Task : todo[u] \in Seq(Calls)
    BY <1>1, Made DEF WifiInv, TaskTypeOK
  <1>3. /\ DriverTypeOK'
        /\ client' => wifi'.on /\ wifi'.mode = "ap"
        /\ wifi'.link = "up" \/ client' => (wifi.link = "up" \/ client) /\ queue' = queue
        /\ call = "set_config_sta" => wifi'.config = wifi_station_parm
        /\ call # "set_config_sta" => wifi'.config = wifi.config
        /\ wifi'.mode = "sta" => wifi.mode = "sta" \/ call = "set_mode_sta"
    BY <1>1, DriverStep DEF WifiInv, TaskTypeOK, ServerInv
  <1>4. call = Head(todo[t]) /\ call \notin {"start_webserver", "stop_webserver"}
    BY <1>1 DEF DriverCall, Next_call
  <1> HIDE DEF call
  <1>5. TaskTypeOK' /\ CountTypeOK' /\ ClockTypeOK'
    BY <1>1, <1>2 DEF WifiInv, TaskTypeOK, CountTypeOK, ClockTypeOK,
                      credVars, webVars, countVars, clockVars
  <1>6. EventInv'
    <2>1. CASE t = "event"
      <3>1. /\ InOrder(Tail(todo[t]))
            /\ Some(Tail(todo[t]), {"count_retry"}) => Some(todo[t], {"count_retry"})
            /\ Some(Tail(todo[t]), Obtaining) => Some(todo[t], Obtaining)
        BY <1>1, <1>2, <2>1, OrderTail, SomeTail DEF WifiInv, EventInv
      <3> QED
        BY <1>1, <1>2, <2>1, <3>1 DEF WifiInv, EventInv, clockVars
    <2>2. CASE t # "event"
      <3>1. todo'["event"] = todo["event"]
        BY <1>2, <2>2 DEF Task
      <3> QED
        BY <1>1, <3>1 DEF WifiInv, EventInv, clockVars
    <2> QED
      BY <2>1, <2>2
  <1>7. CredInv'
    <2>1. \A u \in Task : Configures(todo'[u])
      <3>1. Configures(Tail(todo[t]))
        BY <1>1, <1>2, ConfiguresTail DEF WifiInv, CredInv
      <3> QED
        BY <1>2, <3>1 DEF WifiInv, CredInv
    <2>2. ASSUME wifi'.mode = "sta", wifi'.config # wifi_station_parm'
          PROVE  \E u \in Task : Some(todo'[u], {"set_config_sta"})
      <3>1. call # "set_config_sta" /\ wifi'.config = wifi.config
            /\ wifi.config # wifi_station_parm
        BY <1>1, <1>3, <2>2 DEF credVars
      <3>2. CASE call = "set_mode_sta"
        <4>1. Some(Tail(todo[t]), {"set_config_sta"})
          BY <1>1, <1>2, <1>4, <3>2, ConfiguresTail DEF WifiInv, CredInv
        <4> QED
          BY <1>2, <4>1
      <3>3. CASE wifi.mode = "sta"
        <4>1. PICK u \in Task : Some(todo[u], {"set_config_sta"})
          BY <3>1, <3>3 DEF WifiInv, CredInv
        <4>2. Some(todo[t], {"set_config_sta"})
              => Head(todo[t]) \in {"set_config_sta"} \/ Some(Tail(todo[t]), {"set_config_sta"})
          BY <1>1, <1>2, SomeTail
        <4>3. Some(todo'[u], {"set_config_sta"})
          BY <1>2, <1>4, <3>1, <4>1, <4>2
        <4> QED
          BY <4>3
      <3> QED
        BY <1>3, <2>2, <3>2, <3>3
    <2> QED
      BY <2>1, <2>2 DEF CredInv
  <1>8. ServerInv'
    <2> SUFFICES ASSUME wifi'.link = "up" \/ client' PROVE WillRun'
      BY <1>3 DEF ServerInv
    <2>1. WillRun /\ queue' = queue /\ server' = server
      BY <1>1, <1>3 DEF WifiInv, ServerInv, webVars
    <2>2. CASE t = "event"
      BY <1>1, <1>2, <1>4, <2>1, <2>2, EventMade
    <2>3. CASE t # "event"
      <3>1. todo'["event"] = todo["event"]
        BY <1>2, <2>3 DEF Task
      <3> QED
        BY <2>1, <3>1 DEF WillRun
    <2> QED
      BY <2>2, <2>3
  <1> QED
    BY <1>3, <1>5, <1>6, <1>7, <1>8 DEF WifiInv

LEMMA TakeEventStep ==
  ASSUME WifiInv, TakeEvent
  PROVE  WifiInv'
  <1> DEFINE e == Head(queue)
  <1>1. /\ todo["event"] = <<>> /\ queue # <<>> /\ queue' = Tail(queue)
        /\ UNCHANGED <<credVars, s_retry_num, webVars, wifi, client, countVars, clockVars>>
    BY DEF TakeEvent
  <1>2. PICK s \in event_handler(e) : todo' = [todo EXCEPT !["event"] = s]
    BY DEF TakeEvent
  <1>3. queue \in Seq(Event) /\ e \in Event /\ queue' \in Seq(Event)
    BY <1>1, TailAt DEF WifiInv, DriverTypeOK
  <1> HIDE DEF e
  <1>4. /\ EventCallsOK(s)
        /\ e \in {"GOT_IP", "AP_STACONNECTED"}
               => EndsIn(s, {"start_webserver"}, {"stop_webserver"})
        /\ e = "STA_START" => ~Some(s, {"stop_webserver"})
    <2>1. CASE e = "STA_DISCONNECTED"
      BY <2>1, DisconnectedCalls
    <2>2. CASE e = "GOT_IP"
      BY <2>2, AddressCalls
    <2>3. CASE e = "STA_START"
      <3>1. s = <<"connect">>
        BY <2>3, OtherCalls
      <3> QED
        BY <2>3, <3>1, OneCall
    <2>4. CASE e = "AP_STACONNECTED"
      <3>1. s = <<"start_webserver">>
        BY <2>4, OtherCalls
      <3> QED
        BY <2>4, <3>1, OneCall
    <2> QED
      BY <1>3, <2>1, <2>2, <2>3, <2>4 DEF Event
  <1>5. /\ todo' \in [Task -> Seq(Calls)] /\ todo'["event"] = s
        /\ \A u \in Task \ {"event"} : todo'[u] = todo[u]
    BY <1>2, <1>4 DEF WifiInv, TaskTypeOK, EventCallsOK, Task
  <1>6. DriverTypeOK' /\ TaskTypeOK' /\ CountTypeOK' /\ ClockTypeOK'
    BY <1>1, <1>3, <1>5 DEF WifiInv, DriverTypeOK, TaskTypeOK, CountTypeOK, ClockTypeOK,
                      credVars, webVars, countVars, clockVars
  <1>7. ~Some(s, {"set_mode_sta"}) /\ ~Some(s, Obtaining)
    BY <1>4 DEF EventCallsOK, Some
  <1>8. EventInv'
    BY <1>1, <1>4, <1>5, <1>7 DEF EventCallsOK, EventInv
  <1>9. CredInv'
    <2>1. \A u \in Task : Configures(todo'[u])
      BY <1>5, <1>7 DEF WifiInv, CredInv, Configures
    <2>2. \A u \in Task : Some(todo[u], {"set_config_sta"}) => u # "event"
      BY <1>1 DEF Some
    <2> QED
      BY <1>1, <1>5, <2>1, <2>2 DEF WifiInv, CredInv, credVars
  <1>10. ServerInv'
    <2> SUFFICES ASSUME wifi.link = "up" \/ client PROVE WillRun'
      BY <1>1 DEF WifiInv, ServerInv
    <2> DEFINE A == {"GOT_IP", "AP_STACONNECTED"}
               B == {"STA_DISCONNECTED"}
    <2>1. CASE EndsIn(queue, A, B)
      <3>1. EndsIn(Tail(queue), A, B) \/ (e \in A /\ ~Some(Tail(queue), B))
        BY <1>1, <1>3, <2>1, EndsInTail DEF e
      <3> QED
        BY <1>1, <1>4, <1>5, <3>1 DEF WillRun
    <2>2. CASE ~EndsIn(queue, A, B)
      <3>1. ~Some(queue, B) /\ server
        <4>1. ~EndsIn(todo["event"], {"start_webserver"}, {"stop_webserver"})
          BY <1>1 DEF EndsIn
        <4> QED
          BY <2>2, <4>1 DEF WifiInv, ServerInv, WillRun
      <3>2. e \notin B /\ ~Some(Tail(queue), B)
        BY <1>1, <1>3, <3>1, SomeTail DEF e
      <3>3. EndsIn(s, {"start_webserver"}, {"stop_webserver"})
            \/ ~Some(s, {"stop_webserver"})
        BY <1>3, <1>4, <3>2 DEF Event
      <3> QED
        BY <1>1, <1>5, <3>1, <3>2, <3>3 DEF WillRun, webVars
    <2> QED
      BY <2>1, <2>2
  <1> QED
    BY <1>6, <1>8, <1>9, <1>10 DEF WifiInv

LEMMA EventStepStep ==
  ASSUME WifiInv, EventStep
  PROVE  WifiInv'
  <1> DEFINE call == Next_call("event")
             rest == Tail(todo["event"])
  <1>1. /\ todo["event"] # <<>> /\ Done("event")
        /\ UNCHANGED <<credVars, driverVars, countVars, clockVars>>
        /\ \/ call = "start_webserver" /\ start_webserver
           \/ call = "stop_webserver" /\ stop_webserver
           \/ call = "count_retry" /\ count_retry
           \/ call = "reset_retry" /\ reset_retry
    BY DEF EventStep
  <1>2. /\ todo' \in [Task -> Seq(Calls)] /\ todo'["event"] = rest
        /\ \A u \in Task \ {"event"} : todo'[u] = todo[u]
        /\ todo["event"] \in Seq(Calls)
    BY <1>1, Made DEF WifiInv, TaskTypeOK, Task
  <1>3. call = Head(todo["event"])
    BY DEF Next_call
  <1>4. \A A : Some(todo["event"], A) <=> call \in A \/ Some(rest, A)
    BY <1>1, <1>2, <1>3, SomeTail
  <1>5. /\ InOrder(rest)
        /\ call \in {"count_retry", "reset_retry"} => ~Some(rest, {"count_retry"})
    BY <1>1, <1>2, <1>3, OrderTail DEF WifiInv, EventInv
  <1>6. Configures(rest)
    BY <1>1, <1>2, ConfiguresTail DEF WifiInv, CredInv, Task
  <1>7. /\ EndsIn(todo["event"], {"start_webserver"}, {"stop_webserver"})
           => \/ EndsIn(rest, {"start_webserver"}, {"stop_webserver"})
              \/ call = "start_webserver" /\ ~Some(rest, {"stop_webserver"})
    BY <1>1, <1>2, <1>3, EndsInTail
  <1> HIDE DEF call, rest
  <1>8. /\ server' \in BOOLEAN /\ pending' \subseteq Request
        /\ s_retry_num' \in 0 .. EXAMPLE_ESP_MAXIMUM_RETRY
        /\ Some(rest, {"count_retry"}) => s_retry_num' < EXAMPLE_ESP_MAXIMUM_RETRY
    <2>1. /\ s_retry_num \in 0 .. EXAMPLE_ESP_MAXIMUM_RETRY
          /\ Some(todo["event"], {"count_retry"}) => s_retry_num < EXAMPLE_ESP_MAXIMUM_RETRY
          /\ server \in BOOLEAN /\ pending \subseteq Request
      BY DEF WifiInv, TaskTypeOK, EventInv
    <2>2. CASE call \in {"start_webserver", "stop_webserver"}
      BY <1>1, <1>4, <2>1, <2>2 DEF start_webserver, stop_webserver
    <2>3. CASE call = "count_retry"
      BY <1>1, <1>4, <1>5, <2>1, <2>3, WifiConstants DEF count_retry, webVars
    <2>4. CASE call = "reset_retry"
      BY <1>1, <1>5, <2>1, <2>4, WifiConstants DEF reset_retry, webVars
    <2> QED
      BY <1>1, <2>2, <2>3, <2>4
  <1>9. DriverTypeOK' /\ TaskTypeOK' /\ CountTypeOK' /\ ClockTypeOK'
    BY <1>1, <1>2, <1>8 DEF WifiInv, DriverTypeOK, TaskTypeOK, CountTypeOK, ClockTypeOK,
                      credVars, driverVars, countVars, clockVars
  <1>10. EventInv'
    BY <1>1, <1>2, <1>4, <1>5, <1>8 DEF WifiInv, EventInv, clockVars
  <1>11. CredInv'
    <2>1. \A u \in Task : Configures(todo'[u])
      BY <1>2, <1>6 DEF WifiInv, CredInv
    <2>2. Some(todo["event"], {"set_config_sta"}) => Some(rest, {"set_config_sta"})
      BY <1>1, <1>4
    <2>3. \A u \in Task : Some(todo[u], {"set_config_sta"}) => Some(todo'[u], {"set_config_sta"})
      BY <1>2, <2>2
    <2> QED
      BY <1>1, <2>1, <2>3 DEF WifiInv, CredInv, credVars, driverVars
  <1>12. ServerInv'
    <2> SUFFICES ASSUME wifi.link = "up" \/ client PROVE WillRun'
      BY <1>1 DEF WifiInv, ServerInv, driverVars
    <2>1. WillRun /\ queue' = queue
      BY <1>1 DEF WifiInv, ServerInv, driverVars
    <2>2. server' = (call = "start_webserver" \/ (server /\ call # "stop_webserver"))
      BY <1>1 DEF start_webserver, stop_webserver, count_retry, reset_retry, webVars,
                  WifiInv, TaskTypeOK
    <2> QED
      BY <1>2, <1>4, <1>7, <2>1, <2>2 DEF WillRun
  <1> QED
    BY <1>9, <1>10, <1>11, <1>12 DEF WifiInv

LEMMA ClockStepStep ==
  ASSUME WifiInv, ClockStep
  PROVE  WifiInv'
  <1> DEFINE call == Next_call("event")
             rest == Tail(todo["event"])
  <1>1. /\ todo["event"] # <<>>
        /\ UNCHANGED <<credVars, s_retry_num, webVars, driverVars, countVars>>
    BY DEF ClockStep
  <1>2. /\ rest \in Seq(Calls) /\ call = Head(todo["event"]) /\ todo["event"] \in Seq(Calls)
    BY <1>1, TailAt DEF WifiInv, TaskTypeOK, Task, Next_call
  <1>3. \/ /\ call = "init_time" /\ UNCHANGED clockVars
           /\ todo' = [todo EXCEPT !["event"] = init_time \o rest]
        \/ call = "initialize_sntp" /\ initialize_sntp /\ todo' = [todo EXCEPT !["event"] = rest]
        \/ /\ call = "poll" /\ Poll
           /\ todo' = [todo EXCEPT !["event"] = IF PollEnds THEN rest ELSE todo["event"]]
        \/ call = "read" /\ ReadTime /\ todo' = [todo EXCEPT !["event"] = rest]
        \/ call = "correct" /\ CorrectTime /\ todo' = [todo EXCEPT !["event"] = rest]
        \/ call = "announce" /\ UNCHANGED clockVars /\ todo' = [todo EXCEPT !["event"] = rest]
    BY DEF ClockStep
  <1>4. \A A : Some(todo["event"], A) <=> call \in A \/ Some(rest, A)
    BY <1>1, <1>2, SomeTail
  <1>5. /\ InOrder(todo["event"]) /\ InOrder(rest)
        /\ call \in {"init_time", "correct"} => ~Some(rest, Obtaining)
    BY <1>1, <1>2, OrderTail DEF WifiInv, EventInv
  <1>6. Configures(todo["event"]) /\ Configures(rest)
    BY <1>1, <1>2, ConfiguresTail DEF WifiInv, CredInv, Task
  <1>7. EndsIn(todo["event"], {"start_webserver"}, {"stop_webserver"})
        => EndsIn(rest, {"start_webserver"}, {"stop_webserver"}) \/ call = "start_webserver"
    BY <1>1, <1>2, EndsInTail
  <1> HIDE DEF call, rest
  <1>8. PICK s :
            /\ todo' = [todo EXCEPT !["event"] = s]
            /\ \/ s = rest
               \/ s = todo["event"] /\ call = "poll"
               \/ s = obtain_time \o rest /\ call = "init_time" /\ clock = Unset
    <2>1. CASE call = "init_time" /\ clock = Unset
      BY <1>3, <2>1 DEF init_time
    <2>2. CASE call = "init_time" /\ clock # Unset
      <3>1. <<>> \o rest = rest
        BY <1>2
      <3> QED
        BY <1>3, <2>2, <3>1 DEF init_time
    <2>3. CASE call = "poll" /\ ~PollEnds
      BY <1>3, <2>3
    <2> QED
      BY <1>3, <2>1, <2>2, <2>3
  <1>9. /\ s \in Seq(Calls) /\ InOrder(s) /\ Configures(s)
        /\ Some(s, {"count_retry"}) => Some(todo["event"], {"count_retry"})
        /\ Some(s, {"stop_webserver"}) => Some(todo["event"], {"stop_webserver"})
        /\ Some(todo["event"], {"set_config_sta"}) => Some(s, {"set_config_sta"})
        /\ EndsIn(todo["event"], {"start_webserver"}, {"stop_webserver"})
               => EndsIn(s, {"start_webserver"}, {"stop_webserver"})
        /\ Some(s, Obtaining) => \/ Some(todo["event"], Obtaining) /\ call # "correct"
                                 \/ clock = Unset /\ call = "init_time"
    <2>1. CASE s = rest
      BY <1>2, <1>3, <1>4, <1>5, <1>6, <1>7, <2>1
    <2>2. CASE s = todo["event"] /\ call = "poll"
      BY <1>2, <1>5, <1>6, <2>2
    <2>3. CASE s = obtain_time \o rest /\ call = "init_time" /\ clock = Unset
      <3>1. /\ ~Some(obtain_time, {"count_retry", "reset_retry"})
            /\ ~Some(obtain_time, {"count_retry"}) /\ ~Some(obtain_time, {"init_time"})
            /\ ~Some(obtain_time, {"stop_webserver"})
            /\ ~Some(obtain_time, {"set_mode_sta"})
        BY TimeCalls DEF Some
      <3>2. s \in Seq(Calls)
        BY <1>2, <2>3, TimeCalls
      <3>3. \A A : Some(s, A) <=> Some(obtain_time, A) \/ Some(rest, A)
        BY <1>2, <2>3, TimeCalls, SomeConcat
      <3>4. InOrder(s)
        BY <1>2, <1>5, <2>3, <3>1, TimeCalls, NotAfterConcat DEF InOrder
      <3>5. \A A, B : EndsIn(rest, A, B) => EndsIn(s, A, B)
        BY <1>2, <2>3, TimeCalls, EndsInConcat
      <3>6. Configures(s)
        BY <1>6, <3>1, <3>3, <3>5 DEF Configures
      <3> QED
        BY <1>4, <1>7, <2>3, <3>1, <3>2, <3>3, <3>4, <3>5, <3>6
    <2> QED
      BY <1>8, <2>1, <2>2, <2>3
  <1>10. /\ todo' \in [Task -> Seq(Calls)] /\ todo'["event"] = s
         /\ \A u \in Task \ {"event"} : todo'[u] = todo[u]
    BY <1>8, <1>9 DEF WifiInv, TaskTypeOK, Task
  <1>11. ClockTypeOK' /\ (Some(s, Obtaining) => clock' # 2 * Israel)
    <2>1. /\ clock \in {Unset, 0, Israel, 2 * Israel} /\ Unset \notin Int
          /\ sntp \in [running : BOOLEAN, synced : BOOLEAN]
          /\ obtain \in [retry : 0 .. RetryCount - 1, seen : {Unset, 0, Israel}]
          /\ RetryCount \in Nat \ {0}
          /\ Some(todo["event"], Obtaining) => clock # 2 * Israel
      BY ClockConstants DEF WifiInv, ClockTypeOK, EventInv
    <2>2. /\ Some(s, Obtaining) => clock # 2 * Israel /\ call # "correct"
          /\ call = "read" => clock # 2 * Israel
      <3>1. Unset # 2 * Israel /\ "read" \in Obtaining
        BY <2>1 DEF Israel, Obtaining
      <3>2. "init_time" # "correct"
        OBVIOUS
      <3> QED
        BY <1>4, <1>9, <2>1, <3>1, <3>2
    <2>3. CASE call \in {"init_time", "announce"}
      BY <1>3, <2>1, <2>2, <2>3 DEF clockVars, ClockTypeOK
    <2>4. CASE call = "initialize_sntp"
      <3>1. /\ sntp' = [sntp EXCEPT !.running = TRUE] /\ clock' = clock
            /\ obtain' = [retry |-> 0, seen |-> Unset]
        BY <1>3, <2>4 DEF initialize_sntp, ObtainStart
      <3>2. sntp' \in [running : BOOLEAN, synced : BOOLEAN]
        BY <2>1, <3>1, Zenon
      <3>3. obtain' \in [retry : 0 .. RetryCount - 1, seen : {Unset, 0, Israel}]
        BY <2>1, <3>1
      <3> QED
        BY <2>1, <2>2, <3>1, <3>2, <3>3 DEF ClockTypeOK
    <2>5. CASE call = "poll"
      <3>1. /\ sntp' = [sntp EXCEPT !.synced = FALSE] /\ clock' = clock
            /\ \/ obtain' = obtain
               \/ /\ obtain' = [obtain EXCEPT !.retry = @ + 1]
                  /\ ~(obtain.retry + 1 >= RetryCount)
        BY <1>3, <2>5 DEF Poll, PollEnds
      <3>2. sntp' \in [running : BOOLEAN, synced : BOOLEAN]
        BY <2>1, <3>1, Zenon
      <3>3. obtain' \in [retry : 0 .. RetryCount - 1, seen : {Unset, 0, Israel}]
        BY <2>1, <3>1
      <3> QED
        BY <2>1, <2>2, <3>1, <3>2, <3>3 DEF ClockTypeOK
    <2>6. CASE call = "read"
      <3>1. /\ obtain' = [obtain EXCEPT !.seen = clock] /\ clock' = clock /\ sntp' = sntp
        BY <1>3, <2>6 DEF ReadTime
      <3> QED
        BY <2>1, <2>2, <2>6, <3>1 DEF ClockTypeOK
    <2>7. CASE call = "correct"
      <3>1. /\ clock' = IF obtain.seen = Unset THEN Unset ELSE obtain.seen + Israel
            /\ obtain' = [retry |-> 0, seen |-> Unset] /\ sntp' = sntp
        BY <1>3, <2>7 DEF CorrectTime, ObtainStart
      <3> QED
        BY <2>1, <2>2, <2>7, <3>1 DEF ClockTypeOK, Israel
    <2> QED
      BY <1>3, <2>3, <2>4, <2>5, <2>6, <2>7
  <1>12. DriverTypeOK' /\ TaskTypeOK' /\ CountTypeOK'
    BY <1>1, <1>10 DEF WifiInv, DriverTypeOK, TaskTypeOK, CountTypeOK,
                      credVars, webVars, driverVars, countVars
  <1>13. EventInv'
    BY <1>1, <1>9, <1>10, <1>11 DEF WifiInv, EventInv
  <1>14. CredInv'
    <2>1. \A u \in Task : /\ Configures(todo'[u])
                          /\ Some(todo[u], {"set_config_sta"}) => Some(todo'[u], {"set_config_sta"})
      BY <1>9, <1>10 DEF WifiInv, CredInv
    <2> QED
      BY <1>1, <2>1 DEF WifiInv, CredInv, credVars, driverVars
  <1>15. ServerInv'
    BY <1>1, <1>9, <1>10 DEF WifiInv, ServerInv, WillRun, driverVars, webVars
  <1> QED
    BY <1>11, <1>12, <1>13, <1>14, <1>15 DEF WifiInv

LEMMA TakeRequestStep ==
  ASSUME WifiInv, TakeRequest
  PROVE  WifiInv'
  <1>1. /\ todo["httpd"] = <<>> /\ UNCHANGED <<s_retry_num, server, driverVars, countVars>>
    BY DEF TakeRequest
  <1>2. PICK r \in pending :
            /\ pending' = pending \ {r}
            /\ CASE r = "sta_start" -> wifi_sta_start_handler
                 [] r = "save" -> update_time /\ UNCHANGED <<credVars, todo>>
                 [] OTHER -> wifi_setting_handler(r)
    BY DEF TakeRequest
  <1>3. r \in Request /\ pending' \subseteq Request
    BY <1>2 DEF WifiInv, TaskTypeOK
  <1>4. /\ wifi_station_parm' \in Credentials /\ stored' \in Credentials
        /\ \/ /\ todo' = [todo EXCEPT !["httpd"] = wifi_config_sta(wifi_station_parm')]
              /\ wifi_station_parm' = wifi_station_parm \/ wifi_station_parm' # "none"
              /\ UNCHANGED clockVars
           \/ todo' = todo /\ wifi_station_parm' = wifi_station_parm /\ update_time
    <2>1. wifi_station_parm \in Credentials /\ stored \in Credentials
      BY DEF WifiInv, TaskTypeOK
    <2>2. CASE r = "sta_start"
      BY <1>2, <2>1, <2>2 DEF wifi_sta_start_handler, credVars
    <2>3. CASE r = "save"
      BY <1>2, <2>1, <2>3 DEF credVars
    <2>4. CASE r \in {"good", "bad"}
      BY <1>2, <2>1, <2>4 DEF wifi_setting_handler, Save_WIFI_parmToMemory, Credentials
    <2> QED
      BY <1>3, <2>2, <2>3, <2>4 DEF Request
  <1> DEFINE c == wifi_config_sta(wifi_station_parm')
  <1>5. /\ c \in Seq(Calls) /\ Configures(c)
        /\ wifi_station_parm' # "none" => Some(c, {"set_config_sta"})
    BY <1>4, ConfigCalls
  <1> HIDE DEF c
  <1>6. /\ todo' \in [Task -> Seq(Calls)]
        /\ \A u \in Task \ {"httpd"} : todo'[u] = todo[u]
        /\ todo'["httpd"] = c \/ (todo' = todo /\ wifi_station_parm' = wifi_station_parm)
        /\ todo'["event"] = todo["event"]
    BY <1>4, <1>5 DEF WifiInv, TaskTypeOK, Task, c
  <1>7. ClockTypeOK' /\ (clock' = clock \/ clock' = Israel)
    BY <1>4 DEF WifiInv, ClockTypeOK, update_time, clockVars
  <1>8. DriverTypeOK' /\ TaskTypeOK' /\ CountTypeOK'
    BY <1>1, <1>3, <1>4, <1>6 DEF WifiInv, DriverTypeOK, TaskTypeOK, CountTypeOK,
                      driverVars, countVars
  <1>9. EventInv'
    BY <1>1, <1>6, <1>7 DEF WifiInv, EventInv, Israel
  <1>10. CredInv'
    <2>1. \A u \in Task : Configures(todo'[u])
      BY <1>5, <1>6 DEF WifiInv, CredInv
    <2>2. ASSUME wifi'.mode = "sta", wifi'.config # wifi_station_parm'
          PROVE  \E u \in Task : Some(todo'[u], {"set_config_sta"})
      <3>1. CASE wifi_station_parm' = wifi_station_parm
        <4>1. PICK u \in Task : Some(todo[u], {"set_config_sta"})
          BY <1>1, <2>2, <3>1 DEF WifiInv, CredInv, driverVars
        <4>2. u # "httpd"
          BY <1>1, <4>1 DEF Some
        <4> QED
          BY <1>6, <4>1, <4>2
      <3>2. CASE wifi_station_parm' # wifi_station_parm
        BY <1>4, <1>5, <1>6, <3>2 DEF Task
      <3> QED
        BY <3>1, <3>2
    <2> QED
      BY <2>1, <2>2 DEF CredInv
  <1>11. ServerInv'
    BY <1>1, <1>6 DEF WifiInv, ServerInv, WillRun, driverVars
  <1> QED
    BY <1>7, <1>8, <1>9, <1>10, <1>11 DEF WifiInv

\* Steps after which the tasks have to do what they had to.
LEMMA TasksIdle ==
  ASSUME WifiInv, UNCHANGED <<credVars, s_retry_num, todo>>,
         wifi' \in Wifi, wifi'.link # "down" => wifi'.on /\ wifi'.mode = "sta",
         wifi'.mode = wifi.mode /\ wifi'.config = wifi.config,
         client' \in BOOLEAN, client' => wifi'.on /\ wifi'.mode = "ap",
         queue' \in Seq(Event), server' = server, pending' \subseteq Request,
         CountTypeOK', ClockTypeOK', clock' = clock \/ clock' = 0,
         wifi'.link = "up" \/ client' => WillRun'
  PROVE  WifiInv'
  <1>1. DriverTypeOK' /\ TaskTypeOK'
    BY DEF WifiInv, DriverTypeOK, TaskTypeOK, credVars
  <1>2. EventInv' /\ CredInv'
    BY DEF WifiInv, EventInv, CredInv, credVars, Israel
  <1> QED
    BY <1>1, <1>2 DEF WifiInv, ServerInv

LEMMA BrowserSendsStep ==
  ASSUME WifiInv, BrowserSends
  PROVE  WifiInv'
  <1>1. /\ sent' \in 0 .. MaxRequests /\ pending' \subseteq Request
        /\ UNCHANGED <<credVars, s_retry_num, server, todo, driverVars, drops, cuts, clockVars>>
    <2>1. PICK r \in Request \ pending : pending' = pending \union {r}
      BY DEF BrowserSends
    <2>2. pending' \subseteq Request
      BY <2>1 DEF WifiInv, TaskTypeOK
    <2> QED
      BY <2>2, WifiConstants DEF BrowserSends, WifiInv, CountTypeOK
  <1>2. CountTypeOK' /\ ClockTypeOK' /\ UNCHANGED <<wifi, client, queue, clock>>
    BY <1>1 DEF WifiInv, CountTypeOK, ClockTypeOK, driverVars, clockVars
  <1>3. WillRun => WillRun'
    BY <1>1, <1>2 DEF WillRun
  <1> QED
    BY <1>1, <1>2, <1>3, TasksIdle DEF WifiInv, DriverTypeOK, ServerInv

\* An event behind the others.
LEMMA Posted ==
  ASSUME queue \in Seq(Event), NEW e \in Event, queue' = queue \o <<e>>
  PROVE  /\ queue' \in Seq(Event)
         /\ e \in {"GOT_IP", "AP_STACONNECTED"} => WillRun'
  <1>1. <<e>> \in Seq(Event) /\ Len(<<e>>) = 1 /\ <<e>>[1] = e
    OBVIOUS
  <1>2. queue' \in Seq(Event)
    BY <1>1
  <1>3. e \in {"GOT_IP", "AP_STACONNECTED"}
        => EndsIn(<<e>>, {"GOT_IP", "AP_STACONNECTED"}, {"STA_DISCONNECTED"})
    BY <1>1 DEF EndsIn
  <1>4. e \in {"GOT_IP", "AP_STACONNECTED"}
        => EndsIn(queue', {"GOT_IP", "AP_STACONNECTED"}, {"STA_DISCONNECTED"})
    BY <1>1, <1>3, EndsInConcat
  <1> QED
    BY <1>2, <1>4 DEF WillRun

LEMMA RadioStep ==
  ASSUME WifiInv, Connects \/ ConnectFails \/ LinkDrops \/ ClientJoins \/ ClientLeaves
  PROVE  WifiInv'
  <1>1. /\ UNCHANGED <<credVars, s_retry_num, webVars, todo, sent, cuts, clockVars>>
        /\ drops' \in 0 .. MaxDrops
    BY WifiConstants DEF Connects, ConnectFails, LinkDrops, ClientJoins, ClientLeaves, Radio,
       WifiInv, CountTypeOK
  <1>2. /\ CountTypeOK' /\ ClockTypeOK' /\ clock' = clock
        /\ server' = server /\ pending' \subseteq Request
    BY <1>1 DEF WifiInv, CountTypeOK, ClockTypeOK, TaskTypeOK, clockVars, webVars
  <1>3. /\ queue \in Seq(Event) /\ wifi \in Wifi
        /\ wifi.link # "down" => wifi.on /\ wifi.mode = "sta"
        /\ client \in BOOLEAN /\ (client => wifi.on /\ wifi.mode = "ap")
    BY DEF WifiInv, DriverTypeOK, ServerInv
  <1>4. CASE Connects
    <2>1. /\ wifi' = [wifi EXCEPT !.link = "up"] /\ client' = client
          /\ queue' = queue \o <<"GOT_IP">> /\ wifi.link = "connecting"
      BY <1>4 DEF Connects, Post
    <2>2. queue' \in Seq(Event) /\ WillRun'
      BY <1>3, <2>1, Posted DEF Event
    <2> QED
      BY <1>1, <1>2, <1>3, <2>1, <2>2, TasksIdle DEF Wifi
  <1>5. CASE ConnectFails \/ LinkDrops
    <2>1. /\ wifi' = [wifi EXCEPT !.link = "down"] /\ client' = client
          /\ queue' = queue \o <<"STA_DISCONNECTED">> /\ wifi.link # "down"
      BY <1>5 DEF ConnectFails, LinkDrops, Post
    <2>2. queue' \in Seq(Event)
      BY <1>3, <2>1, Posted DEF Event
    <2>3. ~client
      BY <1>3, <2>1
    <2> QED
      BY <1>1, <1>2, <1>3, <2>1, <2>2, <2>3, TasksIdle DEF Wifi
  <1>6. CASE ClientJoins
    <2>1. /\ wifi' = wifi /\ client' = TRUE /\ wifi.on /\ wifi.mode = "ap"
          /\ queue' = queue \o <<"AP_STACONNECTED">>
      BY <1>6 DEF ClientJoins, Post
    <2>2. queue' \in Seq(Event) /\ WillRun'
      BY <1>3, <2>1, Posted DEF Event
    <2> QED
      BY <1>1, <1>2, <1>3, <2>1, <2>2, TasksIdle
  <1>7. CASE ClientLeaves
    <2>1. wifi' = wifi /\ queue' = queue /\ client' = FALSE
      BY <1>7 DEF ClientLeaves
    <2>2. WillRun => WillRun'
      BY <1>1, <1>2, <2>1 DEF WillRun
    <2> QED
      BY <1>1, <1>2, <1>3, <2>1, <2>2, TasksIdle DEF WifiInv, ServerInv
  <1> QED
    BY <1>4, <1>5, <1>6, <1>7

LEMMA InternetTimeStep ==
  ASSUME WifiInv, InternetTime
  PROVE  WifiInv'
  <1>1. /\ UNCHANGED <<credVars, s_retry_num, webVars, todo, driverVars, countVars>>
        /\ clock' = 0 /\ sntp' = [sntp EXCEPT !.synced = TRUE] /\ obtain' = obtain
    BY DEF InternetTime, SntpSync
  <1>2. sntp' \in [running : BOOLEAN, synced : BOOLEAN]
    <2>1. sntp \in [running : BOOLEAN, synced : BOOLEAN]
      BY DEF WifiInv, ClockTypeOK
    <2> QED
      BY <1>1, <2>1, Zenon
  <1>3. ClockTypeOK' /\ CountTypeOK'
    BY <1>1, <1>2 DEF WifiInv, ClockTypeOK, CountTypeOK, countVars
  <1>4. UNCHANGED <<wifi, client, queue, server, pending>> /\ (WillRun => WillRun')
    BY <1>1 DEF WillRun, driverVars, webVars
  <1> QED
    BY <1>1, <1>3, <1>4, TasksIdle DEF WifiInv, DriverTypeOK, TaskTypeOK, ServerInv

\* The beginning, and each restart.
LEMMA Fresh ==
  ASSUME wifi_station_parm \in Credentials,
         todo = [t \in Task |-> IF t = "main" THEN wifi_config_sta(wifi_station_parm) ELSE <<>>],
         wifi.mode = "none", wifi.link = "down", client = FALSE
  PROVE  /\ todo \in [Task -> Seq(Calls)]
         /\ EventInv /\ CredInv /\ ServerInv
  <1> DEFINE c == wifi_config_sta(wifi_station_parm)
  <1>1. c \in Seq(Calls) /\ Configures(c)
    BY ConfigCalls
  <1> HIDE DEF c
  <1>2. /\ todo["main"] = c /\ todo["event"] = <<>> /\ todo["httpd"] = <<>>
        /\ todo \in [Task -> Seq(Calls)]
    BY <1>1 DEF Task, c
  <1>3. <<>> \in Seq(Calls) /\ \A A : ~Some(<<>>, A)
    BY DEF Some
  <1>4. EventInv
    BY <1>2, <1>3, NoneIsInOrder DEF EventInv
  <1>5. CredInv
    BY <1>1, <1>2, <1>3 DEF CredInv, Configures, Task
  <1> QED
    BY <1>2, <1>4, <1>5 DEF ServerInv

DriverOff == [on |-> FALSE, mode |-> "none", config |-> "none", link |-> "down"]

LEMMA DriverOffType ==
  /\ DriverOff \in Wifi /\ DriverOff.link = "down"
  <1>1. FALSE \in BOOLEAN /\ "none" \in {"none", "ap", "sta"} /\ "none" \in Credentials
        /\ "down" \in {"down", "connecting", "up"}
    BY DEF Credentials
  <1>2. DriverOff \in Wifi
    BY <1>1, Zenon DEF DriverOff, Wifi
  <1> QED
    BY <1>2 DEF DriverOff

LEMMA LoadedType == stored \in Credentials => Loaded \subseteq Credentials
  BY DEF Loaded, Credentials

LEMMA InitInv == Init => WifiInv
  <1> SUFFICES ASSUME Init PROVE WifiInv
    OBVIOUS
  <1>1. wifi_station_parm \in Credentials /\ stored \in Credentials
    BY LoadedType DEF Init
  <1>2. todo \in [Task -> Seq(Calls)] /\ EventInv /\ CredInv /\ ServerInv
    BY <1>1, Fresh DEF Init
  <1>3. DriverTypeOK
    <2>1. wifi = DriverOff /\ client = FALSE /\ queue = <<>>
      BY DEF Init, DriverOff
    <2>2. client \in BOOLEAN
      BY <2>1, Zenon
    <2>3. queue \in Seq(Event)
      BY <2>1
    <2> QED
      BY <2>1, <2>2, <2>3, DriverOffType DEF DriverTypeOK
  <1>4. TaskTypeOK /\ CountTypeOK
    <2>1. /\ s_retry_num = 0 /\ server = FALSE /\ pending = {}
          /\ sent = 0 /\ drops = 0 /\ cuts = 0
      BY DEF Init
    <2>2. server \in BOOLEAN
      BY <2>1, Zenon
    <2>3. TaskTypeOK
      BY <1>1, <1>2, <2>1, <2>2, WifiConstants DEF TaskTypeOK
    <2> QED
      BY <2>1, <2>3, WifiConstants DEF CountTypeOK
  <1>5. ClockTypeOK
    BY ClockConstants DEF Init, ClockInit, SntpOff, ObtainStart, ClockTypeOK
  <1> QED
    BY <1>2, <1>3, <1>4, <1>5 DEF WifiInv

LEMMA RestartStep ==
  ASSUME WifiInv, PowerCut \/ Abort
  PROVE  WifiInv'
  <1>1. /\ cuts' \in 0 .. MaxCuts
        /\ \E powerCut \in BOOLEAN : Restart(powerCut)
    <2>1. cuts \in 0 .. MaxCuts
      BY DEF WifiInv, CountTypeOK
    <2>2. CASE PowerCut
      <3>1. cuts' \in 0 .. MaxCuts
        BY <2>1, <2>2, WifiConstants DEF PowerCut
      <3>2. Restart(TRUE)
        BY <2>2 DEF PowerCut
      <3> QED
        BY <3>1, <3>2, Zenon
    <2>3. CASE Abort
      <3>1. cuts' \in 0 .. MaxCuts
        BY <2>1, <2>3 DEF Abort
      <3>2. Restart(FALSE)
        BY <2>3 DEF Abort
      <3> QED
        BY <3>1, <3>2, Zenon
    <2> QED
      BY <2>2, <2>3
  <1>2. PICK powerCut \in BOOLEAN : Restart(powerCut)
    BY <1>1
  <1>3. PICK parm \in Loaded :
            /\ wifi_station_parm' = parm
            /\ todo' = [t \in Task |-> IF t = "main" THEN wifi_config_sta(parm) ELSE <<>>]
    BY <1>2 DEF Restart
  <1>4. wifi_station_parm' \in Credentials /\ stored' \in Credentials
    BY <1>2, <1>3, LoadedType DEF Restart, WifiInv, TaskTypeOK
  <1>5. /\ wifi' = [on |-> FALSE, mode |-> "none", config |-> "none", link |-> "down"]
        /\ client' = FALSE /\ queue' = <<>> /\ s_retry_num' = 0
        /\ server' = FALSE /\ pending' = {} /\ sent' = sent /\ drops' = drops
        /\ ClockRestart(powerCut)
    BY <1>2 DEF Restart
  <1> DEFINE c == wifi_config_sta(parm)
  <1>6. c \in Seq(Calls) /\ Configures(c)
    BY <1>3, <1>4, ConfigCalls
  <1>7. /\ todo'["main"] = c /\ todo'["event"] = <<>> /\ todo'["httpd"] = <<>>
        /\ todo' \in [Task -> Seq(Calls)]
    BY <1>3, <1>6 DEF Task
  <1> HIDE DEF c
  <1>8. <<>> \in Seq(Calls) /\ \A A : ~Some(<<>>, A)
    BY DEF Some
  <1>9. EventInv'
    BY <1>7, <1>8, NoneIsInOrder DEF EventInv
  <1>10. CredInv' /\ ServerInv'
    BY <1>5, <1>6, <1>7, <1>8 DEF CredInv, ServerInv, Configures, Task
  <1>11. DriverTypeOK'
    <2>1. wifi' = DriverOff
      BY <1>5 DEF DriverOff
    <2>2. client' \in BOOLEAN
      BY <1>5, Zenon
    <2>3. queue' \in Seq(Event)
      BY <1>5
    <2> QED
      BY <2>1, <2>2, <2>3, DriverOffType DEF DriverTypeOK
  <1>12. TaskTypeOK'
    <2>1. server' \in BOOLEAN
      BY <1>5, Zenon
    <2> QED
      BY <1>4, <1>5, <1>7, <2>1, WifiConstants DEF TaskTypeOK
  <1>13. CountTypeOK'
    BY <1>1, <1>5 DEF CountTypeOK, WifiInv
  <1>14. ClockTypeOK'
    BY <1>5, ClockConstants
       DEF WifiInv, ClockRestart, SntpOff, ObtainStart, ClockTypeOK
  <1> QED
    BY <1>9, <1>10, <1>11, <1>12, <1>13, <1>14 DEF WifiInv

LEMMA NextInv == WifiInv /\ [Next]_vars => WifiInv'
  <1> SUFFICES ASSUME WifiInv, [Next]_vars PROVE WifiInv'
    OBVIOUS
  <1>1. CASE UNCHANGED vars
    BY <1>1 DEF WifiInv, DriverTypeOK, TaskTypeOK, CountTypeOK, ClockTypeOK, EventInv, CredInv,
       ServerInv, WillRun, vars, credVars, webVars, driverVars, countVars, clockVars
  <1>2. ASSUME NEW t \in Task, CallDriver(t) PROVE WifiInv'
    BY <1>2, CallDriverStep
  <1>3. CASE TakeEvent
    BY <1>3, TakeEventStep
  <1>4. CASE EventStep
    BY <1>4, EventStepStep
  <1>5. CASE ClockStep
    BY <1>5, ClockStepStep
  <1>6. CASE TakeRequest
    BY <1>6, TakeRequestStep
  <1>7. CASE BrowserSends
    BY <1>7, BrowserSendsStep
  <1>8. CASE Connects \/ ConnectFails \/ LinkDrops \/ ClientJoins \/ ClientLeaves
    BY <1>8, RadioStep
  <1>9. CASE InternetTime
    BY <1>9, InternetTimeStep
  <1>10. CASE PowerCut \/ Abort
    BY <1>10, RestartStep
  <1> QED
    BY <1>1, <1>2, <1>3, <1>4, <1>5, <1>6, <1>7, <1>8, <1>9, <1>10
       DEF Next, EventTask, Task

LEMMA WifiInvariant == Spec => []WifiInv
  <1> QED
    BY InitInv, NextInv, PTL DEF Spec
-----------------------------------------------------------------------------
\* Types, for any bound on the retries: the attempts of one loss never exceed
\* it though events are late and tasks interleave, and obtain_time adds its
\* three hours at most once to a time that is local already.
THEOREM WifiTypeCorrect == Spec => []WifiTypeOK
  <1>1. WifiInv => WifiTypeOK
    BY TypeParts DEF WifiInv
  <1> QED
    BY <1>1, WifiInvariant, PTL

\* Once everything that happened has been handled, whoever is connected finds
\* the web server running, in whatever order the events of lost and new
\* connections, their several handlers, and the requests came.
THEOREM ServerIsThere == Spec => []ServerRuns
  <1>1. WifiInv => ServerRuns
    <2> SUFFICES ASSUME WifiInv, Quiet, wifi.link = "up" \/ client PROVE server
      BY DEF ServerRuns
    <2>1. queue = <<>> /\ todo["event"] = <<>> /\ WillRun
      BY DEF Quiet, Task, WifiInv, ServerInv
    <2> QED
      BY <2>1 DEF WillRun, EndsIn
  <1> QED
    BY <1>1, WifiInvariant, PTL

\* Once the tasks have finished, a station uses the credentials set last, though
\* two tasks configure the driver at the same time.
THEOREM CredentialsUsed == Spec => []UsesCredentials
  <1>1. WifiInv => UsesCredentials
    <2> SUFFICES ASSUME WifiInv, Quiet, wifi.mode = "sta", wifi.config # wifi_station_parm
                 PROVE  FALSE
      BY DEF UsesCredentials
    <2>1. PICK t \in Task : Some(todo[t], {"set_config_sta"})
      BY DEF WifiInv, CredInv
    <2> QED
      BY <2>1 DEF Quiet, Some
  <1> QED
    BY <1>1, WifiInvariant, PTL
-----------------------------------------------------------------------------
(***************************************************************************)
(* Whoever stops the driver starts it again; a driver that is off, or has  *)
(* no mode yet, has a task that will start it and set the mode; and a      *)
(* started station that is not connecting has an event to come, or the     *)
(* event task is about to connect it or to stop the driver.                *)
(***************************************************************************)
Restarts(s) == Some(s, {"stop"}) => EndsIn(s, {"start"}, {"stop"})
SetsMode == {"set_mode_ap", "set_mode_sta"}

StrandInv ==
    /\ \A t \in Task : Restarts(todo[t])
    /\ ~wifi.on => \E t \in Task : Some(todo[t], {"start"})
    /\ wifi.mode = "none" => \E t \in Task : Some(todo[t], SetsMode)
    /\ wifi.on /\ wifi.mode = "sta" /\ wifi.link = "down" =>
        \/ Some(queue, {"STA_START", "STA_DISCONNECTED"})
        \/ Some(todo["event"], {"connect", "stop"})

LEMMA RestartsTail ==
  ASSUME NEW s \in Seq(Calls), s # <<>>, Restarts(s)
  PROVE  /\ Restarts(Tail(s))
         /\ Head(s) = "stop" => Some(Tail(s), {"start"})
  <1>1. Tail(s) \in Seq(Calls)
    BY TailAt
  <1>2. ASSUME Some(Tail(s), {"stop"}) \/ Head(s) = "stop"
        PROVE  EndsIn(Tail(s), {"start"}, {"stop"})
    <2>1. Some(s, {"stop"})
      BY <1>2, SomeTail
    <2>2. EndsIn(s, {"start"}, {"stop"})
      BY <2>1 DEF Restarts
    <2>3. EndsIn(Tail(s), {"start"}, {"stop"})
          \/ (Head(s) \in {"start"} /\ ~Some(Tail(s), {"stop"}))
      BY <2>2, EndsInTail
    <2> QED
      BY <1>2, <2>3
  <1>3. EndsIn(Tail(s), {"start"}, {"stop"}) => Some(Tail(s), {"start"})
    BY DEF EndsIn, Some
  <1> QED
    BY <1>2, <1>3 DEF Restarts

\* Four calls as init_wifi_ap and wifi_config_sta make them.
LEMMA FourCalls ==
  ASSUME NEW s, Len(s) = 4, s[1] = "stop", s[2] \in SetsMode,
         s[3] \in {"set_config_ap", "set_config_sta"}, s[4] = "start"
  PROVE  /\ Restarts(s) /\ Some(s, {"start"}) /\ Some(s, SetsMode)
         /\ Some(s, {"connect", "stop"})
  <1>1. EndsIn(s, {"start"}, {"stop"})
    BY DEF EndsIn
  <1>2. Some(s, {"start"}) /\ Some(s, SetsMode) /\ Some(s, {"connect", "stop"})
    BY DEF Some
  <1> QED
    BY <1>1, <1>2 DEF Restarts

LEMMA ApRestarts ==
  /\ Restarts(init_wifi_ap) /\ Some(init_wifi_ap, {"start"})
  /\ Some(init_wifi_ap, SetsMode) /\ Some(init_wifi_ap, {"connect", "stop"})
  <1>1. /\ Len(init_wifi_ap) = 4 /\ init_wifi_ap[1] = "stop"
        /\ init_wifi_ap[2] \in SetsMode /\ init_wifi_ap[3] = "set_config_ap"
        /\ init_wifi_ap[4] = "start"
    BY DEF init_wifi_ap, SetsMode
  <1> QED
    BY <1>1, FourCalls

LEMMA ConfigRestarts ==
  ASSUME NEW parm \in Credentials
  PROVE  /\ Restarts(wifi_config_sta(parm)) /\ Some(wifi_config_sta(parm), {"start"})
         /\ Some(wifi_config_sta(parm), SetsMode)
  <1>1. CASE parm = "none"
    BY <1>1, ApRestarts DEF wifi_config_sta
  <1>2. CASE parm # "none"
    <2> DEFINE s == <<"stop", "set_mode_sta", "set_config_sta", "start">>
    <2>1. /\ Len(s) = 4 /\ s[1] = "stop" /\ s[2] \in SetsMode
          /\ s[3] = "set_config_sta" /\ s[4] = "start"
      BY DEF SetsMode
    <2>2. wifi_config_sta(parm) = s
      BY <1>2 DEF wifi_config_sta
    <2> HIDE DEF s
    <2> QED
      BY <2>1, <2>2, FourCalls
  <1> QED
    BY <1>1, <1>2

\* A sequence without a stop restarts nothing.
LEMMA NoStop ==
  ASSUME NEW s, ~Some(s, {"stop"})
  PROVE  Restarts(s)
  BY DEF Restarts

LEMMA LostRestarts ==
  /\ lost \in Seq(Calls) /\ Restarts(lost) /\ Some(lost, {"connect", "stop"})
  <1>1. CASE s_retry_num < EXAMPLE_ESP_MAXIMUM_RETRY
    <2> DEFINE s == <<"connect", "count_retry">>
    <2>1. lost = s
      BY <1>1 DEF lost
    <2>2. Len(s) = 2 /\ s[1] = "connect" /\ s[2] = "count_retry"
      OBVIOUS
    <2> HIDE DEF s
    <2>3. ~Some(s, {"stop"}) /\ Some(s, {"connect", "stop"})
      BY <2>2 DEF Some
    <2> QED
      BY <2>1, <2>3, NoStop, LostCalls
  <1>2. CASE ~(s_retry_num < EXAMPLE_ESP_MAXIMUM_RETRY)
    BY <1>2, ApRestarts, LostCalls DEF lost
  <1> QED
    BY <1>1, <1>2

\* An event that leaves a station without a connection makes the event task
\* connect it or stop the driver.
LEMMA EventRestarts ==
  ASSUME NEW e \in Event, NEW s \in event_handler(e)
  PROVE  /\ s \in Seq(Calls) /\ Restarts(s)
         /\ e \in {"STA_START", "STA_DISCONNECTED"} => Some(s, {"connect", "stop"})
  <1>1. CASE e = "STA_DISCONNECTED"
    <2> DEFINE w == <<"stop_webserver">>
    <2>1. s = lost \o w \/ s = w \o lost
      BY <1>1 DEF event_handler
    <2>2. w \in Seq(Calls) /\ Len(w) = 1 /\ w[1] = "stop_webserver"
      BY DEF Calls
    <2> HIDE DEF w
    <2>3. ~Some(w, {"stop"})
      BY <2>2 DEF Some
    <2>4. /\ Some(lost \o w, {"connect", "stop"}) /\ Some(w \o lost, {"connect", "stop"})
          /\ Some(lost \o w, {"stop"}) => Some(lost, {"stop"})
          /\ Some(w \o lost, {"stop"}) => Some(lost, {"stop"})
      BY <2>2, <2>3, LostRestarts, SomeConcat
    <2>5. EndsIn(lost, {"start"}, {"stop"}) =>
              /\ EndsIn(lost \o w, {"start"}, {"stop"})
              /\ EndsIn(w \o lost, {"start"}, {"stop"})
      BY <2>2, <2>3, LostRestarts, EndsInConcat
    <2>6. lost \o w \in Seq(Calls) /\ w \o lost \in Seq(Calls)
      BY <2>2, LostRestarts
    <2> QED
      BY <2>1, <2>4, <2>5, <2>6, LostRestarts DEF Restarts
  <1>2. CASE e = "GOT_IP"
    <2> DEFINE s1 == <<"start_webserver", "reset_retry", "start_webserver", "init_time">>
               s2 == <<"reset_retry", "start_webserver", "init_time", "start_webserver">>
    <2>1. s = s1 \/ s = s2
      BY <1>2 DEF event_handler
    <2>2. ~Some(s1, {"stop"}) /\ ~Some(s2, {"stop"})
      BY DEF Some
    <2>3. s \in Seq(Calls)
      BY <1>2, AddressCalls DEF EventCallsOK
    <2> HIDE DEF s1, s2
    <2> QED
      BY <1>2, <2>1, <2>2, <2>3, NoStop
  <1>3. CASE e \in {"STA_START", "AP_STACONNECTED"}
    <2>1. PICK c \in {"connect", "start_webserver"} :
              s = <<c>> /\ (e = "STA_START" => c = "connect")
      BY <1>3, OtherCalls
    <2>2. <<c>> \in Seq(Calls) /\ Len(<<c>>) = 1 /\ <<c>>[1] = c
      BY DEF Calls
    <2>3. ~Some(<<c>>, {"stop"}) /\ (c = "connect" => Some(<<c>>, {"connect", "stop"}))
      BY <2>2 DEF Some
    <2> QED
      BY <1>3, <2>1, <2>2, <2>3, NoStop
  <1> QED
    BY <1>1, <1>2, <1>3 DEF Event

\* A driver's call keeps the promise: what it undoes, its own task redoes.
LEMMA StrandDriverStep ==
  ASSUME WifiInv, StrandInv, NEW t \in Task, CallDriver(t)
  PROVE  StrandInv'
  <1> DEFINE call == Next_call(t)
  <1>1. todo[t] # <<>> /\ DriverCall(call) /\ Done(t)
    BY DEF CallDriver
  <1>2. /\ todo'[t] = Tail(todo[t])
        /\ \A u \in Task \ {t} : todo'[u] = todo[u]
        /\ \A u \in Task : todo[u] \in Seq(Calls)
    BY <1>1, Made DEF WifiInv, TaskTypeOK
  <1>3. /\ wifi \in Wifi /\ queue \in Seq(Event)
        /\ wifi.link # "down" => wifi.on /\ wifi.mode = "sta"
    BY DEF WifiInv, DriverTypeOK
  <1>4. call = Head(todo[t])
    BY DEF Next_call
  <1>5. \A A : Some(todo[t], A) <=> call \in A \/ Some(Tail(todo[t]), A)
    BY <1>1, <1>2, <1>4, SomeTail
  <1>6. \A u \in Task : \A A : call \notin A /\ Some(todo[u], A) => Some(todo'[u], A)
    BY <1>2, <1>5
  <1>7. /\ Restarts(Tail(todo[t]))
        /\ call = "stop" => Some(Tail(todo[t]), {"start"})
    BY <1>1, <1>2, <1>4, RestartsTail DEF StrandInv
  <1> HIDE DEF call
  <1>8. \A u \in Task : Restarts(todo'[u])
    BY <1>2, <1>7 DEF StrandInv
  <1>9. /\ call = "stop" => ~wifi'.on
        /\ call = "start" => wifi'.on
        /\ call \notin {"stop", "start"} => wifi'.on = wifi.on
        /\ call \in SetsMode => wifi'.mode # "none"
        /\ call \notin SetsMode => wifi'.mode = wifi.mode
    BY <1>1, <1>3 DEF DriverCall, esp_wifi_stop, esp_wifi_set_mode, esp_wifi_set_config,
                      esp_wifi_start, esp_wifi_connect, Wifi, SetsMode
  <1>10. ~wifi'.on => \E u \in Task : Some(todo'[u], {"start"})
    <2>1. CASE call = "stop"
      BY <1>2, <1>7, <2>1
    <2>2. CASE call # "stop" /\ ~wifi'.on
      <3>1. call \notin {"start"} /\ ~wifi.on
        BY <1>9, <2>2
      <3>2. PICK u \in Task : Some(todo[u], {"start"})
        BY <3>1 DEF StrandInv
      <3> QED
        BY <1>6, <3>1, <3>2
    <2> QED
      BY <2>1, <2>2
  <1>11. wifi'.mode = "none" => \E u \in Task : Some(todo'[u], SetsMode)
    <2> SUFFICES ASSUME wifi'.mode = "none" PROVE \E u \in Task : Some(todo'[u], SetsMode)
      OBVIOUS
    <2>1. call \notin SetsMode /\ wifi.mode = "none"
      BY <1>9
    <2>2. PICK u \in Task : Some(todo[u], SetsMode)
      BY <2>1 DEF StrandInv
    <2> QED
      BY <1>6, <2>1, <2>2
  <1>12. ASSUME wifi'.on, wifi'.mode = "sta", wifi'.link = "down"
         PROVE  \/ Some(queue', {"STA_START", "STA_DISCONNECTED"})
                \/ Some(todo'["event"], {"connect", "stop"})
    <2>1. CASE call = "stop"
      BY <1>9, <1>12, <2>1
    <2>2. ASSUME call = "connect", wifi.on, wifi.mode = "sta", wifi.link = "down"
          PROVE  FALSE
      BY <1>1, <1>3, <1>12, <2>2 DEF DriverCall, esp_wifi_connect, Wifi
    <2>3. CASE call # "stop" /\ wifi.on /\ wifi.mode = "sta" /\ wifi.link = "down"
      <3>1. call \notin {"connect", "stop"}
        BY <2>2, <2>3
      <3>2. Some(todo["event"], {"connect", "stop"}) => Some(todo'["event"], {"connect", "stop"})
        BY <1>6, <3>1 DEF Task
      <3>3. Some(queue, {"STA_START", "STA_DISCONNECTED"})
            => Some(queue', {"STA_START", "STA_DISCONNECTED"})
        <4>1. PICK e \in Seq(Event) : queue' = queue \o e
          <5>1. <<>> \in Seq(Event) /\ queue \o <<>> = queue /\ <<"STA_START">> \in Seq(Event)
            BY <1>3 DEF Event
          <5>2. \A e \in Disconnected : e \in Seq(Event) /\ Append(e, "STA_START") \in Seq(Event)
            <6> SUFFICES ASSUME NEW e \in Disconnected
                         PROVE  e \in Seq(Event) /\ Append(e, "STA_START") \in Seq(Event)
              OBVIOUS
            <6>1. e \in Seq(Event) /\ "STA_START" \in Event
              BY DisconnectedType DEF Event
            <6> QED
              BY <6>1
          <5>3. CASE call \in SetsMode
            BY <1>1, <5>1, <5>2, <5>3 DEF DriverCall, esp_wifi_set_mode, Post, SetsMode
          <5>4. CASE call = "start"
            BY <1>1, <5>1, <5>4 DEF DriverCall, esp_wifi_start, Post
          <5>5. CASE call \in {"set_config_ap", "set_config_sta", "connect"}
            BY <1>1, <5>1, <5>5 DEF DriverCall, esp_wifi_set_config, esp_wifi_connect
          <5> QED
            BY <1>1, <2>3, <5>3, <5>4, <5>5 DEF DriverCall, SetsMode
        <4> QED
          BY <1>3, <4>1, SomeConcat
      <3> QED
        BY <2>3, <3>2, <3>3 DEF StrandInv
    <2>4. CASE call # "stop" /\ ~(wifi.on /\ wifi.mode = "sta" /\ wifi.link = "down")
      <3>1. CASE call = "start"
        <4>1. ~wifi.on /\ wifi.mode = "sta"
          BY <1>1, <1>3, <1>12, <2>4, <3>1 DEF DriverCall, esp_wifi_start, Wifi
        <4>2. queue' = queue \o <<"STA_START">>
          BY <1>1, <3>1, <4>1 DEF DriverCall, esp_wifi_start, Post
        <4>3. /\ <<"STA_START">> \in Seq(Event) /\ Len(<<"STA_START">>) = 1
              /\ <<"STA_START">>[1] = "STA_START"
          BY DEF Event
        <4>4. Some(<<"STA_START">>, {"STA_START", "STA_DISCONNECTED"})
          BY <4>3 DEF Some
        <4> QED
          BY <1>3, <4>2, <4>3, <4>4, SomeConcat
      <3>2. CASE call = "set_mode_sta"
        <4>1. wifi.on /\ wifi.mode # "sta"
          BY <1>1, <1>3, <1>12, <2>4, <3>2 DEF DriverCall, esp_wifi_set_mode, Wifi
        <4>2. PICK e \in Disconnected : queue' = queue \o Append(e, "STA_START")
          BY <1>1, <3>2, <4>1 DEF DriverCall, esp_wifi_set_mode, Post
        <4>3. e \in Seq(Event) /\ "STA_START" \in Event
          BY DisconnectedType DEF Event
        <4>4. /\ Append(e, "STA_START") \in Seq(Event)
              /\ Len(e) + 1 \in 1 .. Len(Append(e, "STA_START"))
              /\ Append(e, "STA_START")[Len(e) + 1] = "STA_START"
          BY <4>3
        <4>5. Some(Append(e, "STA_START"), {"STA_START", "STA_DISCONNECTED"})
          BY <4>4 DEF Some
        <4> QED
          BY <1>3, <4>2, <4>4, <4>5, SomeConcat
      <3>3. CASE call \in {"set_mode_ap", "set_config_ap", "set_config_sta", "connect"}
        BY <1>1, <1>3, <1>12, <2>4, <3>3
           DEF DriverCall, esp_wifi_set_mode, esp_wifi_set_config, esp_wifi_connect, Wifi
      <3> QED
        BY <1>1, <2>4, <3>1, <3>2, <3>3 DEF DriverCall
    <2> QED
      BY <2>1, <2>3, <2>4
  <1> QED
    BY <1>8, <1>10, <1>11, <1>12 DEF StrandInv

LEMMA StrandTakeEventStep ==
  ASSUME WifiInv, StrandInv, TakeEvent
  PROVE  StrandInv'
  <1> DEFINE e == Head(queue)
  <1>1. /\ todo["event"] = <<>> /\ queue # <<>> /\ queue' = Tail(queue) /\ wifi' = wifi
    BY DEF TakeEvent
  <1>2. PICK s \in event_handler(e) : todo' = [todo EXCEPT !["event"] = s]
    BY DEF TakeEvent
  <1>3. queue \in Seq(Event) /\ e \in Event
    BY <1>1, TailAt DEF WifiInv, DriverTypeOK
  <1>4. Some(queue, {"STA_START", "STA_DISCONNECTED"})
        <=> e \in {"STA_START", "STA_DISCONNECTED"}
            \/ Some(Tail(queue), {"STA_START", "STA_DISCONNECTED"})
    BY <1>1, <1>3, SomeTail
  <1> HIDE DEF e
  <1>5. /\ s \in Seq(Calls) /\ Restarts(s)
        /\ e \in {"STA_START", "STA_DISCONNECTED"} => Some(s, {"connect", "stop"})
    BY <1>3, EventRestarts
  <1>6. /\ todo'["event"] = s
        /\ \A u \in Task \ {"event"} : todo'[u] = todo[u]
    BY <1>2 DEF WifiInv, TaskTypeOK, Task
  <1>7. \A A : ~Some(todo["event"], A)
    BY <1>1 DEF Some
  <1>8. /\ \A u \in Task : Restarts(todo'[u])
        /\ \A u \in Task : \A A : Some(todo[u], A) => Some(todo'[u], A)
    BY <1>5, <1>6, <1>7 DEF StrandInv
  <1> QED
    BY <1>1, <1>4, <1>5, <1>6, <1>7, <1>8 DEF StrandInv

\* The event task's other steps make none of the driver's calls.
LEMMA StrandEventStep ==
  ASSUME WifiInv, StrandInv, EventStep \/ ClockStep
  PROVE  StrandInv'
  <1> DEFINE call == Next_call("event")
             rest == Tail(todo["event"])
  <1>1. todo["event"] # <<>> /\ wifi' = wifi /\ queue' = queue
    BY DEF EventStep, ClockStep, driverVars
  <1>2. /\ rest \in Seq(Calls) /\ call = Head(todo["event"]) /\ todo["event"] \in Seq(Calls)
    BY <1>1, TailAt DEF WifiInv, TaskTypeOK, Task, Next_call
  <1>3. \A A : Some(todo["event"], A) <=> call \in A \/ Some(rest, A)
    BY <1>1, <1>2, SomeTail
  <1>4. Restarts(todo["event"]) /\ Restarts(rest)
    BY <1>1, <1>2, RestartsTail DEF StrandInv, Task
  <1> DEFINE made == {"start_webserver", "stop_webserver", "count_retry", "reset_retry",
                      "init_time", "initialize_sntp", "poll", "read", "correct", "announce"}
  <1>5. call \in made
    BY DEF EventStep, ClockStep
  <1>6. \E s : /\ todo' = [todo EXCEPT !["event"] = s]
               /\ s = rest \/ s = todo["event"] \/ s = init_time \o rest
    BY DEF EventStep, ClockStep, Done
  <1> HIDE DEF call, rest
  <1>7. PICK s :
            /\ todo' = [todo EXCEPT !["event"] = s]
            /\ s = rest \/ s = todo["event"] \/ s = obtain_time \o rest
    <2>1. <<>> \o rest = rest
      BY <1>2
    <2> QED
      BY <1>6, <2>1 DEF init_time
  <1>8. /\ Restarts(s)
        /\ \A A : A \cap made = {} /\ Some(todo["event"], A) => Some(s, A)
    <2> HIDE DEF made
    <2>1. \A A : A \cap made = {} /\ Some(todo["event"], A) => Some(rest, A)
      BY <1>3, <1>5
    <2>2. CASE s = rest
      BY <1>4, <2>1, <2>2
    <2>3. CASE s = todo["event"]
      BY <1>4, <2>3
    <2>4. CASE s = obtain_time \o rest
      <3>1. ~Some(obtain_time, {"stop"})
        BY DEF Some, obtain_time
      <3>2. \A A : Some(s, A) <=> Some(obtain_time, A) \/ Some(rest, A)
        BY <1>2, <2>4, TimeCalls, SomeConcat
      <3>3. EndsIn(rest, {"start"}, {"stop"}) => EndsIn(s, {"start"}, {"stop"})
        BY <1>2, <2>4, TimeCalls, EndsInConcat
      <3>4. Restarts(s)
        BY <1>4, <3>1, <3>2, <3>3 DEF Restarts
      <3> QED
        BY <2>1, <3>2, <3>4
    <2> QED
      BY <1>7, <2>2, <2>3, <2>4
  <1>9. todo'["event"] = s /\ \A u \in Task \ {"event"} : todo'[u] = todo[u]
    BY <1>7 DEF WifiInv, TaskTypeOK, Task
  <1>10. /\ {"start"} \cap made = {} /\ SetsMode \cap made = {}
         /\ {"connect", "stop"} \cap made = {}
    BY DEF SetsMode
  <1> HIDE DEF made
  <1>11. /\ \A u \in Task : Restarts(todo'[u])
         /\ \A u \in Task : /\ Some(todo[u], {"start"}) => Some(todo'[u], {"start"})
                            /\ Some(todo[u], SetsMode) => Some(todo'[u], SetsMode)
         /\ Some(todo["event"], {"connect", "stop"}) => Some(todo'["event"], {"connect", "stop"})
    BY <1>8, <1>9, <1>10 DEF StrandInv
  <1> QED
    BY <1>1, <1>11 DEF StrandInv

LEMMA StrandRequestStep ==
  ASSUME WifiInv, StrandInv, TakeRequest
  PROVE  StrandInv'
  <1>1. todo["httpd"] = <<>> /\ wifi' = wifi /\ queue' = queue
    BY DEF TakeRequest, driverVars
  <1>2. \/ todo' = todo
        \/ \E parm \in Credentials : todo' = [todo EXCEPT !["httpd"] = wifi_config_sta(parm)]
    <2>1. PICK r \in Request :
              CASE r = "sta_start" -> wifi_sta_start_handler
                [] r = "save" -> update_time /\ UNCHANGED <<credVars, todo>>
                [] OTHER -> wifi_setting_handler(r)
      BY DEF TakeRequest, WifiInv, TaskTypeOK
    <2>2. wifi_station_parm \in Credentials
      BY DEF WifiInv, TaskTypeOK
    <2>3. CASE r = "sta_start"
      BY <2>1, <2>2, <2>3 DEF wifi_sta_start_handler
    <2>4. CASE r = "save"
      BY <2>1, <2>4
    <2>5. CASE r \in {"good", "bad"}
      BY <2>1, <2>5 DEF wifi_setting_handler, Credentials
    <2> QED
      BY <2>3, <2>4, <2>5 DEF Request
  <1>3. CASE todo' = todo
    BY <1>1, <1>3 DEF StrandInv
  <1>4. ASSUME NEW parm \in Credentials, todo' = [todo EXCEPT !["httpd"] = wifi_config_sta(parm)]
        PROVE  StrandInv'
    <2>1. /\ todo'["httpd"] = wifi_config_sta(parm)
          /\ \A u \in Task \ {"httpd"} : todo'[u] = todo[u]
          /\ todo'["event"] = todo["event"]
      BY <1>4 DEF WifiInv, TaskTypeOK, Task
    <2>2. /\ Restarts(wifi_config_sta(parm))
          /\ \A A : ~Some(todo["httpd"], A)
      BY <1>1, ConfigRestarts DEF Some
    <2>3. /\ \A u \in Task : Restarts(todo'[u])
          /\ \A u \in Task : \A A : Some(todo[u], A) => Some(todo'[u], A)
      BY <2>1, <2>2 DEF StrandInv
    <2> QED
      BY <1>1, <2>1, <2>3 DEF StrandInv
  <1> QED
    BY <1>2, <1>3, <1>4

LEMMA StrandRadioStep ==
  ASSUME WifiInv, StrandInv,
         Connects \/ ConnectFails \/ LinkDrops \/ ClientJoins \/ ClientLeaves
  PROVE  StrandInv'
  <1>1. todo' = todo /\ queue \in Seq(Event) /\ wifi \in Wifi
    BY DEF Connects, ConnectFails, LinkDrops, ClientJoins, ClientLeaves, Radio, WifiInv,
           DriverTypeOK
  <1>2. /\ wifi'.on = wifi.on /\ wifi'.mode = wifi.mode
        /\ \E e \in Event \union {"no"} :
              /\ queue' = IF e = "no" THEN queue ELSE queue \o <<e>>
              /\ wifi'.link = "down" => wifi.link = "down" \/ e = "STA_DISCONNECTED"
    BY <1>1 DEF Connects, ConnectFails, LinkDrops, ClientJoins, ClientLeaves, Post, Wifi, Event
  <1>3. PICK e \in Event \union {"no"} :
            /\ queue' = IF e = "no" THEN queue ELSE queue \o <<e>>
            /\ wifi'.link = "down" => wifi.link = "down" \/ e = "STA_DISCONNECTED"
    BY <1>2
  <1>4. /\ Some(queue, {"STA_START", "STA_DISCONNECTED"})
               => Some(queue', {"STA_START", "STA_DISCONNECTED"})
        /\ e = "STA_DISCONNECTED" => Some(queue', {"STA_START", "STA_DISCONNECTED"})
    <2>1. CASE e = "no"
      BY <1>3, <2>1
    <2>2. CASE e # "no"
      <3>1. <<e>> \in Seq(Event) /\ Len(<<e>>) = 1 /\ <<e>>[1] = e
        BY <2>2
      <3>2. e = "STA_DISCONNECTED" => Some(<<e>>, {"STA_START", "STA_DISCONNECTED"})
        BY <3>1 DEF Some
      <3> QED
        BY <1>1, <1>3, <2>2, <3>1, <3>2, SomeConcat
    <2> QED
      BY <2>1, <2>2
  <1> QED
    BY <1>1, <1>2, <1>3, <1>4 DEF StrandInv

\* The beginning, and each restart: the main task starts the driver.
LEMMA StrandFresh ==
  ASSUME NEW parm \in Credentials,
         todo = [t \in Task |-> IF t = "main" THEN wifi_config_sta(parm) ELSE <<>>],
         ~wifi.on
  PROVE  StrandInv
  <1>1. /\ todo["main"] = wifi_config_sta(parm)
        /\ \A t \in Task \ {"main"} : todo[t] = <<>>
        /\ "main" \in Task
    BY DEF Task
  <1>2. Restarts(<<>>)
    BY DEF Restarts, Some
  <1> QED
    BY <1>1, <1>2, ConfigRestarts DEF StrandInv

LEMMA StrandInit == Init => StrandInv
  <1> SUFFICES ASSUME Init PROVE StrandInv
    OBVIOUS
  <1>1. wifi_station_parm \in Credentials /\ ~wifi.on
    BY LoadedType DEF Init
  <1> QED
    BY <1>1, StrandFresh DEF Init

LEMMA StrandRestartStep ==
  ASSUME WifiInv, PowerCut \/ Abort
  PROVE  StrandInv'
  <1>1. PICK powerCut \in BOOLEAN : Restart(powerCut)
    BY DEF PowerCut, Abort
  <1>2. PICK parm \in Loaded :
            todo' = [t \in Task |-> IF t = "main" THEN wifi_config_sta(parm) ELSE <<>>]
    BY <1>1 DEF Restart
  <1>3. parm \in Credentials /\ ~wifi'.on
    BY <1>1, LoadedType DEF Restart, WifiInv, TaskTypeOK
  <1>4. /\ todo'["main"] = wifi_config_sta(parm)
        /\ \A t \in Task \ {"main"} : todo'[t] = <<>>
        /\ "main" \in Task
    BY <1>2 DEF Task
  <1>5. Restarts(<<>>)
    BY DEF Restarts, Some
  <1> QED
    BY <1>3, <1>4, <1>5, ConfigRestarts DEF StrandInv

LEMMA StrandNext == WifiInv /\ StrandInv /\ [Next]_vars => StrandInv'
  <1> SUFFICES ASSUME WifiInv, StrandInv, [Next]_vars PROVE StrandInv'
    OBVIOUS
  <1>1. CASE UNCHANGED <<todo, wifi, queue>>
    BY <1>1 DEF StrandInv
  <1>2. ASSUME NEW t \in Task, CallDriver(t) PROVE StrandInv'
    BY <1>2, StrandDriverStep
  <1>3. CASE TakeEvent
    BY <1>3, StrandTakeEventStep
  <1>4. CASE EventStep \/ ClockStep
    BY <1>4, StrandEventStep
  <1>5. CASE TakeRequest
    BY <1>5, StrandRequestStep
  <1>6. CASE Connects \/ ConnectFails \/ LinkDrops \/ ClientJoins \/ ClientLeaves
    BY <1>6, StrandRadioStep
  <1>7. CASE PowerCut \/ Abort
    BY <1>7, StrandRestartStep
  <1>8. UNCHANGED vars \/ BrowserSends \/ InternetTime => UNCHANGED <<todo, wifi, queue>>
    BY DEF vars, driverVars, BrowserSends, InternetTime
  <1> QED
    BY <1>1, <1>2, <1>3, <1>4, <1>5, <1>6, <1>7, <1>8 DEF Next, EventTask, Task

\* The controller never comes to rest unreachable: whatever is lost, refused or
\* interrupted by a restart, and in whatever order three tasks call the driver,
\* a task or an event is left until it offers its own network, or is connected
\* or connecting.
THEOREM NeverUnreachable == Spec => []NeverStranded
  <1>1. WifiInv /\ StrandInv => NeverStranded
    <2> SUFFICES ASSUME WifiInv, StrandInv, Quiet
                 PROVE  wifi.on /\ (wifi.mode = "ap" \/ wifi.link # "down")
      BY DEF NeverStranded
    <2>1. /\ \A t \in Task : \A A : ~Some(todo[t], A)
          /\ ~Some(queue, {"STA_START", "STA_DISCONNECTED"}) /\ "event" \in Task
      BY DEF Quiet, Some, Task
    <2>2. wifi.mode \in {"none", "ap", "sta"}
      BY DEF WifiInv, DriverTypeOK, Wifi
    <2> QED
      BY <2>1, <2>2 DEF StrandInv
  <1> QED
    BY <1>1, StrandInit, StrandNext, WifiInvariant, PTL DEF Spec
=============================================================================
