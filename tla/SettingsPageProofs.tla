------------------------- MODULE SettingsPageProofs -------------------------
(***************************************************************************)
(* Theorems about SettingsPage, for any browsers, any number of fields,    *)
(* any texts, and any order, loss and delay of the requests.               *)
(***************************************************************************)
EXTENDS SettingsPage, TLAPS

\* The two conversions between a minute and a text.
LEMMA ShownType ==
  ASSUME NEW f \in Field, NEW val \in Int
  PROVE  Shown(f, val) \in Text
  <1>1. Hours(val) \in Int
    BY DEF Hours
  <1> QED
    BY <1>1 DEF Shown, Clock, Number, Text

LEMMA ValueType ==
  ASSUME NEW f \in Field, NEW text \in Text
  PROVE  Value(f, text) \in Int \union {NaN}
  BY DEF Value, Text

\* What is shown is read back as the same number, on both sides of zero.
LEMMA RoundTrip ==
  ASSUME NEW f \in Field, NEW val \in Int
  PROVE  Value(f, Shown(f, val)) = val
  <1>1. Hours(val) \in Int
    BY DEF Hours
  <1>2. CASE f \in StartHour
    <2>1. Value(f, Shown(f, val)) = 60 * Hours(val) + (val - 60 * Hours(val))
      BY <1>2 DEF Shown, Clock, Value
    <2> QED
      BY <1>1, <2>1
  <1>3. CASE f \notin StartHour
    BY <1>3 DEF Shown, Number, Value, Field
  <1> QED
    BY <1>2, <1>3

\* XXX is no start hour.
LEMMA XXXIsNaN == ASSUME NEW f \in StartHour PROVE Value(f, XXX) = NaN
  BY DEF Value, XXX

\* The numbers of the table: Half is kept folded, the provers would list them.
LEMMA Int16Is ==
  ASSUME NEW x
  PROVE  x \in Int16 <=> x \in Int /\ -Half <= x /\ x <= Half - 1
  <1>1. Half \in Int
    BY DEF Half
  <1> QED
    BY <1>1 DEF Int16

LEMMA TableEntry ==
  ASSUME NEW t \in Table, NEW f \in Field
  PROVE  t[f] \in Int16 /\ t[f] \in Int
  <1>1. t[f] \in Int16
    BY DEF Table
  <1> QED
    BY <1>1, Int16Is

LEMMA ToInt16Type == ASSUME NEW x \in Int PROVE ToInt16(x) \in Int16
  <1> DEFINE r == (x + 32768) % 65536
  <1>1. r \in Int /\ 0 <= r /\ r < 65536
    OBVIOUS
  <1>2. ToInt16(x) = r - 32768
    BY DEF ToInt16, Half
  <1> HIDE DEF r
  <1>3. ToInt16(x) \in Int /\ -Half <= ToInt16(x) /\ ToInt16(x) <= Half - 1
    BY <1>1, <1>2 DEF Half
  <1> QED
    BY <1>3, Int16Is

LEMMA ToInt16Same == ASSUME NEW x \in Int16 PROVE ToInt16(x) = x
  <1>1. x \in Int /\ -Half <= x /\ x <= Half - 1
    BY Int16Is
  <1>2. 0 <= x + 32768 /\ x + 32768 < 65536
    BY <1>1 DEF Half
  <1>3. (x + 32768) % 65536 = x + 32768
    BY <1>1, <1>2
  <1> QED
    BY <1>1, <1>3 DEF ToInt16, Half

LEMMA ZeroTable == [f \in Field |-> 0] \in Table
  <1>1. 0 \in Int16
    BY Int16Is DEF Half
  <1> QED
    BY <1>1 DEF Table

\* What a save puts into RAM and flash is a table of 16 bit numbers.
LEMMA SaveType ==
  ASSUME PageTypeOK, NEW post \in posts, save_parmdata(post)
  PROVE  table' \in Table /\ flash' \in Table /\ clock' \in Browser \union {NoBrowser}
  <1>1. post \in Post
    BY DEF PageTypeOK
  <1>2. CASE \E f \in Field : post.values[f] = NaN
    BY <1>2 DEF save_parmdata, deviceVars, PageTypeOK
  <1>3. CASE ~ \E f \in Field : post.values[f] = NaN
    <2>1. \A f \in Field : post.values[f] \in Int
      BY <1>1, <1>3 DEF Post
    <2>2. [f \in Field |-> ToInt16(post.values[f])] \in Table
      BY <2>1, ToInt16Type DEF Table
    <2> QED
      BY <1>1, <1>3, <2>2 DEF save_parmdata, PageTypeOK, Post
  <1> QED
    BY <1>2, <1>3

LEMMA InitType == Init => PageTypeOK
  <1> SUFFICES ASSUME Init PROVE PageTypeOK
    OBVIOUS
  <1>1. XXX \in Text
    BY DEF XXX, Text
  <1> QED
    BY <1>1, PageConstants DEF Init, PageTypeOK

LEMMA UserType ==
  ASSUME PageTypeOK, NEW b \in Browser, User(b)
  PROVE  PageTypeOK'
  <1>0. ASSUME Moves PROVE moves' \in 0 .. MaxMoves
    BY <1>0, PageConstants DEF Moves, PageTypeOK
  <1>1. CASE updateOnOpen(b)
    <2>1. [f \in Field |-> XXX] \in [Field -> Text]
      BY DEF XXX, Text
    <2>2. form' \in [Browser -> [Field -> Text]]
      BY <1>1, <2>1 DEF updateOnOpen, PageTypeOK
    <2>3. /\ base' \in [Browser -> Table \union {NoTable}]
          /\ edited' \in [Browser -> SUBSET Field]
          /\ answer' \in [Browser -> Table \union {NoTable}] /\ asked' \subseteq Browser
      BY <1>1 DEF updateOnOpen, PageTypeOK
    <2> QED
      BY <1>0, <1>1, <2>2, <2>3 DEF updateOnOpen, deviceVars, PageTypeOK
  <1>2. CASE FillForm(b)
    <2>1. answer[b] \in Table
      BY <1>2 DEF FillForm, PageTypeOK
    <2>2. \A f \in Field : answer[b][f] \in Int
      BY <2>1, TableEntry
    <2>3. [f \in Field |-> Shown(f, answer[b][f])] \in [Field -> Text]
      BY <2>2, ShownType
    <2>4. form' \in [Browser -> [Field -> Text]]
      BY <1>2, <2>3 DEF FillForm, PageTypeOK
    <2>5. /\ base' \in [Browser -> Table \union {NoTable}]
          /\ edited' \in [Browser -> SUBSET Field]
          /\ answer' \in [Browser -> Table \union {NoTable}]
      BY <1>2, <2>1 DEF FillForm, PageTypeOK
    <2> QED
      BY <1>2, <2>4, <2>5 DEF FillForm, deviceVars, PageTypeOK
  <1>3. CASE Types(b)
    <2>1. PICK f \in Field, text \in Typed :
              /\ form' = [form EXCEPT ![b][f] = text]
              /\ edited' = [edited EXCEPT ![b] = @ \union {f}]
      BY <1>3 DEF Types
    <2>2. text \in Text
      BY PageConstants
    <2>3. form' \in [Browser -> [Field -> Text]] /\ edited' \in [Browser -> SUBSET Field]
      BY <2>1, <2>2 DEF PageTypeOK
    <2> QED
      BY <1>0, <1>3, <2>3 DEF Types, deviceVars, PageTypeOK
  <1>4. CASE sendForm(b)
    <2>1. \A f \in Field : Value(f, form[b][f]) \in Int \union {NaN}
      BY ValueType DEF PageTypeOK
    <2>2. [f \in Field |-> Value(f, form[b][f])] \in [Field -> Int \union {NaN}]
      BY <2>1
    <2>3. /\ base[b] \in Table \union {NoTable} /\ edited[b] \in SUBSET Field
          /\ moves \in Nat
      BY DEF PageTypeOK
    <2>4. [from |-> b, nr |-> moves, values |-> [f \in Field |-> Value(f, form[b][f])],
           base |-> base[b], edited |-> edited[b]] \in Post
      BY <2>2, <2>3 DEF Post
    <2>5. posts' \subseteq Post
      BY <1>4, <2>4 DEF sendForm, PageTypeOK
    <2> QED
      BY <1>0, <1>4, <2>5 DEF sendForm, deviceVars, pageVars, PageTypeOK
  <1> QED
    BY <1>1, <1>2, <1>3, <1>4 DEF User

LEMMA NextType == PageTypeOK /\ [Next]_vars => PageTypeOK'
  <1> SUFFICES ASSUME PageTypeOK, [Next]_vars PROVE PageTypeOK'
    OBVIOUS
  <1>1. CASE UNCHANGED vars
    BY <1>1 DEF vars, PageTypeOK
  <1>2. CASE \E b \in Browser : User(b)
    BY <1>2, UserType
  <1>3. CASE \E b \in Browser : echo_post_handler(b)
    BY <1>3 DEF echo_post_handler, deviceVars, pageVars, PageTypeOK
  <1>4. CASE \E post \in posts : param_ajax_handler(post)
    <2>1. PICK post \in posts : param_ajax_handler(post)
      BY <1>4
    <2>2. table' \in Table /\ flash' \in Table /\ clock' \in Browser \union {NoBrowser}
      BY <2>1, SaveType DEF param_ajax_handler
    <2> QED
      BY <2>1, <2>2 DEF param_ajax_handler, pageVars, PageTypeOK
  <1>5. CASE Lost
    <2>1. posts' \subseteq posts /\ asked' \subseteq asked
      BY <1>5 DEF Lost
    <2>2. answer' \in [Browser -> Table \union {NoTable}]
      BY <1>5 DEF Lost, PageTypeOK
    <2> QED
      BY <1>5, <2>1, <2>2 DEF Lost, deviceVars, pageVars, PageTypeOK
  <1>6. CASE Reboot
    BY <1>6, ZeroTable, PageConstants DEF Reboot, pageVars, PageTypeOK
  <1> QED
    BY <1>1, <1>2, <1>3, <1>4, <1>5, <1>6 DEF Next, Server

\* Every variable keeps its type: whatever is typed, the table stays one of
\* 16 bit numbers.
THEOREM PageTypeCorrect == Spec => []PageTypeOK
  BY InitType, NextType, PTL DEF Spec
-----------------------------------------------------------------------------
(***************************************************************************)
(* A field nobody has typed into shows what the page was filled with, and  *)
(* a request on its way carries that.                                      *)
(***************************************************************************)
Untouched(b) == \A f \in Field \ edited[b] :
    form[b][f] = IF base[b] = NoTable THEN XXX ELSE Shown(f, base[b][f])

Carries(post) == \A f \in Field \ post.edited :
    IF post.base = NoTable THEN f \in StartHour => post.values[f] = NaN
                           ELSE post.values[f] = post.base[f]

PageInv == (\A b \in Browser : Untouched(b)) /\ (\A post \in posts : Carries(post))

LEMMA InitPage == Init => PageInv
  BY DEF Init, PageInv, Untouched

\* The page's fields, and what a Save makes of them.
LEMMA UserKeeps ==
  ASSUME PageTypeOK, PageInv, NEW b \in Browser, User(b)
  PROVE  PageInv'
  <1>0. /\ form \in [Browser -> [Field -> Text]]
        /\ base \in [Browser -> Table \union {NoTable}]
        /\ edited \in [Browser -> SUBSET Field]
    BY DEF PageTypeOK
  <1>1. CASE updateOnOpen(b)
    <2>1. /\ posts' = posts /\ base'[b] = NoTable /\ form'[b] = [f \in Field |-> XXX]
          /\ \A c \in Browser \ {b} : /\ form'[c] = form[c] /\ base'[c] = base[c]
                                      /\ edited'[c] = edited[c]
      BY <1>0, <1>1 DEF updateOnOpen
    <2>2. \A c \in Browser \ {b} : Untouched(c)'
      BY <2>1 DEF PageInv, Untouched
    <2>3. Untouched(b)'
      BY <2>1 DEF Untouched
    <2> QED
      BY <2>1, <2>2, <2>3 DEF PageInv, Carries
  <1>2. CASE FillForm(b)
    <2>1. /\ posts' = posts /\ base'[b] = answer[b] /\ answer[b] # NoTable
          /\ form'[b] = [f \in Field |-> Shown(f, answer[b][f])]
          /\ \A c \in Browser \ {b} : /\ form'[c] = form[c] /\ base'[c] = base[c]
                                      /\ edited'[c] = edited[c]
      BY <1>0, <1>2 DEF FillForm
    <2>2. \A c \in Browser \ {b} : Untouched(c)'
      BY <2>1 DEF PageInv, Untouched
    <2>3. Untouched(b)'
      BY <2>1 DEF Untouched
    <2> QED
      BY <2>1, <2>2, <2>3 DEF PageInv, Carries
  <1>3. CASE Types(b)
    <2>1. PICK f \in Field, text \in Typed :
              /\ form' = [form EXCEPT ![b][f] = text]
              /\ edited' = [edited EXCEPT ![b] = @ \union {f}]
      BY <1>3 DEF Types
    <2>2. posts' = posts /\ base' = base
      BY <1>3 DEF Types
    <2>3. ASSUME NEW c \in Browser, NEW g \in Field \ edited'[c]
          PROVE  g \in Field \ edited[c] /\ form'[c][g] = form[c][g]
      <3>1. CASE c = b
        <4>1. edited'[c] = edited[c] \union {f}
          BY <1>0, <2>1, <3>1
        <4>2. g # f
          BY <2>3, <4>1
        <4> QED
          BY <1>0, <2>1, <2>3, <3>1, <4>1, <4>2
      <3>2. CASE c # b
        BY <1>0, <2>1, <2>3, <3>2
      <3> QED
        BY <3>1, <3>2
    <2>4. \A c \in Browser : Untouched(c)'
      BY <2>2, <2>3 DEF PageInv, Untouched
    <2> QED
      BY <2>2, <2>4 DEF PageInv, Carries
  <1>4. CASE sendForm(b)
    <2> DEFINE new == [from |-> b, nr |-> moves,
                       values |-> [f \in Field |-> Value(f, form[b][f])],
                       base |-> base[b], edited |-> edited[b]]
    <2>1. posts' = posts \union {new} /\ UNCHANGED pageVars
      BY <1>4 DEF sendForm
    <2>2. Carries(new)
      <3>1. /\ new.base = base[b] /\ new.edited = edited[b]
            /\ \A f \in Field : new.values[f] = Value(f, form[b][f])
        OBVIOUS
      <3> HIDE DEF new
      <3>2. ASSUME NEW f \in Field \ edited[b], base[b] = NoTable, f \in StartHour
            PROVE  new.values[f] = NaN
        <4>1. form[b][f] = XXX
          BY <3>2 DEF PageInv, Untouched
        <4> QED
          BY <3>1, <3>2, <4>1, XXXIsNaN
      <3>3. ASSUME NEW f \in Field \ edited[b], base[b] # NoTable
            PROVE  new.values[f] = base[b][f]
        <4>1. form[b][f] = Shown(f, base[b][f])
          BY <3>3 DEF PageInv, Untouched
        <4>2. base[b] \in Table
          BY <1>0, <3>3
        <4>3. base[b][f] \in Int
          BY <4>2, TableEntry
        <4> QED
          BY <3>1, <4>1, <4>3, RoundTrip
      <3> QED
        BY <3>1, <3>2, <3>3 DEF Carries
    <2> HIDE DEF new
    <2>3. \A c \in Browser : Untouched(c)'
      BY <2>1 DEF PageInv, Untouched, pageVars
    <2> QED
      BY <2>1, <2>2, <2>3 DEF PageInv, Carries
  <1> QED
    BY <1>1, <1>2, <1>3, <1>4 DEF User

LEMMA NextPage == PageTypeOK /\ PageInv /\ [Next]_vars => PageInv'
  <1> SUFFICES ASSUME PageTypeOK, PageInv, [Next]_vars PROVE PageInv'
    OBVIOUS
  <1>1. CASE \E b \in Browser : User(b)
    BY <1>1, UserKeeps
  <1>2. CASE UNCHANGED vars \/ Server \/ Lost \/ Reboot
    <2>1. UNCHANGED pageVars /\ posts' \subseteq posts
      BY <1>2 DEF vars, pageVars, Server, echo_post_handler, param_ajax_handler, Lost, Reboot
    <2> QED
      BY <2>1 DEF PageInv, Untouched, Carries, pageVars
  <1> QED
    BY <1>1, <1>2 DEF Next

LEMMA PageInvariant == Spec => []PageInv
  BY InitPage, NextPage, PageTypeCorrect, PTL DEF Spec

\* A request leaves the network by being handled, by being lost, which changes
\* nothing, or by a restart.
LEMMA HandledOrLost ==
  ASSUME PageTypeOK, [Next]_vars, NEW post \in posts \ posts', boots' = boots
  PROVE  save_parmdata(post) \/ UNCHANGED deviceVars
  <1>1. CASE \E b \in Browser : User(b)
    BY <1>1 DEF User, updateOnOpen, FillForm, Types, sendForm
  <1>2. CASE \E b \in Browser : echo_post_handler(b)
    BY <1>2 DEF echo_post_handler
  <1>3. CASE \E q \in posts : param_ajax_handler(q)
    <2>1. PICK q \in posts : param_ajax_handler(q)
      BY <1>3
    <2>2. q = post
      BY <2>1 DEF param_ajax_handler
    <2> QED
      BY <2>1, <2>2 DEF param_ajax_handler
  <1>4. CASE Lost
    BY <1>4 DEF Lost
  <1>5. CASE Reboot
    BY <1>5 DEF Reboot, PageTypeOK
  <1>6. CASE UNCHANGED vars
    BY <1>6 DEF vars
  <1> QED
    BY <1>1, <1>2, <1>3, <1>4, <1>5, <1>6 DEF Next, Server

\* A save changes no field that its user did not type into and that still has
\* the value the page was filled with.
THEOREM SaveKeepsUntouched == Spec => UntouchedStays
  <1>1. ASSUME PageTypeOK, PageInv, [Next]_vars, NEW post \in posts \ posts',
               boots' = boots, post.base # NoTable, NEW f \in Field \ post.edited,
               table[f] = post.base[f]
        PROVE  table'[f] = table[f]
    <2>1. post.values[f] = table[f]
      BY <1>1 DEF PageInv, Carries
    <2>2. table[f] \in Int16
      BY <1>1, TableEntry DEF PageTypeOK
    <2>3. CASE save_parmdata(post) /\ ~ \E g \in Field : post.values[g] = NaN
      <3>1. table'[f] = ToInt16(table[f])
        BY <2>1, <2>3 DEF save_parmdata
      <3> QED
        BY <2>2, <3>1, ToInt16Same
    <2>4. CASE UNCHANGED deviceVars
      BY <2>4 DEF deviceVars
    <2> QED
      BY <1>1, <2>3, <2>4, HandledOrLost DEF save_parmdata
  <1>2. PageTypeOK /\ PageInv /\ [Next]_vars =>
          [\A post \in posts \ posts' : boots' = boots /\ post.base # NoTable =>
             \A f \in Field \ post.edited :
               table[f] = post.base[f] => table'[f] = table[f]]_vars
    BY <1>1
  <1> QED
    BY <1>2, PageInvariant, PageTypeCorrect, PTL DEF Spec, UntouchedStays

\* A page that was not filled saves nothing while one start hour shows XXX.
THEOREM UnfilledIsHarmless == Spec => UnfilledSavesNothing
  <1>1. ASSUME PageTypeOK, PageInv, [Next]_vars, NEW post \in posts \ posts',
               boots' = boots, post.base = NoTable, ~(StartHour \subseteq post.edited)
        PROVE  UNCHANGED deviceVars
    <2>1. PICK f \in StartHour : f \notin post.edited
      BY <1>1
    <2>2. f \in Field /\ post.values[f] = NaN
      BY <1>1, <2>1 DEF PageInv, Carries, Field
    <2> QED
      BY <1>1, <2>2, HandledOrLost DEF save_parmdata
  <1>2. PageTypeOK /\ PageInv /\ [Next]_vars =>
          [\A post \in posts \ posts' :
             /\ boots' = boots /\ post.base = NoTable /\ ~(StartHour \subseteq post.edited)
             => UNCHANGED deviceVars]_vars
    BY <1>1
  <1> QED
    BY <1>2, PageInvariant, PageTypeCorrect, PTL DEF Spec, UnfilledSavesNothing
=============================================================================
