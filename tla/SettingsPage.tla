---------------------------- MODULE SettingsPage ----------------------------
(***************************************************************************)
(* The settings page: the scripts of src/main/index.html in several        *)
(* browsers, and the two requests they send, /ajax (echo_post_handler) and *)
(* /param_ajax (param_ajax_handler, save_parmdata of dev_web_server.c).    *)
(*                                                                         *)
(* A page asks for the table when it opens, shows it in text fields, and   *)
(* its Save button posts all of them, edited or not: a read-modify-write   *)
(* over a network, with nothing that tells one browser of another's save.  *)
(* The web server handles one request after the other; what the other      *)
(* tasks see of a save while it runs is in ValveControl.                   *)
(***************************************************************************)
EXTENDS Integers

CONSTANTS
    Browser,
    StartHour,      \* text fields shown and read as hh:mm, 42 in the page
    Duration,       \* text fields shown and read as numbers, 42 in the page
    Typed,          \* texts a user may type
    FactoryTables,  \* tables the controller may hold when the pages open
    MaxMoves,       \* bound: reloads, edits and saves of all users together
    MaxBoots,       \* bound: restarts of the controller
    NaN,            \* JavaScript's value, which cJSON cannot parse
    NoTable,        \* the page has not been given a table
    NoBrowser       \* the clock shows no browser's time

Field == StartHour \union Duration
Half == 32768
Int16 == -Half .. Half - 1
Int32 == -2147483647 .. 2147483647  \* what cJSON's valueint takes as it is
Table == [Field -> Int16]

\* The text of a field: hh:mm, a number, nothing, or anything else (the page
\* opens with XXX in all fields).
Text == [kind : {"clock", "number", "blank", "other"}, a : Int, b : Int]
Clock(h, m) == [kind |-> "clock", a |-> h, b |-> m]
Number(n) == [kind |-> "number", a |-> n, b |-> 0]
Blank == [kind |-> "blank", a |-> 0, b |-> 0]
XXX == [kind |-> "other", a |-> 0, b |-> 0]

ASSUME PageConstants ==
    /\ StartHour \intersect Duration = {}
    /\ Typed \subseteq Text /\ FactoryTables \subseteq Table
    /\ \A text \in Typed : {text.a, 60 * text.a + text.b} \subseteq Int32
    /\ MaxMoves \in Nat /\ MaxBoots \in Nat
    /\ NaN \notin Int /\ NoTable \notin Table /\ NoBrowser \notin Browser

VARIABLES
    table,   \* hour_parm of valve_parm
    flash,   \* hour_parm in flash
    clock,   \* the browser whose time the clock was set to last
    form,    \* the text fields of each page
    asked,   \* browsers whose /ajax request is on its way
    answer,  \* the table on its way to a browser
    posts,   \* /param_ajax requests on their way, in any order
    moves,   \* what the users have done so far
    boots,   \* restarts so far
    \* ---- bookkeeping of the properties
    base,    \* the table each form was filled from
    edited   \* the fields typed into since then

pageVars == <<form, base, edited>>
deviceVars == <<table, flash, clock>>
vars == <<table, flash, clock, form, asked, answer, posts, moves, boots, base, edited>>
-----------------------------------------------------------------------------
(***************************************************************************)
(* Between a minute and a text.                                            *)
(***************************************************************************)

\* parseInt(val / 60) rounds towards zero, and val % 60 has val's sign.
Hours(val) == IF val >= 0 THEN val \div 60 ELSE -((-val) \div 60)

\* Mutant: the hours of a negative minute are rounded down.
Shown_RoundedDown(f, val) ==
    IF f \in StartHour THEN Clock(val \div 60, val - 60 * Hours(val)) ELSE Number(val)

Shown(f, val) ==
    IF f \in StartHour THEN Clock(Hours(val), val - 60 * Hours(val)) ELSE Number(val)

\* Mutant: a start hour that cannot be read is 0, as a duration is.
Value_OtherIsZero(f, text) ==
    CASE f \in StartHour /\ text.kind = "clock" -> 60 * text.a + text.b
      [] f \in Duration /\ text.kind = "number" -> text.a
      [] OTHER -> 0

\* A start hour without a colon is NaN; a duration that is no number is 0, and
\* so is any empty field.
Value(f, text) ==
    CASE f \in StartHour /\ text.kind = "clock" -> 60 * text.a + text.b
      [] f \in StartHour /\ text.kind \in {"number", "other"} -> NaN
      [] f \in Duration /\ text.kind = "number" -> text.a
      [] OTHER -> 0

\* Mutant: the numbers are not cut to 16 bits.
ToInt16_AsIs(x) == x

\* The assignment of cJSON's valueint to an int16_t.
ToInt16(x) == ((x + Half) % (2 * Half)) - Half
-----------------------------------------------------------------------------
(***************************************************************************)
(* The user and the page.                                                  *)
(***************************************************************************)
Moves == moves < MaxMoves /\ moves' = moves + 1

\* window.onload: a new page with XXX in its fields, which asks for the table.
updateOnOpen(b) ==
    /\ Moves
    /\ form' = [form EXCEPT ![b] = [f \in Field |-> XXX]]
    /\ base' = [base EXCEPT ![b] = NoTable] /\ edited' = [edited EXCEPT ![b] = {}]
    /\ asked' = asked \union {b} /\ answer' = [answer EXCEPT ![b] = NoTable]
    /\ UNCHANGED <<deviceVars, posts, boots>>

\* The answer replaces what is in the fields, edited or not.
FillForm(b) ==
    /\ answer[b] # NoTable
    /\ form' = [form EXCEPT ![b] = [f \in Field |-> Shown(f, answer[b][f])]]
    /\ base' = [base EXCEPT ![b] = answer[b]] /\ edited' = [edited EXCEPT ![b] = {}]
    /\ answer' = [answer EXCEPT ![b] = NoTable]
    /\ UNCHANGED <<deviceVars, asked, posts, moves, boots>>

Types(b) ==
    /\ Moves
    /\ \E f \in Field, text \in Typed :
        /\ form' = [form EXCEPT ![b][f] = text]
        /\ edited' = [edited EXCEPT ![b] = @ \union {f}]
    /\ UNCHANGED <<deviceVars, base, asked, answer, posts, boots>>

\* The Save button: every text field, and the browser's time.  The page does
\* not wait for an answer, and takes nothing from it but the status.
sendForm(b) ==
    /\ Moves
    /\ posts' = posts \union
        {[from |-> b, nr |-> moves, values |-> [f \in Field |-> Value(f, form[b][f])],
          base |-> base[b], edited |-> edited[b]]}
    /\ UNCHANGED <<deviceVars, pageVars, asked, answer, boots>>
-----------------------------------------------------------------------------
(***************************************************************************)
(* The controller and the network.                                         *)
(***************************************************************************)
echo_post_handler(b) ==
    /\ b \in asked
    /\ asked' = asked \ {b}
    /\ answer' = [answer EXCEPT ![b] = table]
    /\ UNCHANGED <<deviceVars, pageVars, posts, moves, boots>>

\* The save, all or nothing: cJSON_Parse fails on the first NaN, and then not
\* even the clock is set.  Storing it may fail, and the browser is not told.
save_parmdata(post) ==
    IF \E f \in Field : post.values[f] = NaN
    THEN UNCHANGED deviceVars
    ELSE /\ table' = [f \in Field |-> ToInt16(post.values[f])]
         /\ flash' \in {flash, table'}
         /\ clock' = post.from

param_ajax_handler(post) ==
    /\ post \in posts
    /\ posts' = posts \ {post}
    /\ save_parmdata(post)
    /\ UNCHANGED <<pageVars, asked, answer, moves, boots>>

\* A request or an answer is lost; of a post that breaks off nothing is used.
Lost ==
    /\ \/ \E post \in posts : posts' = posts \ {post} /\ UNCHANGED <<asked, answer>>
       \/ \E b \in asked : asked' = asked \ {b} /\ UNCHANGED <<posts, answer>>
       \/ \E b \in Browser : /\ answer[b] # NoTable
                             /\ answer' = [answer EXCEPT ![b] = NoTable]
                             /\ UNCHANGED <<posts, asked>>
    /\ UNCHANGED <<deviceVars, pageVars, moves, boots>>

\* Requests are lost, the stored table comes back (zeros when it cannot be
\* read), and the pages keep what they show.
Reboot ==
    /\ boots < MaxBoots /\ boots' = boots + 1
    /\ table' \in {flash, [f \in Field |-> 0]}
    /\ clock' \in {clock, NoBrowser}
    /\ asked' = {} /\ posts' = {}
    /\ UNCHANGED <<flash, pageVars, answer, moves>>

\* All browsers have just opened the page.
Init ==
    /\ table \in FactoryTables /\ flash = table /\ clock = NoBrowser
    /\ form = [b \in Browser |-> [f \in Field |-> XXX]]
    /\ base = [b \in Browser |-> NoTable] /\ edited = [b \in Browser |-> {}]
    /\ asked = Browser /\ answer = [b \in Browser |-> NoTable]
    /\ posts = {} /\ moves = 0 /\ boots = 0

User(b) == updateOnOpen(b) \/ FillForm(b) \/ Types(b) \/ sendForm(b)
Server == (\E b \in Browser : echo_post_handler(b))
          \/ (\E post \in posts : param_ajax_handler(post))

Next == (\E b \in Browser : User(b)) \/ Server \/ Lost \/ Reboot

Spec == Init /\ [][Next]_vars
-----------------------------------------------------------------------------
(***************************************************************************)
(* Properties.                                                             *)
(***************************************************************************)
Post == [from : Browser, nr : Nat, values : [Field -> Int \union {NaN}],
         base : Table \union {NoTable}, edited : SUBSET Field]

\* Types of all variables; the table's numbers are 16 bits wide, whatever the
\* users type.
PageTypeOK ==
    /\ table \in Table /\ flash \in Table /\ clock \in Browser \union {NoBrowser}
    /\ form \in [Browser -> [Field -> Text]]
    /\ base \in [Browser -> Table \union {NoTable}]
    /\ edited \in [Browser -> SUBSET Field]
    /\ asked \subseteq Browser /\ answer \in [Browser -> Table \union {NoTable}]
    /\ posts \subseteq Post
    /\ moves \in 0 .. MaxMoves /\ boots \in 0 .. MaxBoots

\* A save changes no field that its user did not type into and that still has
\* the value the page was filled with: hh:mm goes out and comes back the same
\* for every minute the table can hold, below 0 and beyond the day too.  (A
\* field another browser has changed in the meantime is set back.)
UntouchedStays ==
    [][\A post \in posts \ posts' : boots' = boots /\ post.base # NoTable =>
        \A f \in Field \ post.edited :
            table[f] = post.base[f] => table'[f] = table[f]]_vars

\* A page that has not been given the table saves nothing, neither the table
\* nor the time, as long as one start hour still shows XXX: its answer may be
\* late or lost, and its durations would be taken for 0.
UnfilledSavesNothing ==
    [][\A post \in posts \ posts' :
        /\ boots' = boots /\ post.base = NoTable /\ ~(StartHour \subseteq post.edited)
        => UNCHANGED deviceVars]_vars
=============================================================================
