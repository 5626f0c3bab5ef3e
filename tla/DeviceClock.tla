------------------------------ MODULE DeviceClock ------------------------------
(***************************************************************************)
(* Who sets the clock: init_time and obtain_time of src/main/dev_time.c,   *)
(* which run in the event task when the station gets its address, the SNTP *)
(* client in its own task, and update_time called for the browser.  The    *)
(* time itself is abstracted to the hours it is ahead of UTC; the code     *)
(* means it to be 3, Israel's, and ignores the daylight saving time.       *)
(***************************************************************************)
EXTENDS Integers, Sequences

CONSTANTS
    RetryCount,  \* retry_count of obtain_time, 10 in the code
    Unset        \* the clock shows a time before 2016

ASSUME ClockConstants == RetryCount \in Nat \ {0} /\ Unset \notin Int

Israel == 3

VARIABLES
    clock,    \* hours ahead of UTC, or Unset
    sntp,     \* the SNTP client: running, and a synchronisation to report
    obtain    \* locals of obtain_time: retry, and the time read last

clockVars == <<clock, sntp, obtain>>

SntpOff == [running |-> FALSE, synced |-> FALSE]
ObtainStart == [retry |-> 0, seen |-> Unset]

\* init_time calls obtain_time only when the year is before 2016: these are
\* then the event task's next steps.
obtain_time == <<"initialize_sntp", "poll", "read", "correct", "announce">>
init_time == IF clock = Unset THEN obtain_time ELSE <<>>

\* Mutant: the client is not started.
initialize_sntp_NoInit == UNCHANGED clockVars

initialize_sntp ==
    /\ sntp' = [sntp EXCEPT !.running = TRUE]
    /\ obtain' = ObtainStart
    /\ UNCHANGED clock

\* sntp_get_sync_status reports a synchronisation once.  The loop ends on it,
\* or when it has waited long enough.
PollEnds == sntp.synced \/ obtain.retry + 1 >= RetryCount

\* Mutant: the attempts are not counted.
Poll_NotCounted ==
    /\ sntp' = [sntp EXCEPT !.synced = FALSE]
    /\ UNCHANGED <<clock, obtain>>

Poll ==
    /\ sntp' = [sntp EXCEPT !.synced = FALSE]
    /\ obtain' = IF PollEnds THEN obtain ELSE [obtain EXCEPT !.retry = @ + 1]
    /\ UNCHANGED clock

\* time(&now), and then, in another step, update_time with three hours more:
\* a clock still in 1970 stays there.
ReadTime == obtain' = [obtain EXCEPT !.seen = clock] /\ UNCHANGED <<clock, sntp>>
CorrectTime ==
    /\ clock' = IF obtain.seen = Unset THEN Unset ELSE obtain.seen + Israel
    /\ obtain' = ObtainStart
    /\ UNCHANGED sntp

\* The SNTP client sets the clock to UTC, again every hour.
SntpSync ==
    /\ sntp.running
    /\ clock' = 0
    /\ sntp' = [sntp EXCEPT !.synced = TRUE]
    /\ UNCHANGED obtain

\* The settings page sends the browser's own local time.
update_time == clock' = Israel /\ UNCHANGED <<sntp, obtain>>

\* A software restart keeps the time, a power cut does not.
ClockRestart(powerCut) ==
    /\ clock' = IF powerCut THEN Unset ELSE clock
    /\ sntp' = SntpOff /\ obtain' = ObtainStart

ClockInit == clock = Unset /\ sntp = SntpOff /\ obtain = ObtainStart

\* The correction is added at most once to a time that is already local.
ClockTypeOK ==
    /\ clock \in {Unset, 0, Israel, 2 * Israel}
    /\ sntp \in [running : BOOLEAN, synced : BOOLEAN]
    /\ obtain \in [retry : 0 .. RetryCount - 1, seen : {Unset, 0, Israel}]
==============================================================================
