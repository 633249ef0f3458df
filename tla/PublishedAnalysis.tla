------------------------- MODULE PublishedAnalysis --------------------------
(***************************************************************************)
(* What a disassembly window is promised about its analysis, whatever      *)
(* threads there are: requests are numbered, only the latest one can be    *)
(* shown, at most once, not after it was withdrawn, and a new request is   *)
(* made only after the one before it was withdrawn.                        *)
(***************************************************************************)
EXTENDS Integers

VARIABLES
    latest,      \* the number of the latest request
    withdrawn,   \* whether that request has been withdrawn
    shown        \* the request whose analysis is shown, 0 for none

publishedVars == <<latest, withdrawn, shown>>

PublishedInit == latest = 1 /\ withdrawn = FALSE /\ shown = 0

Withdraw ==
    /\ withdrawn' = TRUE
    /\ UNCHANGED <<latest, shown>>

Request ==
    /\ withdrawn
    /\ latest' = latest + 1
    /\ withdrawn' = FALSE
    /\ UNCHANGED shown

Show ==
    /\ ~withdrawn
    /\ shown < latest
    /\ shown' = latest
    /\ UNCHANGED <<latest, withdrawn>>

PublishedNext == Withdraw \/ Request \/ Show

PublishedSpec == PublishedInit /\ [][PublishedNext]_publishedVars
=============================================================================
