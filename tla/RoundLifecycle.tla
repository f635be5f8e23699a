--------------------------- MODULE RoundLifecycle ---------------------------
(***************************************************************************)
(* What an auction's life looks like from outside: it is started, its      *)
(* rounds are closed one after the other, each awarding some of the gifts  *)
(* that are left, a next round is opened only after the current one is     *)
(* closed and while there are gifts and rounds left, and the auction is    *)
(* completed only once its rounds or its gifts have run out.  A closed     *)
(* round stays closed and keeps its number of winners.                     *)
(***************************************************************************)
EXTENDS Integers

CONSTANTS
    TotalGifts,
    TotalRounds

VARIABLES
    status,     \* of the auction
    current,    \* index of the current round
    closed,     \* whether the current round is closed
    awarded     \* gifts awarded by the rounds closed so far

lifecycle == <<status, current, closed, awarded>>

Init == status = "CREATED" /\ current = 0 /\ closed = FALSE /\ awarded = 0

Start ==
    /\ status = "CREATED"
    /\ status' = "RUNNING"
    /\ UNCHANGED <<current, closed, awarded>>

CloseRound ==
    /\ status = "RUNNING"
    /\ ~ closed
    /\ closed' = TRUE
    /\ awarded' \in awarded .. TotalGifts
    /\ UNCHANGED <<status, current>>

OpenNextRound ==
    /\ status = "RUNNING"
    /\ closed
    /\ awarded < TotalGifts
    /\ current + 1 < TotalRounds
    /\ current' = current + 1
    /\ closed' = FALSE
    /\ UNCHANGED <<status, awarded>>

Complete ==
    /\ status = "RUNNING"
    /\ closed
    /\ current + 1 = TotalRounds \/ awarded = TotalGifts
    /\ status' = "COMPLETED"
    /\ UNCHANGED <<current, closed, awarded>>

\* finalizeAuction finds the last round open and settles it itself.
CloseAndComplete ==
    /\ status = "RUNNING"
    /\ ~ closed
    /\ current + 1 = TotalRounds
    /\ closed' = TRUE
    /\ awarded' \in awarded .. TotalGifts
    /\ status' = "COMPLETED"
    /\ UNCHANGED current

Next == Start \/ CloseRound \/ OpenNextRound \/ Complete \/ CloseAndComplete

Spec == Init /\ [][Next]_lifecycle
=============================================================================
