------------------------------- MODULE Escrow -------------------------------
(***************************************************************************)
(* What an auction promises about the money of its bidders, without        *)
(* transactions, rounds or a ledger.  A bidder's money is free, staked on  *)
(* the bidder's one bid, or spent on gifts.  A bidder may move free money  *)
(* to the stake; the auction takes the whole stake (a win) or gives the    *)
(* whole stake back (a refund).  One step may move the money of several    *)
(* bidders, each of them in one of these three ways.                       *)
(***************************************************************************)
EXTENDS Integers

CONSTANTS
    Users,
    InitialDeposit

VARIABLE wallet    \* wallet[u]: the money of bidder u

Wallet == [free : Int, stake : Int, spent : Int]

Init == wallet = [u \in Users |-> [free |-> InitialDeposit, stake |-> 0, spent |-> 0]]

Raise(old, new) ==
    /\ new.stake > old.stake
    /\ new.free = old.free - (new.stake - old.stake)
    /\ new.free >= 0
    /\ new.spent = old.spent

Win(old, new) ==
    /\ new.free = old.free
    /\ new.stake = 0
    /\ new.spent = old.spent + old.stake

Return(old, new) ==
    /\ new.free = old.free + old.stake
    /\ new.stake = 0
    /\ new.spent = old.spent

Move(old, new) == old = new \/ Raise(old, new) \/ Win(old, new) \/ Return(old, new)

Next ==
    /\ wallet' \in [Users -> Wallet]
    /\ \A u \in Users : Move(wallet[u], wallet'[u])

Spec == Init /\ [][Next]_wallet
=============================================================================
