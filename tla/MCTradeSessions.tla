-------------------------- MODULE MCTradeSessions --------------------------
(* Two scenes of the trade.  Three characters with a session each and two  *)
(* trades without gold, so that a new trade displaces one that is open or  *)
(* committing: the third one, sc, is connected from the start and stays.   *)
(* And one trade with a coin, whose owner ca has two connections: sc is    *)
(* not there.  All bags are empty.                                         *)
EXTENDS MCItemTrade

ThirdConnected ==
    /\ selected = {sc}
    /\ online = [c \in Chars |-> IF c = cc THEN sc ELSE Offline]

MCInit ==
    /\ trades = <<>>
    /\ itemTrades = [c \in Chars |-> 0]
    /\ bag = InitBag
    /\ wallet = InitGold
    /\ \/ ThirdConnected
       \/ selected = {} /\ online = [c \in Chars |-> Offline]
    /\ pc = [s \in Sessions |-> idle]
    /\ told = {}
    /\ consent = {}
    /\ sold = [i \in Items |-> 0]

NoneBegun == trades = <<>> /\ \A s \in Sessions : pc[s].at # "begin"

Begins(s) == pc[s].at # "begin" /\ pc'[s].at = "begin"

(* What a step may do: the three characters of the first scene are alike,  *)
(* so the first trade is asked for by sa and its peer is cb.               *)
InScene ==
    IF sc \in selected
    THEN /\ sc \in selected' /\ sa2 \notin selected'
         /\ pc'[sc].at # "detach"
         /\ \A s \in Sessions : pc'[s].at # "gold"
         /\ \A s \in Sessions : NoneBegun /\ Begins(s) => s = sa /\ pc'[s].peer = cb
    ELSE /\ sc \notin selected'
         /\ \A s \in Sessions : Begins(s) => NoneBegun

MCSpec == MCInit /\ [][Next]_vars
=============================================================================
