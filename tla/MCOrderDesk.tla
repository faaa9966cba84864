---------------------------- MODULE MCOrderDesk ----------------------------
EXTENDS OrderDesk, TLC

CONSTANTS c1, s1

Hedge == [market |-> "futures", mode |-> "HEDGE", account |-> "HEDGE"]
AutoHedge == [Hedge EXCEPT !.mode = "AUTO"]
OneWay == [market |-> "futures", mode |-> "ONE_WAY", account |-> "ONE_WAY"]
Spot == [market |-> "spot", mode |-> "AUTO", account |-> "ONE_WAY"]
Wrong == [Hedge EXCEPT !.mode = "ONE_WAY"]
MCVenues == {Hedge, AutoHedge, Wrong, OneWay, [OneWay EXCEPT !.mode = "AUTO"], Spot}

Form(side, paper) == [side |-> side, pos |-> "BOTH", paper |-> paper]
MCForms == [v \in MCVenues |->
  IF v = Hedge THEN {} ELSE IF v = Spot THEN {Form("SELL", FALSE), Form("LONG", FALSE)}
  ELSE {Form("BUY", FALSE), Form("SHORT", FALSE), Form("BUY", TRUE)}]
\* What a config's row says of its orders, and what it may say once it was changed.
Real == [pos |-> "BOTH", qty |-> Quantity, paper |-> FALSE]
MCOrderConfigs == [v \in MCVenues |->
  CASE v = OneWay -> {Real, [Real EXCEPT !.paper = TRUE]}
    [] v = Spot -> {Real, [Real EXCEPT !.qty = 1]}
    [] v = AutoHedge -> {Real, [Real EXCEPT !.pos = "SHORT"]}
    [] OTHER -> {Real}]
MCSignalSides == [v \in MCVenues |->
  CASE v = Hedge -> {"SELL"} [] v \in {Wrong, Spot} -> {"BUY", "SELL"} [] OTHER -> {"BUY"}]
MCBodies == {[enabled |-> FALSE, strategy |-> Keep], [enabled |-> TRUE, strategy |-> Keep],
             [enabled |-> Keep, strategy |-> s1]}
MCInitialConfigs == {[c \in Configs |-> NoRow],
                     [c \in Configs |-> IF c = c1 THEN [enabled |-> TRUE, strategy |-> s1] ELSE NoRow]}
\* Two updates of a config, whose entries need one close; one update with two
\* entries; or no update and the exchange's delays, at each venue.
MCDeskInit ==
  /\ DeskInit
  /\ \/ venue = Hedge /\ Ids \cap taken = {3} /\ updates = 1 /\ delays = MaxDelays
     \/ venue = Hedge /\ Ids \cap taken = {} /\ updates = 2 /\ delays = MaxDelays
     \/ /\ venue # Hedge /\ configs[c1] # NoRow /\ Ids \cap taken = {3} /\ updates = MaxUpdates
        /\ delays = IF venue \in {AutoHedge, Wrong} THEN 0 ELSE MaxDelays
=============================================================================
